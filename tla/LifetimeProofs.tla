--------------------------- MODULE LifetimeProofs ---------------------------
(***************************************************************************)
(* Proofs about Lifetime, for any threads, owners, users and any number of *)
(* unreadable rules.json.                                                  *)
(***************************************************************************)
EXTENDS Lifetime, TLAPS, FiniteSetTheorems

USE LifetimeAssumption

States == {"raw", "ready", "freed"}
Objects == [what : Classes, state : States]
Faults == [what : Classes, state : {"raw", "freed"}] \cup {NoFault}

\* Nothing exists when the process starts.
LEMMA InitInd == Init => IndInv
<1> SUFFICES ASSUME Init PROVE IndInv
  OBVIOUS
<1> USE DEF Init, Idle, Classes, NoFault
<1>0. heap \in Seq(Objects) /\ Len(heap) = 0 /\ DOMAIN heap = {}
  BY DEF Objects
<1>1. TypeOK
  BY <1>0 DEF TypeOK, Pointers, What
<1>2. ControlInv /\ GoalInv
  BY <1>0 DEF ControlInv, GoalInv, Goals, What, Objects, States
<1>3. InstanceInv /\ PointerInv
  BY <1>0 DEF InstanceInv, PointerInv, What
<1>4. ScopeInv
  BY DEF ScopeInv, PoolHeld, What
<1> QED BY <1>1, <1>2, <1>3, <1>4 DEF IndInv

\* What a pointer of a thread, owner or user may be.
LEMMA Typing ==
  ASSUME IndInv
  PROVE  /\ heap \in Seq(Objects) /\ Len(heap) \in Nat /\ DOMAIN heap = 1..Len(heap)
         /\ \A x \in Classes : instance[x] \in 0..Len(heap)
         /\ \A t \in Threads :
               /\ ptr[t] \in 0..Len(heap)
               /\ at[t] # "idle" => What(t) \in Classes
               /\ at[t] = "create" => ptr[t] \in 1..Len(heap)
               /\ at[t] = "got" => ptr[t] \in 1..Len(heap)
  BY DEF IndInv, TypeOK, ControlInv, PointerInv, Objects, States, Pointers, Goals, What, Classes

\* Changing the state of one object leaves the others and every class alone.
LEMMA StateChange ==
  ASSUME heap \in Seq(Objects), NEW p \in 1..Len(heap), NEW x \in States,
         heap' = [heap EXCEPT ![p].state = x]
  PROVE  /\ heap' \in Seq(Objects) /\ Len(heap') = Len(heap) /\ DOMAIN heap' = DOMAIN heap
         /\ heap'[p].state = x
         /\ \A i \in 1..Len(heap) : heap'[i].what = heap[i].what /\ (i # p => heap'[i] = heap[i])
<1>0. heap[p] \in Objects
  OBVIOUS
<1>1. [heap[p] EXCEPT !.state = x] \in Objects
  BY <1>0 DEF Objects
<1>2. heap' = [heap EXCEPT ![p] = [heap[p] EXCEPT !.state = x]]
  OBVIOUS
<1> QED BY <1>0, <1>1, <1>2 DEF Objects


\* A call of getInstance() by an owner, a Migrator or a look-up.
LEMMA CallInd ==
  ASSUME IndInv, NEW t \in Threads, NEW g \in Goals, Call(t, g), g.what \in Classes,
         g.what # "pool" => g.owner = {} /\ g.user = {}, \A o, p \in g.owner : o = p,
         g.owner = {} \/ g.user = {}, scoped' \in BOOLEAN
  PROVE  TypeOK' /\ ControlInv' /\ GoalInv' /\ InstanceInv' /\ PointerInv'
<1> USE DEF IndInv
<1>1. /\ at[t] = "idle" /\ at' = [at EXCEPT ![t] = "check"] /\ goal' = [goal EXCEPT ![t] = g]
      /\ UNCHANGED <<heap, instance, mutex, ptr, owners, users, throws, fault>>
      /\ racy' \subseteq racy \cup {g.what}
  BY DEF Call
<1>2. /\ at'[t] = "check" /\ goal'[t] = g
      /\ \A s \in Threads : s # t => at'[s] = at[s] /\ goal'[s] = goal[s]
  BY <1>1 DEF ControlInv
<1>3. TypeOK'
  BY <1>1, <1>2 DEF TypeOK, What, Pointers
<1>4. ControlInv' /\ GoalInv'
  BY <1>1, <1>2 DEF TypeOK, ControlInv, GoalInv, What, Classes
<1>5. InstanceInv' /\ PointerInv'
  BY <1>1, <1>2 DEF InstanceInv, PointerInv, What
<1> QED BY <1>3, <1>4, <1>5

\* DB's or Database's constructor: in a scoped program it comes before anybody
\* has the pool or is about to get it.
LEMMA NewOwnerInd ==
  ASSUME IndInv, NEW t \in Threads, NEW o \in Owners, NewOwner(t, o)
  PROVE  IndInv'
<1> DEFINE g == [what |-> "pool", owner |-> {o}, user |-> {}]
<1>1. g \in Goals /\ g.what = "pool" /\ g.owner = {o} /\ g.user = {}
  BY DEF Goals, Classes
<1>2. /\ scoped' = (scoped /\ ~PoolInUse /\ (\A p \in Owners : owners[p] = 0)
                          /\ instance["pool"] = 0)
      /\ Call(t, g)
  BY DEF NewOwner
<1> HIDE DEF g
<1>3. TypeOK' /\ ControlInv' /\ GoalInv' /\ InstanceInv' /\ PointerInv'
  BY <1>1, <1>2, CallInd DEF Classes
<1>4. /\ at'[t] = "check" /\ goal'[t] = g
      /\ \A s \in Threads : s # t => at'[s] = at[s] /\ goal'[s] = goal[s]
      /\ UNCHANGED <<heap, instance, ptr, owners, users, fault>>
  BY <1>2 DEF Call, IndInv, ControlInv
<1>5. ScopeInv'
  <2> SUFFICES ASSUME scoped' PROVE ScopeInv'
    BY DEF ScopeInv
  <2>1. /\ \A p \in Owners : owners[p] = 0
        /\ \A u \in Users : users[u] = 0
        /\ \A s \in Threads : goal[s].what # "pool"
        /\ instance["pool"] = 0 /\ fault.what # "pool"
    BY <1>2 DEF PoolInUse, What, IndInv, ScopeInv
  <2>2. ~PoolHeld'
    BY <1>1, <1>4, <2>1 DEF PoolHeld, What
  <2> QED BY <1>1, <1>4, <2>1, <2>2 DEF ScopeInv, What
<1> QED BY <1>3, <1>5 DEF IndInv

\* A Migrator, asked for by a live Model, or a look-up of the naming rules.
LEMMA NewUseInd ==
  ASSUME IndInv, NEW t \in Threads, LookUp(t) \/ \E u \in Users : NewMigrator(t, u)
  PROVE  IndInv'
<1>1. PICK g \in Goals :
          /\ Call(t, g) /\ g.owner = {} /\ g.what \in Classes
          /\ g.what = "config" => g.user = {}
          /\ g.what = "pool" => g.user # {} /\ \E v \in Users : users[v] # 0
  <2>1. CASE LookUp(t)
    <3>1. [what |-> "config", owner |-> {}, user |-> {}] \in Goals
      BY DEF Goals, Classes
    <3> QED BY <2>1, <3>1 DEF LookUp, Classes
  <2>2. ASSUME NEW u \in Users, NewMigrator(t, u)
        PROVE  \E g \in Goals :
                  /\ Call(t, g) /\ g.owner = {} /\ g.what \in Classes
                  /\ g.what = "config" => g.user = {}
                  /\ g.what = "pool" => g.user # {} /\ \E v \in Users : users[v] # 0
    <3>1. [what |-> "pool", owner |-> {}, user |-> {u}] \in Goals
      BY DEF Goals, Classes
    <3> QED BY <2>2, <3>1 DEF NewMigrator, Classes
  <2> QED BY <2>1, <2>2
<1>2. scoped' = scoped
  BY DEF LookUp, NewMigrator
<1>3. TypeOK' /\ ControlInv' /\ GoalInv' /\ InstanceInv' /\ PointerInv'
  BY <1>1, <1>2, CallInd DEF IndInv, TypeOK, Classes
<1>4. /\ at'[t] = "check" /\ goal'[t] = g
      /\ \A s \in Threads : s # t => at'[s] = at[s] /\ goal'[s] = goal[s]
      /\ UNCHANGED <<heap, instance, ptr, owners, users, fault>>
  BY <1>1 DEF Call, IndInv, ControlInv
<1>5. ScopeInv'
  <2>1. PoolHeld' => PoolHeld
    BY <1>1, <1>4 DEF PoolHeld, What
  <2> QED BY <1>1, <1>2, <1>4, <2>1 DEF IndInv, ScopeInv, What
<1> QED BY <1>3, <1>5 DEF IndInv

\* The test of instance without the mutex, whose result is the pointer used.
LEMMA CheckInd ==
  ASSUME IndInv, NEW t \in Threads, Check(t)
  PROVE  IndInv'
<1> USE DEF IndInv
<1>0. What(t) \in Classes /\ instance[What(t)] \in Pointers
  BY Typing DEF Check, Pointers
<1>1. /\ at[t] = "check" /\ UNCHANGED <<heap, instance, mutex, goal, owners, users, throws, scoped, racy, fault>>
      /\ ptr' = [ptr EXCEPT ![t] = instance[What(t)]]
  BY DEF Check
<1>2. \A s \in Threads : s # t => at'[s] = at[s] /\ ptr'[s] = ptr[s]
  BY DEF Check, ControlInv, TypeOK
<1>3. \/ at'[t] = "got" /\ ptr'[t] = instance[What(t)] /\ instance[What(t)] # 0
      \/ at'[t] = "lock" /\ ptr'[t] = instance[What(t)] /\ instance[What(t)] = 0
  BY DEF Check, ControlInv, TypeOK
<1>4. at' \in [Threads -> {"idle", "check", "lock", "recheck", "create", "unlock", "got"}]
  BY DEF Check, ControlInv
<1>5. TypeOK'
  <2>1. ptr' \in [Threads -> Pointers']
    BY <1>0, <1>1 DEF Pointers, TypeOK
  <2> QED BY <1>1, <1>2, <1>3, <2>1 DEF TypeOK, What, Pointers
<1>6. ControlInv' /\ GoalInv'
  BY <1>1, <1>2, <1>3, <1>4 DEF ControlInv, GoalInv, What
<1>7. InstanceInv'
  BY <1>1, <1>2 DEF InstanceInv, What
<1>8. PointerInv'
  BY <1>1, <1>2, <1>3 DEF PointerInv, What
<1>9. ScopeInv'
  <2>1. scoped /\ PoolHeld' => PoolHeld
    BY <1>1, <1>2, <1>3 DEF PoolHeld, What, ScopeInv
  <2> QED BY <1>1, <1>2, <1>3, <2>1 DEF ScopeInv, What
<1> QED BY <1>5, <1>6, <1>7, <1>8, <1>9

\* A thread takes the mutex of the class it wants, which nobody held.
LEMMA LockInd ==
  ASSUME IndInv, NEW t \in Threads, Lock(t)
  PROVE  IndInv'
<1> USE DEF IndInv
<1>0. PICK x \in Classes : x = goal[t].what
  BY Typing DEF Lock, What
<1>1. /\ at[t] = "lock" /\ mutex[x] = NoThread /\ mutex' = [mutex EXCEPT ![x] = t]
      /\ UNCHANGED <<heap, instance, goal, ptr, owners, users, throws, scoped, racy, fault>>
  BY <1>0 DEF Lock, What
<1>2. /\ at'[t] = "recheck" /\ \A s \in Threads : s # t => at'[s] = at[s]
      /\ at' \in [Threads -> {"idle", "check", "lock", "recheck", "create", "unlock", "got"}]
  BY DEF Lock, ControlInv
<1>3. TypeOK'
  <2>1. mutex' \in [Classes -> Threads \cup {NoThread}]
    BY <1>1 DEF TypeOK
  <2>2. \A s \in Threads : at[s] \in {"recheck", "create", "unlock"} => goal[s].what \in Classes
    BY Typing DEF What
  <2>3. \A s \in Threads : at'[s] \in {"recheck", "create", "unlock"} => mutex'[goal[s].what] = s
    BY <1>0, <1>1, <1>2, <2>2 DEF TypeOK, What
  <2> QED BY <1>1, <2>1, <2>3 DEF TypeOK, What, Pointers
<1>4. ControlInv' /\ GoalInv'
  <2>1. \A s \in Threads, y \in Classes : mutex'[y] = s =>
           goal[s].what = y /\ at'[s] \in {"recheck", "create", "unlock"}
    BY <1>0, <1>1, <1>2 DEF TypeOK, ControlInv, What
  <2> QED BY <1>1, <1>2, <2>1 DEF ControlInv, GoalInv, What
<1>5. InstanceInv' /\ PointerInv'
  BY <1>1, <1>2 DEF InstanceInv, PointerInv, What
<1>6. ScopeInv'
  <2>1. PoolHeld' => PoolHeld
    BY <1>1, <1>2 DEF PoolHeld, What
  <2> QED BY <1>1, <1>2, <2>1 DEF ScopeInv, What
<1> QED BY <1>3, <1>4, <1>5, <1>6

\* The second test of instance finds an object.
LEMMA RecheckFoundInd ==
  ASSUME IndInv, NEW t \in Threads, Recheck(t), instance[What(t)] # 0
  PROVE  IndInv'
<1> USE DEF IndInv
<1>1. /\ at[t] = "recheck"
      /\ UNCHANGED <<heap, instance, mutex, goal, ptr, owners, users, throws, scoped, racy, fault>>
      /\ at'[t] = "unlock" /\ \A s \in Threads : s # t => at'[s] = at[s]
      /\ at' \in [Threads -> {"idle", "check", "lock", "recheck", "create", "unlock", "got"}]
  BY DEF Recheck, ControlInv
<1>2. TypeOK'
  BY <1>1 DEF TypeOK, What, Pointers
<1>3. ControlInv' /\ GoalInv'
  BY <1>1 DEF ControlInv, GoalInv, What
<1>4. InstanceInv' /\ PointerInv'
  BY <1>1 DEF InstanceInv, PointerInv, What
<1>5. ScopeInv'
  <2>1. PoolHeld' => PoolHeld
    BY <1>1 DEF PoolHeld, What
  <2> QED BY <1>1, <2>1 DEF ScopeInv, What
<1> QED BY <1>2, <1>3, <1>4, <1>5

\* The second test finds none, and new allocates one: no object of the class is
\* left, since instance is null and nobody else is creating one.
LEMMA RecheckNewInd ==
  ASSUME IndInv, NEW t \in Threads, Recheck(t), instance[What(t)] = 0
  PROVE  IndInv'
<1> USE DEF IndInv
<1> DEFINE n == Len(heap) + 1
           new == [what |-> What(t), state |-> "raw"]
<1>0. /\ What(t) \in Classes /\ heap \in Seq(Objects)
      /\ Len(heap) \in Nat /\ DOMAIN heap = 1..Len(heap)
  BY Typing DEF Recheck
<1>1. /\ UNCHANGED <<instance, mutex, goal, owners, users, throws, scoped, racy, fault>>
      /\ at[t] = "recheck" /\ heap' = Append(heap, new) /\ ptr' = [ptr EXCEPT ![t] = n]
  BY DEF Recheck
<1>2. /\ at'[t] = "create" /\ \A s \in Threads : s # t => at'[s] = at[s]
      /\ at' \in [Threads -> {"idle", "check", "lock", "recheck", "create", "unlock", "got"}]
  BY DEF Recheck, ControlInv
<1>3. new \in Objects /\ new.what = What(t) /\ new.state = "raw"
  BY <1>0 DEF Objects, States
<1> HIDE DEF new
<1>4. /\ heap' \in Seq(Objects) /\ Len(heap') = n /\ DOMAIN heap' = 1..n /\ heap'[n] = new
      /\ \A i \in 1..Len(heap) : heap'[i] = heap[i]
      /\ ptr'[t] = n /\ \A s \in Threads : s # t => ptr'[s] = ptr[s]
  BY <1>0, <1>1, <1>3 DEF TypeOK
<1>5. TypeOK'
  <2>1. ptr' \in [Threads -> Pointers']
    BY <1>0, <1>1, <1>4 DEF TypeOK, Pointers
  <2>2. \A i \in DOMAIN heap' : heap'[i] \in Objects
    BY <1>0, <1>3, <1>4
  <2>3. /\ instance' \in [Classes -> Pointers'] /\ owners' \in [Owners -> Pointers']
        /\ users' \in [Users -> Pointers']
    BY <1>0, <1>1, <1>4 DEF TypeOK, Pointers
  <2>4. \A s \in Threads : at'[s] \in {"recheck", "create", "unlock"} => mutex'[goal'[s].what] = s
    BY <1>1, <1>2 DEF TypeOK, What
  <2> QED BY <1>1, <2>1, <2>2, <2>3, <2>4 DEF TypeOK, What, Objects, States
<1>6. ControlInv' /\ GoalInv'
  <2>1. heap' \in Seq([what : Classes, state : {"raw", "ready", "freed"}])
    BY <1>4 DEF Objects, States
  <2> QED BY <1>1, <1>2, <2>1 DEF ControlInv, GoalInv, What
<1>7. InstanceInv'
  <2>0. \A x \in Classes : instance[x] \in 0..Len(heap)
    BY Typing
  <2>1. \A x \in Classes : instance'[x] # 0 =>
           /\ heap'[instance'[x]].what = x
           /\ x = "config" => heap'[instance'[x]].state # "freed"
    BY <1>0, <1>1, <1>4, <2>0 DEF InstanceInv
  <2>2. ASSUME NEW i \in DOMAIN heap', heap'[i].what = "pool" \/ heap'[i].state # "freed"
        PROVE  \/ i = instance'[heap'[i].what]
               \/ \E s \in Threads : at'[s] = "create" /\ ptr'[s] = i /\ goal'[s].what = heap'[i].what
    <3>1. CASE i = n
      BY <1>1, <1>2, <1>3, <1>4, <3>1 DEF What
    <3>2. CASE i # n
      <4>1. i \in DOMAIN heap /\ heap'[i] = heap[i]
        BY <1>0, <1>4, <2>2, <3>2
      <4>2. CASE i = instance[heap[i].what]
        BY <1>1, <4>1, <4>2
      <4>3. ASSUME NEW s \in Threads, at[s] = "create", ptr[s] = i, goal[s].what = heap[i].what
            PROVE  at'[s] = "create" /\ ptr'[s] = i /\ goal'[s].what = heap'[i].what
        BY <1>1, <1>2, <1>4, <4>1, <4>3
      <4> QED BY <2>2, <4>1, <4>2, <4>3 DEF InstanceInv, What
    <3> QED BY <3>1, <3>2
  <2> QED BY <2>1, <2>2 DEF InstanceInv, What
<1>8. PointerInv'
  <2>1. ASSUME NEW s \in Threads
        PROVE  /\ at'[s] = "create" =>
                     /\ ptr'[s] # 0 /\ heap'[ptr'[s]].what = goal'[s].what
                     /\ instance'[goal'[s].what] \in {0, ptr'[s]}
                     /\ goal'[s].what = "config" => heap'[ptr'[s]].state # "freed"
               /\ at'[s] = "unlock" => instance'[goal'[s].what] # 0
               /\ at'[s] = "got" => ptr'[s] = instance'[goal'[s].what] /\ ptr'[s] # 0
    <3>1. CASE s = t
      BY <1>0, <1>1, <1>2, <1>3, <1>4, <3>1 DEF What
    <3>2. CASE s # t
      <4>1. ptr[s] \in 0..Len(heap)
        BY Typing
      <4> QED BY <1>0, <1>1, <1>2, <1>4, <3>2, <4>1 DEF PointerInv, What
    <3> QED BY <3>1, <3>2
  <2> QED BY <1>1, <2>1 DEF PointerInv, What
<1>9. ScopeInv'
  <2>0. instance["pool"] \in 0..Len(heap) /\ \A s \in Threads : ptr[s] \in 0..Len(heap)
    BY Typing DEF Classes
  <2>1. PoolHeld' => PoolHeld
    BY <1>1, <1>2 DEF PoolHeld, What
  <2>2. instance["pool"] # 0 => heap'[instance["pool"]] = heap[instance["pool"]]
    BY <1>0, <1>4, <2>0
  <2>3. ASSUME NEW s \in Threads, scoped, goal[s].what = "pool", goal[s].user = {}
        PROVE  /\ at'[s] \in {"check", "lock", "recheck"} => instance["pool"] = 0
               /\ at'[s] = "create" => heap'[ptr'[s]].state # "freed"
               /\ at'[s] # "unlock"
    <3>1. CASE s = t
      BY <1>2, <1>3, <1>4, <3>1
    <3>2. CASE s # t
      <4>1. at[s] = "create" => heap'[ptr'[s]] = heap[ptr[s]]
        BY <1>0, <1>4, <2>0, <3>2 DEF PointerInv
      <4> QED BY <1>2, <2>3, <3>2, <4>1 DEF ScopeInv, What
    <3> QED BY <3>1, <3>2
  <2> QED BY <1>1, <2>1, <2>2, <2>3 DEF ScopeInv, What
<1> QED BY <1>5, <1>6, <1>7, <1>8, <1>9

\* The constructor has run: nobody's pointer moves.
LEMMA ConstructInd ==
  ASSUME IndInv, NEW t \in Threads, Construct(t)
  PROVE  IndInv'
<1> USE DEF IndInv
<1>0. PICK p \in 1..Len(heap) : p = ptr[t]
  BY Typing DEF Construct
<1>1. /\ at[t] = "create" /\ heap[p].state = "raw" /\ heap' = [heap EXCEPT ![p].state = "ready"]
      /\ UNCHANGED <<instance, mutex, at, goal, ptr, owners, users, throws, scoped, racy, fault>>
  BY <1>0 DEF Construct
<1>2. /\ heap' \in Seq(Objects) /\ Len(heap') = Len(heap) /\ DOMAIN heap' = DOMAIN heap
      /\ heap'[p].state = "ready" /\ DOMAIN heap = 1..Len(heap)
      /\ \A i \in 1..Len(heap) : heap'[i].what = heap[i].what /\ (i # p => heap'[i] = heap[i])
  BY <1>1, Typing, StateChange DEF States
<1>3. TypeOK'
  <2>1. \A i \in DOMAIN heap' : heap'[i] \in Objects
    BY <1>2
  <2> QED BY <1>1, <1>2, <2>1 DEF TypeOK, What, Pointers, Objects, States
<1>4. ControlInv' /\ GoalInv'
  BY <1>1, <1>2 DEF ControlInv, GoalInv, What, Objects, States
<1>5. InstanceInv'
  <2>1. \A x \in Classes : instance[x] \in 0..Len(heap)
    BY Typing
  <2> QED BY <1>1, <1>2, <2>1 DEF InstanceInv, What
<1>6. PointerInv'
  <2>1. \A s \in Threads : at[s] = "create" => ptr[s] \in 1..Len(heap)
    BY Typing
  <2> QED BY <1>1, <1>2, <2>1 DEF PointerInv, What
<1>7. ScopeInv'
  <2>1. PoolHeld' <=> PoolHeld
    BY <1>1 DEF PoolHeld, What
  <2>2. instance["pool"] \in 0..Len(heap)
    BY Typing DEF Classes
  <2>3. \A s \in Threads : at[s] = "create" => ptr[s] \in 1..Len(heap)
    BY Typing
  <2> QED BY <1>1, <1>2, <2>1, <2>2, <2>3 DEF ScopeInv, What
<1> QED BY <1>3, <1>4, <1>5, <1>6, <1>7

\* The constructor of Config throws: the object it was given is gone, the mutex
\* is free, and instance is still null.
LEMMA ThrowInd ==
  ASSUME IndInv, NEW t \in Threads, Throw(t)
  PROVE  IndInv'
<1> USE DEF IndInv
<1>0. PICK p \in 1..Len(heap) : p = ptr[t]
  BY Typing DEF Throw
<1>1. /\ at[t] = "create" /\ goal[t].what = "config" /\ heap[p].state = "raw"
      /\ heap' = [heap EXCEPT ![p].state = "freed"] /\ instance["config"] = 0
      /\ mutex' = [mutex EXCEPT !["config"] = NoThread] /\ throws' = throws + 1
      /\ UNCHANGED <<instance, owners, users, scoped, racy, fault>>
  BY <1>0 DEF Throw, What
<1>2. /\ heap' \in Seq(Objects) /\ Len(heap') = Len(heap) /\ DOMAIN heap' = DOMAIN heap
      /\ heap'[p].state = "freed" /\ DOMAIN heap = 1..Len(heap)
      /\ \A i \in 1..Len(heap) : heap'[i].what = heap[i].what /\ (i # p => heap'[i] = heap[i])
  BY <1>1, Typing, StateChange DEF States
<1>3. /\ at'[t] = "idle" /\ goal'[t] = Idle /\ ptr'[t] = 0
      /\ \A s \in Threads : s # t => at'[s] = at[s] /\ goal'[s] = goal[s] /\ ptr'[s] = ptr[s]
      /\ at' \in [Threads -> {"idle", "check", "lock", "recheck", "create", "unlock", "got"}]
      /\ goal' \in [Threads -> Goals] /\ ptr' \in [Threads -> Pointers]
  <2>1. Idle \in Goals /\ 0 \in Pointers
    BY Typing DEF Idle, Goals, Pointers
  <2> QED BY <2>1 DEF Throw, TypeOK, ControlInv
<1>4. goal'[t].what = "none" /\ goal'[t].owner = {} /\ goal'[t].user = {}
  BY <1>3 DEF Idle
<1>5. heap[p].what = "config"
  BY <1>0, <1>1 DEF PointerInv, What
<1>6. \A s \in Threads \ {t} : at[s] \in {"recheck", "create", "unlock"} =>
         goal[s].what \in Classes \ {"config"}
  BY <1>1, Typing DEF TypeOK, What
<1>7. TypeOK'
  <2>1. \A i \in DOMAIN heap' : heap'[i] \in Objects
    BY <1>2
  <2>2. mutex' \in [Classes -> Threads \cup {NoThread}]
    BY <1>1 DEF TypeOK
  <2>3. \A s \in Threads : at'[s] \in {"recheck", "create", "unlock"} => mutex'[goal'[s].what] = s
    BY <1>1, <1>3, <1>6 DEF TypeOK, What
  <2>4. ptr' \in [Threads -> Pointers']
    BY <1>2, <1>3 DEF Pointers
  <2> QED BY <1>1, <1>2, <2>1, <2>2, <2>3, <2>4 DEF TypeOK, What, Pointers, Objects, States
<1>8. ControlInv' /\ GoalInv'
  <2>1. \A s \in Threads, x \in Classes : mutex'[x] = s =>
           s # t /\ goal[s].what = x /\ at[s] \in {"recheck", "create", "unlock"}
    BY <1>1 DEF TypeOK, ControlInv, What, Classes
  <2>2. heap' \in Seq([what : Classes, state : {"raw", "ready", "freed"}]) /\ throws' \in Nat
    BY <1>1, <1>2 DEF Objects, States, ControlInv
  <2>3. ControlInv'
    BY <1>3, <1>4, <2>1, <2>2 DEF ControlInv, What
  <2>4. GoalInv'
    BY <1>3, <1>4 DEF GoalInv, What
  <2> QED BY <2>3, <2>4
<1>9. InstanceInv'
  <2>1. \A x \in Classes : instance[x] \in 0..Len(heap)
    BY Typing
  <2>2. \A x \in Classes : instance[x] # p
    BY <1>0, <1>1, <1>5 DEF InstanceInv
  <2>3. ASSUME NEW i \in DOMAIN heap', heap'[i].what = "pool" \/ heap'[i].state # "freed"
        PROVE  \/ i = instance'[heap'[i].what]
               \/ \E s \in Threads : at'[s] = "create" /\ ptr'[s] = i /\ goal'[s].what = heap'[i].what
    <3>1. i # p /\ i \in DOMAIN heap /\ heap'[i] = heap[i]
      BY <1>2, <1>5, <2>3
    <3>2. \/ i = instance[heap[i].what]
          \/ \E s \in Threads : at[s] = "create" /\ ptr[s] = i /\ goal[s].what = heap[i].what
      BY <2>3, <3>1 DEF InstanceInv, What
    <3> QED BY <1>0, <1>1, <1>3, <3>1, <3>2
  <2>4. \A x \in Classes : instance'[x] # 0 =>
           /\ heap'[instance'[x]].what = x
           /\ x = "config" => heap'[instance'[x]].state # "freed"
    BY <1>1, <1>2, <2>1, <2>2 DEF InstanceInv
  <2> QED BY <2>3, <2>4 DEF InstanceInv, What
<1>10. \A s \in Threads \ {t} : at[s] = "create" => heap'[ptr[s]] = heap[ptr[s]]
  <2>1. \A s \in Threads \ {t} : at[s] = "create" => ptr[s] # p /\ ptr[s] \in 1..Len(heap)
    BY <1>5, <1>6, Typing DEF PointerInv, What
  <2> QED BY <1>2, <2>1
<1>11. PointerInv'
  <2>1. ASSUME NEW s \in Threads
        PROVE  /\ at'[s] = "create" =>
                     /\ ptr'[s] # 0 /\ heap'[ptr'[s]].what = goal'[s].what
                     /\ instance'[goal'[s].what] \in {0, ptr'[s]}
                     /\ goal'[s].what = "config" => heap'[ptr'[s]].state # "freed"
               /\ at'[s] = "unlock" => instance'[goal'[s].what] # 0
               /\ at'[s] = "got" => ptr'[s] = instance'[goal'[s].what] /\ ptr'[s] # 0
    <3>1. CASE s = t
      BY <1>3, <3>1
    <3>2. CASE s # t
      <4>1. at'[s] = at[s] /\ goal'[s] = goal[s] /\ ptr'[s] = ptr[s] /\ instance' = instance
        BY <1>1, <1>3, <3>2
      <4>2. at[s] = "create" => heap'[ptr[s]] = heap[ptr[s]]
        BY <1>10, <3>2
      <4> QED BY <4>1, <4>2 DEF PointerInv, What
    <3> QED BY <3>1, <3>2
  <2> QED BY <1>1, <2>1 DEF PointerInv, What
<1>12. ScopeInv'
  <2>1. PoolHeld' => PoolHeld
    BY <1>1, <1>3, <1>4 DEF PoolHeld, What
  <2>2. instance["pool"] # 0 => heap'[instance["pool"]] = heap[instance["pool"]]
    <3>1. instance["pool"] \in 0..Len(heap) /\ instance["pool"] # p
      BY <1>0, <1>5, Typing DEF InstanceInv, Classes
    <3> QED BY <1>2, <3>1
  <2>3. \A s \in Threads : goal'[s].what = "pool" =>
           /\ at'[s] = at[s] /\ goal'[s] = goal[s] /\ ptr'[s] = ptr[s]
           /\ at[s] = "create" => heap'[ptr[s]] = heap[ptr[s]]
    BY <1>3, <1>4, <1>10
  <2> SUFFICES ASSUME scoped PROVE ScopeInv'
    BY <1>1 DEF ScopeInv
  <2>4. PoolHeld' => instance'["pool"] # 0 /\ heap'[instance'["pool"]].state = "ready"
    BY <1>1, <2>1, <2>2 DEF ScopeInv
  <2>5. ASSUME NEW s \in Threads, goal'[s].what = "pool", goal'[s].user = {}
        PROVE  /\ \A o \in Owners : owners[o] = 0
               /\ \A u \in Users : users[u] = 0
               /\ \A r \in Threads : goal'[r].what = "pool" => r = s
               /\ at'[s] \in {"check", "lock", "recheck"} => instance["pool"] = 0
               /\ at'[s] = "create" => heap'[ptr'[s]].state # "freed"
               /\ at'[s] # "unlock"
    <3>1. goal[s].what = "pool" /\ goal[s].user = {}
      BY <2>3, <2>5
    <3>2. \A r \in Threads : goal'[r].what = "pool" => r = s
      BY <2>3, <3>1 DEF ScopeInv, What
    <3> QED BY <2>3, <2>5, <3>1, <3>2 DEF ScopeInv, What
  <2> QED BY <1>1, <2>4, <2>5 DEF ScopeInv, What
<1> QED BY <1>7, <1>8, <1>9, <1>11, <1>12

\* The pointer becomes visible: instance was null until now, so nobody else has
\* a pointer to an object of the class.
LEMMA PublishInd ==
  ASSUME IndInv, NEW t \in Threads, Publish(t)
  PROVE  IndInv'
<1> USE DEF IndInv
<1>0. PICK x \in Classes : x = goal[t].what
  BY Typing DEF Publish, What
<1>1. /\ at[t] = "create" /\ instance[x] = 0 /\ instance' = [instance EXCEPT ![x] = ptr[t]]
      /\ x = "config" => heap[ptr[t]].state # "freed"
      /\ UNCHANGED <<heap, mutex, at, goal, ptr, owners, users, throws, scoped, racy, fault>>
  BY <1>0 DEF Publish, PointerInv, What
<1>2. ptr[t] \in 1..Len(heap) /\ heap[ptr[t]].what = x
  BY <1>0, <1>1, Typing DEF PointerInv, What
<1>3. instance'[x] = ptr[t] /\ \A y \in Classes : y # x => instance'[y] = instance[y]
  BY <1>1 DEF TypeOK
<1>4. \A s \in Threads \ {t} : at[s] = "create" => goal[s].what # x /\ goal[s].what \in Classes
  BY <1>0, <1>1, Typing DEF TypeOK, What
<1>5. TypeOK'
  <2>1. instance' \in [Classes -> Pointers]
    BY <1>1, <1>2 DEF TypeOK, Pointers
  <2> QED BY <1>1, <2>1 DEF TypeOK, What, Pointers
<1>6. ControlInv' /\ GoalInv'
  BY <1>1 DEF ControlInv, GoalInv, What
<1>7. InstanceInv'
  <2>1. \A y \in Classes : instance'[y] # 0 =>
           /\ heap[instance'[y]].what = y
           /\ y = "config" => heap[instance'[y]].state # "freed"
    BY <1>1, <1>2, <1>3 DEF InstanceInv
  <2>2. ASSUME NEW i \in DOMAIN heap, heap[i].what = "pool" \/ heap[i].state # "freed"
        PROVE  \/ i = instance'[heap[i].what]
               \/ \E s \in Threads : at[s] = "create" /\ ptr[s] = i /\ goal[s].what = heap[i].what
    <3>0. heap[i] \in Objects /\ i # 0
      BY Typing
    <3>1. heap[i].what \in Classes /\ i # 0
      BY <3>0 DEF Objects
    <3>2. i = instance[heap[i].what] => i = instance'[heap[i].what]
      BY <1>1, <1>3, <3>1
    <3> QED BY <2>2, <3>2 DEF InstanceInv, What
  <2> QED BY <1>1, <2>1, <2>2 DEF InstanceInv, What
<1>8. PointerInv'
  <2>1. ASSUME NEW s \in Threads
        PROVE  /\ at[s] = "create" => instance'[goal[s].what] \in {0, ptr[s]}
               /\ at[s] = "unlock" => instance'[goal[s].what] # 0
               /\ at[s] = "got" => ptr[s] = instance'[goal[s].what]
    <3>1. CASE s = t
      BY <1>0, <1>1, <1>3, <3>1
    <3>2. CASE s # t /\ at[s] = "create"
      BY <1>3, <1>4, <3>2 DEF PointerInv, What
    <3>3. CASE s # t /\ at[s] \in {"unlock", "got"}
      <4>1. goal[s].what \in Classes /\ goal[s].what # x
        BY <1>1, <3>3, Typing DEF PointerInv, What
      <4> QED BY <1>3, <3>3, <4>1 DEF PointerInv, What
    <3> QED BY <3>1, <3>2, <3>3
  <2>2. /\ \A o \in Owners : owners[o] \in {0, instance'["pool"]}
        /\ \A u \in Users : users[u] \in {0, instance'["pool"]}
    BY <1>1, <1>3 DEF PointerInv, Classes
  <2> QED BY <1>1, <2>1, <2>2 DEF PointerInv, What
<1>9. ScopeInv'
  <2>1. PoolHeld' <=> PoolHeld
    BY <1>1 DEF PoolHeld, What
  <2>2. scoped /\ PoolHeld => instance'["pool"] = instance["pool"]
    BY <1>1, <1>3 DEF ScopeInv, Classes
  <2>3. ASSUME NEW s \in Threads, scoped, goal[s].what = "pool", goal[s].user = {},
               at[s] \in {"check", "lock", "recheck"}
        PROVE  instance'["pool"] = 0
    <3>1. x # "pool"
      BY <1>0, <1>1, <2>3 DEF ScopeInv, What
    <3> QED BY <1>3, <2>3, <3>1 DEF ScopeInv, What, Classes
  <2> QED BY <1>1, <2>1, <2>2, <2>3 DEF ScopeInv, What
<1> QED BY <1>5, <1>6, <1>7, <1>8, <1>9

\* The mutex is given up and instance, set by now, returned.
LEMMA UnlockInd ==
  ASSUME IndInv, NEW t \in Threads, Unlock(t)
  PROVE  IndInv'
<1> USE DEF IndInv
<1>0. PICK x \in Classes : x = goal[t].what
  BY Typing DEF Unlock, What
<1>1. /\ \/ at[t] = "unlock"
         \/ at[t] = "create" /\ heap[ptr[t]].state # "raw" /\ instance[x] = ptr[t]
      /\ mutex' = [mutex EXCEPT ![x] = NoThread] /\ ptr' = [ptr EXCEPT ![t] = instance[x]]
      /\ UNCHANGED <<heap, instance, goal, owners, users, throws, scoped, racy, fault>>
  BY <1>0 DEF Unlock, What
<1>2. /\ at'[t] = "got" /\ ptr'[t] = instance[x]
      /\ \A s \in Threads : s # t => at'[s] = at[s] /\ ptr'[s] = ptr[s]
      /\ at' \in [Threads -> {"idle", "check", "lock", "recheck", "create", "unlock", "got"}]
  BY <1>1 DEF Unlock, ControlInv, TypeOK
<1>3. instance[x] # 0
  BY <1>0, <1>1 DEF PointerInv, What
<1>4. TypeOK'
  <2>1. mutex' \in [Classes -> Threads \cup {NoThread}] /\ ptr' \in [Threads -> Pointers]
    BY <1>1 DEF TypeOK
  <2>2. \A s \in Threads \ {t} : at[s] \in {"recheck", "create", "unlock"} =>
           goal[s].what \in Classes \ {x}
    BY <1>0, <1>1, Typing DEF TypeOK, What
  <2>3. \A s \in Threads : at'[s] \in {"recheck", "create", "unlock"} => mutex'[goal[s].what] = s
    BY <1>1, <1>2, <2>2 DEF TypeOK, What
  <2> QED BY <1>1, <2>1, <2>3 DEF TypeOK, What, Pointers
<1>5. ControlInv' /\ GoalInv'
  <2>1. \A s \in Threads, y \in Classes : mutex'[y] = s =>
           s # t /\ goal[s].what = y /\ at[s] \in {"recheck", "create", "unlock"}
    BY <1>0, <1>1 DEF TypeOK, ControlInv, What
  <2> QED BY <1>1, <1>2, <2>1 DEF ControlInv, GoalInv, What
<1>6. InstanceInv'
  <2>1. ASSUME NEW i \in DOMAIN heap, heap[i].what = "pool" \/ heap[i].state # "freed"
        PROVE  \/ i = instance[heap[i].what]
               \/ \E s \in Threads : at'[s] = "create" /\ ptr'[s] = i /\ goal[s].what = heap[i].what
    <3>1. ASSUME NEW s \in Threads, at[s] = "create", ptr[s] = i, goal[s].what = heap[i].what
          PROVE  \/ i = instance[heap[i].what]
                 \/ at'[s] = "create" /\ ptr'[s] = i /\ goal[s].what = heap[i].what
      BY <1>0, <1>1, <1>2, <3>1
    <3> QED BY <2>1, <3>1 DEF InstanceInv, What
  <2> QED BY <1>1, <2>1 DEF InstanceInv, What
<1>7. PointerInv'
  BY <1>0, <1>1, <1>2, <1>3 DEF PointerInv, What
<1>8. ScopeInv'
  <2>1. ASSUME scoped, PoolHeld'
        PROVE  instance["pool"] # 0 /\ heap[instance["pool"]].state = "ready"
    <3>1. CASE PoolHeld
      BY <2>1, <3>1 DEF ScopeInv
    <3>2. CASE ~PoolHeld
      <4>1. goal[t].what = "pool" /\ goal[t].user = {}
        BY <1>1, <1>2, <2>1, <3>2 DEF PoolHeld, What
      <4>2. at[t] = "create" /\ heap[ptr[t]].state \notin {"raw", "freed"} /\ instance["pool"] = ptr[t]
        BY <1>0, <1>1, <2>1, <4>1 DEF ScopeInv, What
      <4>3. heap[ptr[t]] \in Objects
        BY <4>2, Typing
      <4> QED BY <1>0, <1>3, <4>1, <4>2, <4>3 DEF Objects, States
    <3> QED BY <3>1, <3>2
  <2> QED BY <1>1, <1>2, <2>1 DEF ScopeInv, What
<1> QED BY <1>4, <1>5, <1>6, <1>7, <1>8

\* The caller uses the object.  In a scoped program a thread that is given a
\* pool is given a complete one.
LEMMA GotInd ==
  ASSUME IndInv, NEW t \in Threads, Got(t)
  PROVE  IndInv'
<1> USE DEF IndInv
<1>0. PICK x \in Classes : x = goal[t].what
  BY Typing DEF Got, What
<1>1. /\ at[t] = "got" /\ fault' = IF heap[ptr[t]].state = "ready" THEN fault ELSE heap[ptr[t]]
      /\ owners' = [o \in Owners |-> IF o \in goal[t].owner THEN ptr[t] ELSE owners[o]]
      /\ users' = [u \in Users |-> IF u \in goal[t].user THEN ptr[t] ELSE users[u]]
      /\ UNCHANGED <<heap, instance, mutex, throws, scoped, racy>>
  BY DEF Got, Use
<1>2. /\ at'[t] = "idle" /\ goal'[t] = Idle /\ ptr'[t] = 0
      /\ \A s \in Threads : s # t => at'[s] = at[s] /\ goal'[s] = goal[s] /\ ptr'[s] = ptr[s]
      /\ at' \in [Threads -> {"idle", "check", "lock", "recheck", "create", "unlock", "got"}]
      /\ goal' \in [Threads -> Goals] /\ ptr' \in [Threads -> Pointers]
  <2>1. Idle \in Goals /\ 0 \in Pointers
    BY Typing DEF Idle, Goals, Pointers
  <2> QED BY <2>1 DEF Got, TypeOK, ControlInv
<1>3. goal'[t].what = "none" /\ goal'[t].owner = {} /\ goal'[t].user = {}
  BY <1>2 DEF Idle
<1>4. ptr[t] = instance[x] /\ ptr[t] # 0 /\ heap[ptr[t]] \in Objects
  <2>1. ptr[t] = instance[x] /\ ptr[t] # 0
    BY <1>0, <1>1 DEF PointerInv, What
  <2>2. heap[ptr[t]] \in Objects
    BY <1>1, Typing
  <2> QED BY <2>1, <2>2
<1>5. heap[ptr[t]].what = x
  BY <1>4 DEF InstanceInv
<1>6. TypeOK'
  <2>1. owners' \in [Owners -> Pointers] /\ users' \in [Users -> Pointers]
    BY <1>1 DEF TypeOK
  <2>2. fault' \in Faults
    <3>1. heap[ptr[t]].state # "ready" => heap[ptr[t]] \in [what : Classes, state : {"raw", "freed"}]
      BY <1>4 DEF Objects, States
    <3> QED BY <1>1, <3>1 DEF TypeOK, Faults
  <2>3. \A s \in Threads : at'[s] \in {"recheck", "create", "unlock"} => mutex[goal'[s].what] = s
    BY <1>1, <1>2 DEF TypeOK, What
  <2> QED BY <1>1, <1>2, <2>1, <2>2, <2>3 DEF TypeOK, What, Pointers, Faults
<1>7. ControlInv' /\ GoalInv'
  <2>1. \A s \in Threads, y \in Classes : mutex[y] = s =>
           s # t /\ goal[s].what = y /\ at[s] \in {"recheck", "create", "unlock"}
    BY <1>1 DEF ControlInv, What
  <2>2. ControlInv'
    BY <1>1, <1>2, <1>3, <2>1 DEF ControlInv, What
  <2>3. GoalInv'
    BY <1>2, <1>3 DEF GoalInv, What
  <2> QED BY <2>2, <2>3
<1>8. InstanceInv'
  <2>1. ASSUME NEW i \in DOMAIN heap, heap[i].what = "pool" \/ heap[i].state # "freed"
        PROVE  \/ i = instance[heap[i].what]
               \/ \E s \in Threads : at'[s] = "create" /\ ptr'[s] = i /\ goal'[s].what = heap[i].what
    <3>1. \/ i = instance[heap[i].what]
          \/ \E s \in Threads : at[s] = "create" /\ ptr[s] = i /\ goal[s].what = heap[i].what
      BY <2>1 DEF InstanceInv, What
    <3> QED BY <1>1, <1>2, <3>1
  <2>2. \A y \in Classes : instance[y] # 0 =>
           heap[instance[y]].what = y /\ (y = "config" => heap[instance[y]].state # "freed")
    BY DEF InstanceInv
  <2> QED BY <1>1, <2>1, <2>2 DEF InstanceInv, What
<1>9. /\ \A o \in Owners : owners'[o] = owners[o]
              \/ (x = "pool" /\ o \in goal[t].owner /\ owners'[o] = ptr[t])
      /\ \A u \in Users : users'[u] = users[u]
              \/ (x = "pool" /\ u \in goal[t].user /\ users'[u] = ptr[t])
  BY <1>0, <1>1 DEF GoalInv, What, Classes
<1>10. PointerInv'
  <2>1. \A o \in Owners : owners'[o] \in {0, instance["pool"]}
    BY <1>4, <1>9 DEF PointerInv
  <2>2. \A u \in Users : users'[u] \in {0, instance["pool"]}
    BY <1>4, <1>9 DEF PointerInv
  <2>3. ASSUME NEW s \in Threads
        PROVE  /\ at'[s] = "create" =>
                     /\ ptr'[s] # 0 /\ heap[ptr'[s]].what = goal'[s].what
                     /\ instance[goal'[s].what] \in {0, ptr'[s]}
                     /\ goal'[s].what = "config" => heap[ptr'[s]].state # "freed"
               /\ at'[s] = "unlock" => instance[goal'[s].what] # 0
               /\ at'[s] = "got" => ptr'[s] = instance[goal'[s].what] /\ ptr'[s] # 0
    BY <1>2 DEF PointerInv, What
  <2> QED BY <1>1, <2>1, <2>2, <2>3 DEF PointerInv, What
<1>11. ScopeInv'
  <2> SUFFICES ASSUME scoped PROVE ScopeInv'
    BY <1>1 DEF ScopeInv
  <2>1. x = "pool" => PoolHeld
    BY <1>0, <1>1 DEF PoolHeld, What
  <2>2. x = "pool" => heap[ptr[t]].state = "ready"
    BY <1>4, <2>1 DEF ScopeInv
  <2>3. fault'.what # "pool"
    BY <1>1, <1>5, <2>2 DEF ScopeInv, Classes
  <2>4. PoolHeld' => PoolHeld
    <3>1. x = "config" /\ PoolHeld' => PoolHeld
      BY <1>1, <1>2, <1>3, <1>9 DEF PoolHeld, What
    <3> QED BY <2>1, <3>1 DEF Classes
  <2>5. PoolHeld' => instance["pool"] # 0 /\ heap[instance["pool"]].state = "ready"
    BY <2>4 DEF ScopeInv
  <2>6. ASSUME NEW o \in Owners, NEW p \in Owners, owners'[o] # 0, owners'[p] # 0
        PROVE  o = p
    <3>1. CASE \E b \in Owners : owners'[b] # owners[b]
      <4>1. x = "pool" /\ goal[t].owner # {} /\ goal[t].user = {}
        BY <1>9, <3>1 DEF GoalInv
      <4>2. \A b \in Owners : owners[b] = 0
        BY <1>0, <4>1 DEF ScopeInv, What
      <4>3. o \in goal[t].owner /\ p \in goal[t].owner
        BY <1>9, <2>6, <4>2
      <4> QED BY <4>3 DEF GoalInv
    <3>2. CASE \A b \in Owners : owners'[b] = owners[b]
      BY <2>6, <3>2 DEF ScopeInv
    <3> QED BY <3>1, <3>2
  <2>7. ASSUME NEW s \in Threads, goal'[s].what = "pool", goal'[s].user = {}
        PROVE  /\ \A o \in Owners : owners'[o] = 0
               /\ \A u \in Users : users'[u] = 0
               /\ \A r \in Threads : goal'[r].what = "pool" => r = s
               /\ at'[s] \in {"check", "lock", "recheck"} => instance["pool"] = 0
               /\ at'[s] = "create" => heap[ptr'[s]].state # "freed"
               /\ at'[s] # "unlock"
    <3>1. s # t /\ at'[s] = at[s] /\ goal'[s] = goal[s] /\ ptr'[s] = ptr[s]
      BY <1>2, <1>3, <2>7
    <3>2. goal[s].what = "pool" /\ goal[s].user = {}
      BY <2>7, <3>1
    <3>3. x # "pool"
      BY <1>0, <3>1, <3>2 DEF ScopeInv, What
    <3>4. /\ \A o \in Owners : owners'[o] = 0
          /\ \A u \in Users : users'[u] = 0
      BY <1>9, <3>2, <3>3 DEF ScopeInv, What
    <3>5. \A r \in Threads : goal'[r].what = "pool" => r = s
      <4>1. \A r \in Threads : goal'[r].what = "pool" => goal[r].what = "pool"
        BY <1>2, <1>3
      <4> QED BY <3>2, <4>1 DEF ScopeInv, What
    <3> QED BY <3>1, <3>2, <3>4, <3>5 DEF ScopeInv, What
  <2> QED BY <1>1, <2>3, <2>5, <2>6, <2>7 DEF ScopeInv, What
<1> QED BY <1>6, <1>7, <1>8, <1>10, <1>11

\* A pool that somebody has is used without fault in a scoped program.
LEMMA UseOfPool ==
  ASSUME IndInv, NEW p, p # 0, p = instance["pool"], Use(p)
  PROVE  /\ p \in 1..Len(heap)
         /\ fault' \in Faults
         /\ scoped /\ PoolHeld => fault'.what # "pool"
<1>1. p \in 1..Len(heap)
  BY Typing DEF Classes
<1>2. heap[p] \in Objects
  BY <1>1, Typing
<1>3. heap[p].state # "ready" => heap[p] \in [what : Classes, state : {"raw", "freed"}]
  BY <1>2 DEF Objects, States
<1>4. fault' \in Faults
  BY <1>3 DEF Use, IndInv, TypeOK, Faults
<1> QED BY <1>1, <1>4 DEF Use, IndInv, ScopeInv

\* DB::model, getConn: a user copies the pointer of a live owner.  ~Model,
\* ~Migrator, SqlConn::close: a user gives it up.
LEMMA UserInd ==
  ASSUME IndInv, NEW u \in Users, GiveBack(u) \/ \E o \in Owners : Borrow(o, u)
  PROVE  IndInv'
<1> USE DEF IndInv
<1>1. /\ PoolHeld /\ scoped' = scoped
      /\ UNCHANGED <<heap, instance, mutex, at, goal, ptr, owners, throws, racy>>
      /\ fault' \in Faults /\ (scoped => fault'.what # "pool")
  <2>1. CASE GiveBack(u)
    <3>1. users[u] # 0 /\ users[u] = instance["pool"] /\ Use(users[u])
      BY <2>1 DEF GiveBack, PointerInv
    <3>2. PoolHeld
      BY <3>1 DEF PoolHeld
    <3> QED BY <2>1, <3>1, <3>2, UseOfPool DEF GiveBack
  <2>2. ASSUME NEW o \in Owners, Borrow(o, u)
        PROVE  /\ PoolHeld /\ scoped' = scoped
               /\ UNCHANGED <<heap, instance, mutex, at, goal, ptr, owners, throws, racy>>
               /\ fault' \in Faults /\ (scoped => fault'.what # "pool")
    <3>1. owners[o] # 0 /\ owners[o] = instance["pool"] /\ Use(owners[o])
      BY <2>2 DEF Borrow, PointerInv
    <3>2. PoolHeld
      BY <3>1 DEF PoolHeld
    <3> QED BY <2>2, <3>1, <3>2, UseOfPool DEF Borrow
  <2> QED BY <2>1, <2>2
<1>2. PICK p \in {0, instance["pool"]} : users' = [users EXCEPT ![u] = p]
  BY DEF GiveBack, Borrow, PointerInv
<1>3. p \in Pointers
  BY Typing DEF Pointers, Classes
<1>4. scoped => p = 0 \/ \E o \in Owners : owners[o] # 0
  BY <1>2 DEF GiveBack, Borrow, TypeOK
<1>5. TypeOK'
  BY <1>1, <1>2, <1>3 DEF TypeOK, What, Pointers, Faults
<1>6. ControlInv' /\ GoalInv' /\ InstanceInv'
  BY <1>1 DEF ControlInv, GoalInv, InstanceInv, What
<1>7. PointerInv'
  BY <1>1, <1>2 DEF TypeOK, PointerInv, What
<1>8. ScopeInv'
  <2>1. \A v \in Users : users'[v] = IF v = u THEN p ELSE users[v]
    BY <1>2 DEF TypeOK
  <2> QED BY <1>1, <1>4, <2>1 DEF ScopeInv, What
<1> QED BY <1>5, <1>6, <1>7, <1>8

\* DB's copy: two owners from now on.
LEMMA CopyInd ==
  ASSUME IndInv, NEW o \in Owners, NEW p \in Owners, Copy(o, p)
  PROVE  IndInv'
<1> USE DEF IndInv
<1>1. /\ scoped' = FALSE /\ owners' = [owners EXCEPT ![p] = owners[o]]
      /\ UNCHANGED <<heap, instance, mutex, at, goal, ptr, users, throws, racy, fault>>
  BY DEF Copy
<1>2. TypeOK'
  BY <1>1 DEF TypeOK, What, Pointers
<1>3. ControlInv' /\ GoalInv' /\ InstanceInv'
  BY <1>1 DEF ControlInv, GoalInv, InstanceInv, What
<1>4. PointerInv'
  BY <1>1 DEF TypeOK, PointerInv, What
<1> QED BY <1>1, <1>2, <1>3, <1>4 DEF ScopeInv

\* ~DB, ~Database: the pool is deleted; a scoped program has no user of it left,
\* and instance dangles.
LEMMA DestroyOwnerInd ==
  ASSUME IndInv, NEW o \in Owners, DestroyOwner(o)
  PROVE  IndInv'
<1> USE DEF IndInv
<1>0. PICK p \in 1..Len(heap) : p = owners[o] /\ p = instance["pool"] /\ p # 0
  BY UseOfPool DEF DestroyOwner, PointerInv
<1>1. /\ Use(p) /\ heap' = [heap EXCEPT ![p].state = "freed"] /\ owners' = [owners EXCEPT ![o] = 0]
      /\ scoped' = (scoped /\ ~PoolInUse)
      /\ UNCHANGED <<instance, mutex, at, goal, ptr, users, throws, racy>>
  BY <1>0 DEF DestroyOwner
<1>2. /\ heap' \in Seq(Objects) /\ Len(heap') = Len(heap) /\ DOMAIN heap' = DOMAIN heap
      /\ heap'[p].state = "freed" /\ DOMAIN heap = 1..Len(heap)
      /\ \A i \in 1..Len(heap) : heap'[i].what = heap[i].what /\ (i # p => heap'[i] = heap[i])
  BY <1>1, Typing, StateChange DEF States
<1>3. fault' \in Faults /\ (scoped => fault'.what # "pool")
  <2>1. PoolHeld
    BY <1>0 DEF PoolHeld
  <2> QED BY <1>0, <1>1, <2>1, UseOfPool
<1>4. heap[p].what = "pool"
  BY <1>0 DEF InstanceInv, Classes
<1>5. TypeOK'
  <2>1. \A i \in DOMAIN heap' : heap'[i] \in Objects
    BY <1>2
  <2>2. owners' \in [Owners -> Pointers]
    BY <1>1, Typing DEF TypeOK, Pointers
  <2>3. scoped' \in BOOLEAN
    BY <1>1
  <2> QED BY <1>1, <1>2, <1>3, <2>1, <2>2, <2>3 DEF TypeOK, What, Pointers, Objects, States, Faults
<1>6. ControlInv' /\ GoalInv'
  BY <1>1, <1>2 DEF ControlInv, GoalInv, What, Objects, States
<1>7. InstanceInv'
  <2>1. \A x \in Classes : instance[x] \in 0..Len(heap)
    BY Typing
  <2>2. \A x \in Classes : instance[x] # 0 =>
           /\ heap'[instance[x]].what = x
           /\ x = "config" => heap'[instance[x]].state # "freed"
    BY <1>2, <1>4, <2>1 DEF InstanceInv
  <2>3. ASSUME NEW i \in DOMAIN heap, heap'[i].what = "pool" \/ heap'[i].state # "freed"
        PROVE  \/ i = instance[heap'[i].what]
               \/ \E s \in Threads : at[s] = "create" /\ ptr[s] = i /\ goal[s].what = heap'[i].what
    BY <1>2, <1>4, <2>3 DEF InstanceInv, What
  <2> QED BY <1>1, <1>2, <2>2, <2>3 DEF InstanceInv, What
<1>8. PointerInv'
  <2>1. \A b \in Owners : owners'[b] \in {0, instance["pool"]}
    BY <1>1 DEF TypeOK, PointerInv
  <2>2. ASSUME NEW s \in Threads, at[s] = "create"
        PROVE  /\ heap'[ptr[s]].what = goal[s].what
               /\ goal[s].what = "config" => heap'[ptr[s]].state # "freed"
    <3>1. ptr[s] \in 1..Len(heap) /\ heap[ptr[s]].what = goal[s].what
      BY <2>2, Typing DEF PointerInv, What
    <3> QED BY <1>2, <1>4, <2>2, <3>1 DEF PointerInv, What
  <2> QED BY <1>1, <2>1, <2>2 DEF PointerInv, What
<1>9. ScopeInv'
  <2> SUFFICES ASSUME scoped' PROVE ScopeInv'
    BY DEF ScopeInv
  <2>1. scoped /\ (\A u \in Users : users[u] = 0) /\ \A s \in Threads : goal[s].what # "pool"
    BY <1>1 DEF PoolInUse, What
  <2>2. \A b \in Owners : owners'[b] = 0
    BY <1>0, <1>1, <2>1 DEF ScopeInv, TypeOK
  <2>3. ~PoolHeld'
    BY <1>1, <2>1, <2>2 DEF PoolHeld, What
  <2> QED BY <1>1, <1>3, <2>1, <2>2, <2>3 DEF ScopeInv, What
<1> QED BY <1>5, <1>6, <1>7, <1>8, <1>9

\* Nothing happens.
LEMMA FrameInd ==
  ASSUME IndInv, UNCHANGED vars
  PROVE  IndInv'
<1>1. UNCHANGED <<heap, instance, mutex, at, goal, ptr, owners, users, throws, scoped, racy, fault>>
  BY DEF vars
<1>2. TypeOK' /\ ControlInv'
  BY <1>1 DEF IndInv, TypeOK, ControlInv, What, Pointers
<1>3. GoalInv' /\ InstanceInv' /\ PointerInv'
  BY <1>1 DEF IndInv, GoalInv, InstanceInv, PointerInv, What
<1>4. ScopeInv'
  <2>1. PoolHeld' <=> PoolHeld
    BY <1>1 DEF PoolHeld, What
  <2> QED BY <1>1, <2>1 DEF IndInv, ScopeInv, What
<1> QED BY <1>2, <1>3, <1>4 DEF IndInv

\* Every step keeps the inductive invariant.
LEMMA NextInd == IndInv /\ [Next]_vars => IndInv'
<1> SUFFICES ASSUME IndInv, [Next]_vars PROVE IndInv'
  OBVIOUS
<1>1. ASSUME NEW t \in Threads, GetInstanceStep(t) PROVE IndInv'
  <2>1. CASE Check(t)      BY <2>1, CheckInd
  <2>2. CASE Lock(t)       BY <2>2, LockInd
  <2>3. CASE Recheck(t)    BY <2>3, RecheckFoundInd, RecheckNewInd
  <2>4. CASE Construct(t)  BY <2>4, ConstructInd
  <2>5. CASE Throw(t)      BY <2>5, ThrowInd
  <2>6. CASE Publish(t)    BY <2>6, PublishInd
  <2>7. CASE Unlock(t)     BY <2>7, UnlockInd
  <2>8. CASE Got(t)        BY <2>8, GotInd
  <2> QED BY <1>1, <2>1, <2>2, <2>3, <2>4, <2>5, <2>6, <2>7, <2>8 DEF GetInstanceStep
<1>2. ASSUME NEW t \in Threads, LookUp(t) PROVE IndInv'
  BY <1>2, NewUseInd
<1>3. ASSUME NEW t \in Threads, NEW o \in Owners, NewOwner(t, o) PROVE IndInv'
  BY <1>3, NewOwnerInd
<1>4. ASSUME NEW t \in Threads, NEW u \in Users, NewMigrator(t, u) PROVE IndInv'
  BY <1>4, NewUseInd
<1>5. ASSUME NEW o \in Owners, NEW u \in Users, Borrow(o, u) PROVE IndInv'
  BY <1>5, UserInd
<1>6. ASSUME NEW u \in Users, GiveBack(u) PROVE IndInv'
  BY <1>6, UserInd
<1>7. ASSUME NEW o \in Owners, NEW p \in Owners, Copy(o, p) PROVE IndInv'
  BY <1>7, CopyInd
<1>8. ASSUME NEW o \in Owners, DestroyOwner(o) PROVE IndInv'
  BY <1>8, DestroyOwnerInd
<1>9. CASE UNCHANGED vars
  BY <1>9, FrameInd
<1> QED BY <1>1, <1>2, <1>3, <1>4, <1>5, <1>6, <1>7, <1>8, <1>9 DEF Next, Halted

-----------------------------------------------------------------------------
\* The inductive invariant holds in every reachable state, for any threads,
\* owners and users, with or without fairness.
THEOREM Inductive == Spec => []IndInv
<1> QED BY InitInd, NextInd, PTL DEF Spec

\* Pointers are null or point to objects that exist, and a thread between the
\* lock and the unlock of getInstance() owns the mutex of the class.
THEOREM TypeCorrect == Spec => []TypeOK
<1>1. IndInv => TypeOK
  BY DEF IndInv
<1> QED BY <1>1, Inductive, PTL

\* Two objects of one class that count are the same: an unpublished one and the
\* published one cannot both be, and two threads cannot both be creating.
LEMMA SameObject ==
  ASSUME IndInv, NEW x \in Classes, NEW i \in DOMAIN heap, NEW j \in DOMAIN heap,
         heap[i].what = x, x = "pool" \/ heap[i].state # "freed",
         heap[j].what = x, x = "pool" \/ heap[j].state # "freed"
  PROVE  i = j
<1> USE DEF IndInv
<1>0. i # 0 /\ j # 0
  BY Typing
<1>1. i = instance[x] \/ \E t \in Threads : at[t] = "create" /\ ptr[t] = i /\ goal[t].what = x
  BY DEF InstanceInv, What
<1>2. j = instance[x] \/ \E t \in Threads : at[t] = "create" /\ ptr[t] = j /\ goal[t].what = x
  BY DEF InstanceInv, What
<1>3. \A t \in Threads : at[t] = "create" /\ goal[t].what = x => instance[x] \in {0, ptr[t]} /\ mutex[x] = t
  BY DEF PointerInv, TypeOK, What
<1> QED BY <1>0, <1>1, <1>2, <1>3

\* getInstance() never creates a second pool or a second configuration, whatever
\* the number of threads that find the pointer null and of constructors that throw.
THEOREM OneObjectOfEach == Spec => []OneInstance
<1>1. ASSUME IndInv, NEW x \in Classes
      PROVE  Cardinality({i \in DOMAIN heap :
                  heap[i].what = x /\ (x = "pool" \/ heap[i].state # "freed")}) <= 1
  <2> DEFINE S == {i \in DOMAIN heap : heap[i].what = x /\ (x = "pool" \/ heap[i].state # "freed")}
  <2>1. \A i, j \in S : i = j
    BY <1>1, SameObject
  <2>2. S = {} \/ \E i : S = {i}
    BY <2>1
  <2> HIDE DEF S
  <2>3. Cardinality(S) \in {0, 1}
    BY <2>2, FS_EmptySet, FS_Singleton
  <2>4. Cardinality(S) <= 1
    BY <2>3
  <2> QED BY <2>4 DEF S
<1>2. IndInv => OneInstance
  BY <1>1 DEF OneInstance
<1> QED BY <1>2, Inductive, PTL

-----------------------------------------------------------------------------
(* Why an unfinished object is used only after overlapping calls *)

\* A call of getInstance() for a class whose object is not complete while another
\* is under way is what racy records.
LEMMA CallRace ==
  ASSUME IndInv, RaceInv, NEW t \in Threads, NEW g, Call(t, g), g.what \in Classes
  PROVE  RaceInv'
<1> USE DEF IndInv, RaceInv
<1>1. /\ UNCHANGED <<heap, instance, ptr, owners, users, fault>> /\ at[t] = "idle"
      /\ racy' = racy \cup {x \in {g.what} : ~Complete(x) /\ \E s \in Threads : What(s) = x}
  BY DEF Call
<1>2. /\ at'[t] = "check" /\ goal'[t] = g
      /\ \A s \in Threads : s # t => at'[s] = at[s] /\ goal'[s] = goal[s]
  BY DEF Call, ControlInv
<1>3. \A x : Complete(x)' <=> Complete(x)
  BY <1>1 DEF Complete
<1>4. RawInv'
  <2>1. ASSUME NEW s \in Threads, at[s] = "create" PROVE s # t
    BY <1>1, <2>1
  <2> QED BY <1>1, <1>2, <2>1 DEF RawInv, What
<1>5. AloneInv'
  <2> SUFFICES ASSUME NEW x \in Classes \ racy', ~Complete(x),
                      NEW s \in Threads, NEW u \in Threads,
                      goal'[s].what = x, goal'[u].what = x, s # u
               PROVE  FALSE
    BY <1>3 DEF AloneInv, What
  <2>1. x \notin racy
    BY <1>1
  <2>2. CASE s # t /\ u # t
    BY <1>2, <2>1, <2>2 DEF AloneInv, What
  <2>3. CASE s = t \/ u = t
    <3>1. g.what = x /\ \E w \in Threads : goal[w].what = x
      BY <1>2, <2>3
    <3> QED BY <1>1, <3>1 DEF What
  <2> QED BY <2>2, <2>3
<1>6. HeldInv'
  BY <1>1, <1>3 DEF HeldInv
<1> QED BY <1>4, <1>5, <1>6

\* The steps of getInstance() before the allocation and after the stores.
LEMMA WaitingRace ==
  ASSUME IndInv, RaceInv, NEW t \in Threads,
         \/ Check(t) \/ Lock(t) \/ Unlock(t)
         \/ Recheck(t) /\ instance[What(t)] # 0
  PROVE  RaceInv'
<1> USE DEF IndInv, RaceInv
<1>1. /\ UNCHANGED <<heap, instance, goal, owners, users, racy, fault>>
      /\ at[t] = "create" => heap[ptr[t]].state # "raw"
      /\ \A s \in Threads : s # t => at'[s] = at[s] /\ ptr'[s] = ptr[s]
  BY DEF Check, Lock, Unlock, Recheck, ControlInv, TypeOK
<1>2. \A x : Complete(x)' <=> Complete(x)
  BY <1>1 DEF Complete
<1>3. RawInv'
  <2> SUFFICES ASSUME NEW i \in DOMAIN heap, heap[i].state = "raw"
               PROVE  \E s \in Threads : at'[s] = "create" /\ ptr'[s] = i /\ goal[s].what = heap[i].what
    BY <1>1 DEF RawInv, What
  <2>1. PICK s \in Threads : at[s] = "create" /\ ptr[s] = i /\ goal[s].what = heap[i].what
    BY DEF RawInv, What
  <2> QED BY <1>1, <2>1
<1>4. AloneInv' /\ HeldInv'
  BY <1>1, <1>2 DEF AloneInv, HeldInv, What
<1> QED BY <1>3, <1>4

\* The allocation: the new object is its creator's.
LEMMA AllocateRace ==
  ASSUME IndInv, RaceInv, NEW t \in Threads, Recheck(t), instance[What(t)] = 0
  PROVE  RaceInv'
<1> USE DEF IndInv, RaceInv
<1> DEFINE n == Len(heap) + 1
           new == [what |-> What(t), state |-> "raw"]
<1>0. /\ What(t) \in Classes /\ heap \in Seq(Objects)
      /\ Len(heap) \in Nat /\ DOMAIN heap = 1..Len(heap)
  BY Typing DEF Recheck
<1>1. /\ UNCHANGED <<instance, goal, owners, users, racy, fault>>
      /\ at[t] = "recheck" /\ heap' = Append(heap, new) /\ ptr' = [ptr EXCEPT ![t] = n]
  BY DEF Recheck
<1>2. at'[t] = "create" /\ \A s \in Threads : s # t => at'[s] = at[s]
  BY DEF Recheck, ControlInv
<1>3. new \in Objects /\ new.what = What(t)
  BY <1>0 DEF Objects, States
<1> HIDE DEF new
<1>4. /\ DOMAIN heap' = 1..n /\ heap'[n] = new
      /\ \A i \in 1..Len(heap) : heap'[i] = heap[i]
      /\ ptr'[t] = n /\ \A s \in Threads : s # t => ptr'[s] = ptr[s]
  BY <1>0, <1>1, <1>3 DEF TypeOK
<1>5. \A x \in Classes : Complete(x)' <=> Complete(x)
  <2>1. \A x \in Classes : instance[x] \in 0..Len(heap)
    BY Typing
  <2> QED BY <1>0, <1>1, <1>4, <2>1 DEF Complete
<1>6. RawInv'
  <2> SUFFICES ASSUME NEW i \in DOMAIN heap', heap'[i].state = "raw"
               PROVE  \E s \in Threads : at'[s] = "create" /\ ptr'[s] = i /\ goal[s].what = heap'[i].what
    BY <1>1 DEF RawInv, What
  <2>1. CASE i = n
    BY <1>2, <1>3, <1>4, <2>1 DEF What
  <2>2. CASE i # n
    <3>1. i \in DOMAIN heap /\ heap'[i] = heap[i]
      BY <1>0, <1>4, <2>2
    <3>2. PICK s \in Threads : at[s] = "create" /\ ptr[s] = i /\ goal[s].what = heap[i].what
      BY <3>1 DEF RawInv, What
    <3> QED BY <1>1, <1>2, <1>4, <3>1, <3>2
  <2> QED BY <2>1, <2>2
<1>7. AloneInv'
  BY <1>1, <1>5 DEF AloneInv, What
<1>8. HeldInv'
  BY <1>1, <1>5 DEF HeldInv, Classes
<1> QED BY <1>6, <1>7, <1>8

\* The constructor's stores become visible, or it throws: an object stops being raw.
LEMMA StoresRace ==
  ASSUME IndInv, RaceInv, NEW t \in Threads, Construct(t) \/ Throw(t)
  PROVE  RaceInv'
<1> USE DEF IndInv, RaceInv
<1>0. PICK p \in 1..Len(heap) : p = ptr[t]
  BY Typing DEF Construct, Throw
<1>1. PICK y \in {"ready", "freed"} : heap' = [heap EXCEPT ![p].state = y]
  BY <1>0 DEF Construct, Throw
<1>2. /\ UNCHANGED <<instance, owners, users, racy, fault>> /\ at[t] = "create"
      /\ \A s \in Threads \ {t} : at'[s] = at[s] /\ ptr'[s] = ptr[s]
      /\ \A s \in Threads : goal'[s].what \in {goal[s].what, "none"}
      /\ \A s \in Threads \ {t} : goal'[s] = goal[s]
      /\ \A x \in Classes : instance[x] # 0 => heap[instance[x]].what = x
  BY DEF Construct, Throw, ControlInv, TypeOK, Idle, InstanceInv
<1>3. /\ DOMAIN heap' = DOMAIN heap /\ heap'[p].state # "raw" /\ DOMAIN heap = 1..Len(heap)
      /\ \A i \in 1..Len(heap) : i # p => heap'[i] = heap[i]
  BY <1>1, Typing, StateChange DEF States
<1>4. \A x \in Classes : Complete(x) => Complete(x)'
  <2>1. \A x \in Classes : instance[x] \in 0..Len(heap)
    BY Typing
  <2> QED BY <1>2, <1>3, <2>1 DEF Complete
<1>5. RawInv'
  <2> SUFFICES ASSUME NEW i \in DOMAIN heap, heap'[i].state = "raw"
               PROVE  \E s \in Threads : at'[s] = "create" /\ ptr'[s] = i /\ goal'[s].what = heap'[i].what
    BY <1>3 DEF RawInv, What
  <2>1. i # p /\ heap'[i] = heap[i]
    BY <1>3
  <2>2. PICK s \in Threads : at[s] = "create" /\ ptr[s] = i /\ goal[s].what = heap[i].what
    BY <2>1 DEF RawInv, What
  <2>3. s # t
    BY <1>0, <2>1, <2>2
  <2> QED BY <1>2, <2>1, <2>2, <2>3
<1>6. AloneInv'
  <2>1. \A s \in Threads, x \in Classes : goal'[s].what = x => goal[s].what = x
    BY <1>2 DEF Classes
  <2> QED BY <1>2, <1>4, <2>1 DEF AloneInv, What
<1>7. HeldInv'
  BY <1>2, <1>4 DEF HeldInv, Classes
<1> QED BY <1>5, <1>6, <1>7

\* The pointer becomes visible.
LEMMA PublishRace ==
  ASSUME IndInv, RaceInv, NEW t \in Threads, Publish(t)
  PROVE  RaceInv'
<1> USE DEF IndInv, RaceInv
<1>0. PICK x \in Classes : x = goal[t].what
  BY Typing DEF Publish, What
<1>1. /\ instance[x] = 0 /\ instance' = [instance EXCEPT ![x] = ptr[t]]
      /\ UNCHANGED <<heap, at, goal, ptr, owners, users, racy, fault>>
  BY <1>0 DEF Publish, PointerInv, What
<1>2. \A y \in Classes : Complete(y) => Complete(y)'
  BY <1>1 DEF Complete, TypeOK
<1>3. RawInv'
  BY <1>1 DEF RawInv, What
<1>4. AloneInv' /\ HeldInv'
  BY <1>1, <1>2 DEF AloneInv, HeldInv, What, Classes
<1> QED BY <1>3, <1>4

\* The object is used.  If it is unfinished its creator is another thread, and so
\* two calls have overlapped; the configuration is never deleted.
LEMMA GotRace ==
  ASSUME IndInv, RaceInv, fault = NoFault, NEW t \in Threads, Got(t)
  PROVE  RaceInv'
<1> USE DEF IndInv, RaceInv
<1>0. PICK x \in Classes : x = goal[t].what
  BY Typing DEF Got, What
<1>1. /\ at[t] = "got" /\ fault' = IF heap[ptr[t]].state = "ready" THEN fault ELSE heap[ptr[t]]
      /\ owners' = [o \in Owners |-> IF o \in goal[t].owner THEN ptr[t] ELSE owners[o]]
      /\ users' = [u \in Users |-> IF u \in goal[t].user THEN ptr[t] ELSE users[u]]
      /\ UNCHANGED <<heap, instance, racy>>
  BY DEF Got, Use
<1>2. /\ goal'[t].what = "none"
      /\ \A s \in Threads : s # t => at'[s] = at[s] /\ goal'[s] = goal[s] /\ ptr'[s] = ptr[s]
  BY DEF Got, TypeOK, ControlInv, Idle
<1>3. /\ ptr[t] = instance[x] /\ ptr[t] # 0 /\ ptr[t] \in DOMAIN heap /\ heap[ptr[t]] \in Objects
      /\ heap[ptr[t]].what = x /\ (x = "config" => heap[ptr[t]].state # "freed")
  <2>1. ptr[t] = instance[x] /\ ptr[t] # 0
    BY <1>0, <1>1 DEF PointerInv, What
  <2>2. ptr[t] \in DOMAIN heap /\ heap[ptr[t]] \in Objects
    BY <1>1, Typing
  <2> QED BY <2>1, <2>2 DEF InstanceInv
<1>4. \A y : Complete(y)' <=> Complete(y)
  BY <1>1 DEF Complete
<1>5. RawInv'
  <2> SUFFICES ASSUME NEW i \in DOMAIN heap, heap[i].state = "raw"
               PROVE  \E s \in Threads : at'[s] = "create" /\ ptr'[s] = i /\ goal'[s].what = heap[i].what
    BY <1>1 DEF RawInv, What
  <2>1. PICK s \in Threads : at[s] = "create" /\ ptr[s] = i /\ goal[s].what = heap[i].what
    BY DEF RawInv, What
  <2> QED BY <1>1, <1>2, <2>1
<1>6. AloneInv'
  <2>1. \A s \in Threads, y \in Classes : goal'[s].what = y => goal[s].what = y
    BY <1>2 DEF Classes
  <2> QED BY <1>1, <1>4, <2>1 DEF AloneInv, What
<1>7. HeldInv'
  <2>1. CASE heap[ptr[t]].state = "ready"
    <3>1. fault' = NoFault
      BY <1>1, <2>1
    <3>2. Complete(x)
      BY <1>3, <2>1 DEF Complete
    <3>3. x # "pool" => owners' = owners /\ users' = users
      BY <1>0, <1>1 DEF GoalInv, What, TypeOK
    <3>4. ((\E o \in Owners : owners'[o] # 0) \/ \E u \in Users : users'[u] # 0) => Complete("pool")
      BY <3>2, <3>3 DEF HeldInv, Classes
    <3> QED BY <1>4, <3>1, <3>4 DEF HeldInv
  <2>2. CASE heap[ptr[t]].state = "raw"
    <3>1. PICK s \in Threads : at[s] = "create" /\ goal[s].what = x
      BY <1>3, <2>2 DEF RawInv, What
    <3>2. ~Complete(x) /\ s # t
      BY <1>1, <1>3, <2>2, <3>1 DEF Complete
    <3>3. x \in racy
      BY <1>0, <3>1, <3>2 DEF AloneInv, What
    <3>4. fault' = heap[ptr[t]] /\ fault' # NoFault
      BY <1>1, <2>2 DEF NoFault
    <3> QED BY <1>1, <1>3, <2>2, <3>3, <3>4 DEF HeldInv
  <2>3. CASE heap[ptr[t]].state = "freed"
    <3>1. fault' = heap[ptr[t]] /\ fault' # NoFault /\ x = "pool"
      BY <1>1, <1>3, <2>3 DEF NoFault, Classes
    <3> QED BY <1>3, <2>3, <3>1 DEF HeldInv
  <2> QED BY <1>3, <2>1, <2>2, <2>3 DEF Objects, States
<1> QED BY <1>5, <1>6, <1>7

\* Owners and users use the pool they were given, which is finished.
LEMMA HolderRace ==
  ASSUME IndInv, RaceInv, fault = NoFault, NEW p, p # 0, p = instance["pool"], Use(p),
         (\E o \in Owners : owners[o] # 0) \/ \E u \in Users : users[u] # 0
  PROVE  /\ p \in 1..Len(heap) /\ heap[p].state # "raw" /\ heap[p].what = "pool"
         /\ fault' = NoFault \/ (fault' = heap[p] /\ heap[p].state = "freed")
<1>1. p \in 1..Len(heap) /\ heap[p] \in Objects
  BY Typing DEF Classes
<1>2. Complete("pool")
  BY DEF RaceInv, HeldInv
<1>3. heap[p].state # "raw"
  BY <1>2 DEF Complete
<1>4. heap[p].what = "pool"
  BY DEF IndInv, InstanceInv, Classes
<1>5. heap[p].state = "ready" \/ heap[p].state = "freed"
  BY <1>1, <1>3 DEF Objects, States
<1>6. fault' = NoFault \/ (fault' = heap[p] /\ heap[p].state = "freed")
  BY <1>5 DEF Use
<1> QED BY <1>1, <1>3, <1>4, <1>6

\* Borrowing, giving back, copying and destroying.
LEMMA ClientRace ==
  ASSUME IndInv, RaceInv, fault = NoFault,
         \/ \E u \in Users : GiveBack(u) \/ \E o \in Owners : Borrow(o, u)
         \/ \E o, q \in Owners : Copy(o, q)
         \/ \E o \in Owners : DestroyOwner(o)
  PROVE  RaceInv'
<1> USE DEF IndInv, RaceInv
<1>1. UNCHANGED <<instance, at, goal, ptr, racy>>
  BY DEF GiveBack, Borrow, Copy, DestroyOwner
<1>2. PICK p : /\ p # 0 /\ p = instance["pool"] /\ (Use(p) \/ fault' = fault)
               /\ (\E o \in Owners : owners[o] # 0) \/ (\E u \in Users : users[u] # 0)
               /\ heap' = heap \/ heap' = [heap EXCEPT ![p].state = "freed"]
  BY DEF GiveBack, Borrow, Copy, DestroyOwner, PointerInv
<1>3. /\ p \in 1..Len(heap) /\ heap[p].state # "raw" /\ heap[p].what = "pool"
      /\ fault' = NoFault \/ (fault' # NoFault /\ fault'.what = "pool" /\ fault'.state = "freed")
  <2>1. CASE Use(p)
    BY <1>2, <2>1, HolderRace DEF NoFault
  <2>2. CASE fault' = fault
    <3>1. Complete("pool")
      BY <1>2 DEF HeldInv
    <3>2. p \in 1..Len(heap) /\ heap[p].what = "pool"
      BY <1>2, Typing DEF InstanceInv, Classes
    <3> QED BY <1>2, <2>2, <3>1, <3>2 DEF Complete
  <2> QED BY <1>2, <2>1, <2>2
<1>4. /\ DOMAIN heap' = DOMAIN heap /\ DOMAIN heap = 1..Len(heap)
      /\ \A i \in DOMAIN heap : heap'[i].what = heap[i].what /\ (heap'[i].state = "raw" <=> heap[i].state = "raw")
  <2>1. DOMAIN heap = 1..Len(heap) /\ heap \in Seq(Objects)
    BY Typing
  <2>2. CASE heap' = heap
    BY <2>1, <2>2
  <2>3. CASE heap' = [heap EXCEPT ![p].state = "freed"]
    BY <1>3, <2>1, <2>3, StateChange DEF States
  <2> QED BY <1>2, <2>2, <2>3
<1>5. \A x \in Classes : Complete(x)' <=> Complete(x)
  <2>1. \A x \in Classes : instance[x] \in 0..Len(heap)
    BY Typing
  <2>2. \A x \in Classes : instance[x] # 0 => instance[x] \in DOMAIN heap
    BY <1>4, <2>1, Typing
  <2> QED BY <1>1, <1>4, <2>2 DEF Complete
<1>6. RawInv'
  BY <1>1, <1>4 DEF RawInv, What
<1>7. AloneInv'
  BY <1>1, <1>5 DEF AloneInv, What
<1>8. Complete("pool")'
  BY <1>2, <1>5 DEF HeldInv, Classes
<1>9. HeldInv'
  BY <1>3, <1>8 DEF HeldInv
<1> QED BY <1>6, <1>7, <1>9

\* Every step keeps the reasons for a fault.
LEMMA NextRace == IndInv /\ RaceInv /\ [Next]_vars => RaceInv'
<1> SUFFICES ASSUME IndInv, RaceInv, [Next]_vars PROVE RaceInv'
  OBVIOUS
<1>1. ASSUME fault = NoFault, NEW t \in Threads, GetInstanceStep(t) PROVE RaceInv'
  <2>1. CASE Check(t) \/ Lock(t) \/ Unlock(t)    BY <2>1, WaitingRace
  <2>2. CASE Recheck(t)                          BY <2>2, WaitingRace, AllocateRace
  <2>3. CASE Construct(t) \/ Throw(t)            BY <2>3, StoresRace
  <2>4. CASE Publish(t)                          BY <2>4, PublishRace
  <2>5. CASE Got(t)                              BY <1>1, <2>5, GotRace
  <2> QED BY <1>1, <2>1, <2>2, <2>3, <2>4, <2>5 DEF GetInstanceStep
<1>2. ASSUME NEW t \in Threads,
             \/ LookUp(t) \/ \E o \in Owners : NewOwner(t, o)
             \/ \E u \in Users : NewMigrator(t, u)
      PROVE  RaceInv'
  <2>1. CASE LookUp(t)
    <3> DEFINE g == [what |-> "config", owner |-> {}, user |-> {}]
    <3>1. Call(t, g) /\ g.what \in Classes
      BY <2>1 DEF LookUp, Classes
    <3> QED BY <3>1, CallRace
  <2>2. ASSUME NEW o \in Owners, NewOwner(t, o) PROVE RaceInv'
    <3> DEFINE g == [what |-> "pool", owner |-> {o}, user |-> {}]
    <3>1. Call(t, g) /\ g.what \in Classes
      BY <2>2 DEF NewOwner, Classes
    <3> QED BY <3>1, CallRace
  <2>3. ASSUME NEW u \in Users, NewMigrator(t, u) PROVE RaceInv'
    <3> DEFINE g == [what |-> "pool", owner |-> {}, user |-> {u}]
    <3>1. Call(t, g) /\ g.what \in Classes
      BY <2>3 DEF NewMigrator, Classes
    <3> QED BY <3>1, CallRace
  <2> QED BY <1>2, <2>1, <2>2, <2>3
<1>3. CASE UNCHANGED vars
  <2>1. UNCHANGED <<heap, instance, at, goal, ptr, owners, users, racy, fault>>
    BY <1>3 DEF vars
  <2> QED BY <2>1 DEF RaceInv, RawInv, AloneInv, HeldInv, Complete, What
<1> QED BY <1>1, <1>2, <1>3, ClientRace DEF Next, Halted

\* A process that has created nothing has no race behind it.
LEMMA InitRace == Init => RaceInv
  BY DEF Init, RaceInv, RawInv, AloneInv, HeldInv, What, Idle, Classes

\* A scoped program never touches an unfinished or deleted pool, the configuration
\* is never deleted, and an unfinished object is used only after two first calls of
\* getInstance() have overlapped, in any interleaving of any number of threads.
THEOREM ScopedProgramsAreSafe == Spec => []ScopedProgramsSafe
<1>1. Spec => []RaceInv
  BY InitRace, NextRace, Inductive, PTL DEF Spec
<1>2. IndInv /\ RaceInv => ScopedProgramsSafe
  BY DEF IndInv, ScopeInv, TypeOK, RaceInv, HeldInv, ScopedProgramsSafe, NoFault
<1> QED BY <1>1, <1>2, Inductive, PTL

=============================================================================
