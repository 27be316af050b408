------------------------------ MODULE Lifetime ------------------------------
(***************************************************************************)
(* The two lazily created objects of the library, the connection pool and  *)
(* the configuration (ConnectionPool::getInstance, Config::getInstance),   *)
(* and the objects that own the pool (DB, Database) or keep a pointer to   *)
(* it (Model, Migrator, SqlConn).                                          *)
(*                                                                         *)
(* getInstance is double-checked locking on a plain pointer.  The pointer  *)
(* and the members of the new object are ordinary stores, which a build or *)
(* a processor may make visible in either order to a thread that reads     *)
(* without the mutex.                                                      *)
(* ~DB and ~Database delete the shared pool and leave instance as it is.   *)
(***************************************************************************)
EXTENDS Naturals, Sequences, FiniteSets

CONSTANTS
    Threads,
    Owners,     \* the DB and Database variables of the program
    Users,      \* its Model, Migrator and SqlConn variables
    MaxThrows,  \* bound: how often rules.json is found unreadable
    NoThread

ASSUME LifetimeAssumption == NoThread \notin Threads /\ MaxThrows \in Nat

VARIABLES
    heap,      \* the objects created: [what, state]; a pointer is an index, 0 is null
    instance,  \* the static member instance of either class
    mutex,     \* the thread that owns instanceMu (Config::mu)
    at,        \* where a thread is in getInstance()
    goal,      \* what it needs the object for: [what, owner, user]
    ptr,       \* the pointer it got, or is creating
    owners,    \* owner -> its pool pointer
    users,     \* user -> its pool pointer
    throws,    \* how often the constructor of Config has thrown
    scoped,    \* the program so far has had one DB, outliving its users
    racy,      \* the classes whose first getInstance() calls have overlapped
    fault      \* the unfinished or deleted object that was used, or NoFault

vars == <<heap, instance, mutex, at, goal, ptr, owners, users, throws, scoped, racy, fault>>

Classes == {"pool", "config"}
Idle == [what |-> "none", owner |-> {}, user |-> {}]
NoFault == [what |-> "none", state |-> "ready"]

Init ==
    /\ heap = << >>
    /\ instance = [x \in Classes |-> 0]
    /\ mutex = [x \in Classes |-> NoThread]
    /\ at = [t \in Threads |-> "idle"]
    /\ goal = [t \in Threads |-> Idle]
    /\ ptr = [t \in Threads |-> 0]
    /\ owners = [o \in Owners |-> 0]
    /\ users = [u \in Users |-> 0]
    /\ throws = 0
    /\ scoped = TRUE
    /\ racy = {}
    /\ fault = NoFault

What(t) == goal[t].what

\* The object p points to is used; a raw or freed one is a fault.
Use(p) == fault' = IF heap[p].state = "ready" THEN fault ELSE heap[p]

-----------------------------------------------------------------------------
(* getInstance() *)

\* The object of class x is there, with all its members.
Complete(x) == instance[x] # 0 /\ heap[instance[x]].state # "raw"

\* A call is made.  It overlaps with another that may still have to create the object.
Call(t, g) ==
    /\ at[t] = "idle"
    /\ at' = [at EXCEPT ![t] = "check"]
    /\ goal' = [goal EXCEPT ![t] = g]
    /\ racy' = racy \cup {x \in {g.what} : ~Complete(x) /\ \E s \in Threads : What(s) = x}
    /\ UNCHANGED <<heap, instance, mutex, ptr, owners, users, throws, fault>>

\* The first test of instance, without the mutex.
Check(t) ==
    /\ at[t] = "check"
    /\ \/ instance[What(t)] # 0 /\ at' = [at EXCEPT ![t] = "got"]
       \/ instance[What(t)] = 0 /\ at' = [at EXCEPT ![t] = "lock"]
    /\ ptr' = [ptr EXCEPT ![t] = instance[What(t)]]
    /\ UNCHANGED <<heap, instance, mutex, goal, owners, users, throws, scoped, racy, fault>>

\* Faulty variant of Lock: there is no lock_guard.
LockMissing(t) ==
    /\ at[t] = "lock"
    /\ at' = [at EXCEPT ![t] = "recheck"]
    /\ UNCHANGED <<heap, instance, mutex, goal, ptr, owners, users, throws, scoped, racy, fault>>

Lock(t) ==
    /\ at[t] = "lock"
    /\ mutex[What(t)] = NoThread
    /\ mutex' = [mutex EXCEPT ![What(t)] = t]
    /\ at' = [at EXCEPT ![t] = "recheck"]
    /\ UNCHANGED <<heap, instance, goal, ptr, owners, users, throws, scoped, racy, fault>>

\* Faulty variant of Recheck: instance is not tested again under the mutex.
RecheckMissing(t) ==
    /\ at[t] = "recheck"
    /\ heap' = Append(heap, [what |-> What(t), state |-> "raw"])
    /\ ptr' = [ptr EXCEPT ![t] = Len(heap) + 1]
    /\ at' = [at EXCEPT ![t] = "create"]
    /\ UNCHANGED <<instance, mutex, goal, owners, users, throws, scoped, racy, fault>>

\* The second test, under the mutex, and the allocation of new.
Recheck(t) ==
    /\ at[t] = "recheck"
    /\ \/ /\ instance[What(t)] = 0
          /\ heap' = Append(heap, [what |-> What(t), state |-> "raw"])
          /\ ptr' = [ptr EXCEPT ![t] = Len(heap) + 1]
          /\ at' = [at EXCEPT ![t] = "create"]
       \/ /\ instance[What(t)] # 0
          /\ at' = [at EXCEPT ![t] = "unlock"]
          /\ UNCHANGED <<heap, ptr>>
    /\ UNCHANGED <<instance, mutex, goal, owners, users, throws, scoped, racy, fault>>

\* The constructor has filled the object in.
Construct(t) ==
    /\ at[t] = "create"
    /\ heap[ptr[t]].state = "raw"
    /\ heap' = [heap EXCEPT ![ptr[t]].state = "ready"]
    /\ UNCHANGED <<instance, mutex, at, goal, ptr, owners, users, throws, scoped, racy, fault>>

\* json::parse throws: new gives the memory back, the lock_guard the mutex, and the
\* exception leaves getInstance().  The assignment to instance is never reached.
Throw(t) ==
    /\ at[t] = "create"
    /\ What(t) = "config"
    /\ heap[ptr[t]].state = "raw"
    /\ instance["config"] = 0
    /\ throws < MaxThrows
    /\ throws' = throws + 1
    /\ heap' = [heap EXCEPT ![ptr[t]].state = "freed"]
    /\ mutex' = [mutex EXCEPT !["config"] = NoThread]
    /\ at' = [at EXCEPT ![t] = "idle"]
    /\ goal' = [goal EXCEPT ![t] = Idle]
    /\ ptr' = [ptr EXCEPT ![t] = 0]
    /\ UNCHANGED <<instance, owners, users, scoped, racy, fault>>

\* The pointer becomes visible, after the constructor's stores or before them.
Publish(t) ==
    /\ at[t] = "create"
    /\ instance[What(t)] # ptr[t]
    /\ instance' = [instance EXCEPT ![What(t)] = ptr[t]]
    /\ UNCHANGED <<heap, mutex, at, goal, ptr, owners, users, throws, scoped, racy, fault>>

\* Faulty variant of Unlock: the mutex is locked and unlocked by hand, and the
\* return comes before the unlock.
UnlockMissing(t) ==
    /\ \/ at[t] = "unlock"
       \/ /\ at[t] = "create"
          /\ heap[ptr[t]].state # "raw"
          /\ instance[What(t)] = ptr[t]
    /\ ptr' = [ptr EXCEPT ![t] = instance[What(t)]]
    /\ at' = [at EXCEPT ![t] = "got"]
    /\ UNCHANGED <<heap, instance, mutex, goal, owners, users, throws, scoped, racy, fault>>

\* The mutex is released once all stores are done, and instance is returned.
Unlock(t) ==
    /\ \/ at[t] = "unlock"
       \/ /\ at[t] = "create"
          /\ heap[ptr[t]].state # "raw"
          /\ instance[What(t)] = ptr[t]
    /\ mutex' = [mutex EXCEPT ![What(t)] = NoThread]
    /\ ptr' = [ptr EXCEPT ![t] = instance[What(t)]]
    /\ at' = [at EXCEPT ![t] = "got"]
    /\ UNCHANGED <<heap, instance, goal, owners, users, throws, scoped, racy, fault>>

\* The caller uses what it got: DB's and Database's constructor configure the
\* pool, Migrator's takes a connection from it, the naming rules are looked up.
Got(t) ==
    /\ at[t] = "got"
    /\ Use(ptr[t])
    /\ owners' = [o \in Owners |-> IF o \in goal[t].owner THEN ptr[t] ELSE owners[o]]
    /\ users' = [u \in Users |-> IF u \in goal[t].user THEN ptr[t] ELSE users[u]]
    /\ at' = [at EXCEPT ![t] = "idle"]
    /\ goal' = [goal EXCEPT ![t] = Idle]
    /\ ptr' = [ptr EXCEPT ![t] = 0]
    /\ UNCHANGED <<heap, instance, mutex, throws, scoped, racy>>

-----------------------------------------------------------------------------
(* The callers *)

Constructing(o) == \E t \in Threads : o \in goal[t].owner
Taking(u) == \E t \in Threads : u \in goal[t].user
PoolInUse == (\E u \in Users : users[u] # 0) \/ (\E t \in Threads : What(t) = "pool")

\* DB's or Database's constructor.  A second owner ends what is called scoped.
NewOwner(t, o) ==
    /\ owners[o] = 0 /\ ~Constructing(o)
    /\ Call(t, [what |-> "pool", owner |-> {o}, user |-> {}])
    /\ scoped' = (scoped /\ ~PoolInUse /\ \A p \in Owners : owners[p] = 0
                         /\ instance["pool"] = 0)

\* Migrator's constructor, called by a live Model, asks getInstance() itself.
NewMigrator(t, u) ==
    /\ users[u] = 0 /\ ~Taking(u)
    /\ \E v \in Users : users[v] # 0
    /\ Call(t, [what |-> "pool", owner |-> {}, user |-> {u}])
    /\ UNCHANGED scoped

\* isSameDbType, cppTypeToDbType and dbTypeToCppType.
LookUp(t) ==
    /\ Call(t, [what |-> "config", owner |-> {}, user |-> {}])
    /\ UNCHANGED scoped

\* DB::model and getConn.
Borrow(o, u) ==
    /\ owners[o] # 0 /\ users[u] = 0 /\ ~Taking(u)
    /\ Use(owners[o])
    /\ users' = [users EXCEPT ![u] = owners[o]]
    /\ UNCHANGED <<heap, instance, mutex, at, goal, ptr, owners, throws, scoped, racy>>

\* Faulty variant of GiveBack: a Migrator or Model owns the pool, as Database does.
GiveBackDeleting(u) ==
    /\ users[u] # 0
    /\ Use(users[u])
    /\ heap' = [heap EXCEPT ![users[u]].state = "freed"]
    /\ users' = [users EXCEPT ![u] = 0]
    /\ UNCHANGED <<instance, mutex, at, goal, ptr, owners, throws, scoped, racy>>

\* ~Model, ~Migrator and SqlConn::close call releaseConn.
GiveBack(u) ==
    /\ users[u] # 0
    /\ Use(users[u])
    /\ users' = [users EXCEPT ![u] = 0]
    /\ UNCHANGED <<heap, instance, mutex, at, goal, ptr, owners, throws, scoped, racy>>

\* DB's defaulted copy constructor and assignment.
Copy(o, p) ==
    /\ o # p
    /\ owners[o] # 0 /\ ~Constructing(p)
    /\ owners' = [owners EXCEPT ![p] = owners[o]]
    /\ scoped' = FALSE
    /\ UNCHANGED <<heap, instance, mutex, at, goal, ptr, users, throws, racy, fault>>

\* ~DB and ~Database: delete pool.
DestroyOwner(o) ==
    /\ owners[o] # 0
    /\ Use(owners[o])
    /\ heap' = [heap EXCEPT ![owners[o]].state = "freed"]
    /\ owners' = [owners EXCEPT ![o] = 0]
    /\ scoped' = (scoped /\ ~PoolInUse)
    /\ UNCHANGED <<instance, mutex, at, goal, ptr, users, throws, racy>>

-----------------------------------------------------------------------------
GetInstanceStep(t) ==
    \/ Check(t) \/ Lock(t) \/ Recheck(t) \/ Construct(t) \/ Throw(t)
    \/ Publish(t) \/ Unlock(t) \/ Got(t)

Halted == fault # NoFault /\ UNCHANGED vars

\* Nothing is said about a program once it has used a dead object.
Next ==
    \/ /\ fault = NoFault
       /\ \/ \E t \in Threads : GetInstanceStep(t) \/ LookUp(t)
          \/ \E t \in Threads, o \in Owners : NewOwner(t, o)
          \/ \E t \in Threads, u \in Users : NewMigrator(t, u)
          \/ \E o \in Owners, u \in Users : Borrow(o, u)
          \/ \E u \in Users : GiveBack(u)
          \/ \E o, p \in Owners : Copy(o, p)
          \/ \E o \in Owners : DestroyOwner(o)
    \/ Halted

\* A thread in getInstance() keeps running, and a free mutex is eventually got.
Fairness == \A t \in Threads : WF_vars(fault = NoFault /\ GetInstanceStep(t))

Spec == Init /\ [][Next]_vars /\ Fairness

-----------------------------------------------------------------------------
(* Properties *)

Pointers == 0..Len(heap)

TypeOK ==
    /\ \A i \in DOMAIN heap : heap[i] \in [what : Classes, state : {"raw", "ready", "freed"}]
    /\ instance \in [Classes -> Pointers]
    /\ mutex \in [Classes -> Threads \cup {NoThread}]
    /\ ptr \in [Threads -> Pointers]
    /\ owners \in [Owners -> Pointers] /\ users \in [Users -> Pointers]
    /\ fault \in [what : Classes, state : {"raw", "freed"}] \cup {NoFault}
    /\ scoped \in BOOLEAN /\ racy \subseteq Classes
    /\ \A t \in Threads : at[t] \in {"recheck", "create", "unlock"} => mutex[What(t)] = t

\* getInstance() creates one pool and one configuration in the life of the
\* process, however many threads find the pointer null at the same time and
\* however often reading rules.json fails first.
OneInstance ==
    \A x \in Classes :
        Cardinality({i \in DOMAIN heap : heap[i].what = x /\ (x = "pool" \/ heap[i].state # "freed")}) <= 1

\* What can go wrong with the shared objects, and only for these reasons.  A program
\* with one DB that it neither copies nor destroys before its Models, Migrators and
\* connections never touches an unfinished or deleted pool, although ~DB leaves
\* instance dangling.  The configuration is never deleted.  And an unfinished object,
\* pool or configuration, is reached only if two first calls of getInstance() have
\* overlapped: a program that makes the first one before it starts threads is safe.
ScopedProgramsSafe ==
    /\ scoped => fault.what # "pool"
    /\ fault.state = "freed" => fault.what = "pool"
    /\ fault.state = "raw" => fault.what \in racy

\* Every getInstance() returns or throws, also after a constructor has thrown
\* with the mutex held.
GetInstanceReturns ==
    \A t \in Threads : at[t] # "idle" ~> (at[t] = "idle" \/ fault # NoFault)

-----------------------------------------------------------------------------
(* The inductive invariant behind OneInstance and ScopedProgramsSafe *)

Goals == [what : Classes \cup {"none"}, owner : SUBSET Owners, user : SUBSET Users]

\* A thread in getInstance() knows which object it wants, and the mutex of a
\* class is held by a thread inside its critical section.
ControlInv ==
    /\ heap \in Seq([what : Classes, state : {"raw", "ready", "freed"}])
    /\ at \in [Threads -> {"idle", "check", "lock", "recheck", "create", "unlock", "got"}]
    /\ goal \in [Threads -> Goals]
    /\ throws \in Nat
    /\ \A t \in Threads :
          /\ at[t] = "idle" <=> What(t) = "none"
          /\ \A x \in Classes : mutex[x] = t =>
                What(t) = x /\ at[t] \in {"recheck", "create", "unlock"}

\* A getInstance() is for one owner, one user, or none.
GoalInv ==
    \A t \in Threads :
        /\ What(t) # "pool" => goal[t].owner = {} /\ goal[t].user = {}
        /\ \A o, p \in goal[t].owner : o = p
        /\ goal[t].owner = {} \/ goal[t].user = {}

\* An object of a class is the one instance points to or one that a thread is
\* about to publish; a published configuration is not deleted.
InstanceInv ==
    /\ \A x \in Classes : instance[x] # 0 =>
          /\ heap[instance[x]].what = x
          /\ x = "config" => heap[instance[x]].state # "freed"
    /\ \A i \in DOMAIN heap : heap[i].what = "pool" \/ heap[i].state # "freed" =>
          \/ i = instance[heap[i].what]
          \/ \E t \in Threads : at[t] = "create" /\ ptr[t] = i /\ What(t) = heap[i].what

\* instance, once set, is never set again: everyone's pointer is a copy of it.
PointerInv ==
    /\ \A t \in Threads :
          /\ at[t] = "create" =>
                /\ ptr[t] # 0 /\ heap[ptr[t]].what = What(t)
                /\ instance[What(t)] \in {0, ptr[t]}
                /\ What(t) = "config" => heap[ptr[t]].state # "freed"
          /\ at[t] = "unlock" => instance[What(t)] # 0
          /\ at[t] = "got" => ptr[t] = instance[What(t)] /\ ptr[t] # 0
    /\ \A o \in Owners : owners[o] \in {0, instance["pool"]}
    /\ \A u \in Users : users[u] \in {0, instance["pool"]}

\* Somebody has, or is about to get, a pool that was there before.
PoolHeld ==
    \/ \E o \in Owners : owners[o] # 0
    \/ \E u \in Users : users[u] # 0
    \/ \E t \in Threads : What(t) = "pool" /\ (goal[t].user # {} \/ at[t] = "got")

\* A scoped program has one owner, which is constructed before anybody uses the
\* pool; while anybody has the pool it is complete and not deleted.
ScopeInv ==
    scoped =>
        /\ fault.what # "pool"
        /\ PoolHeld => instance["pool"] # 0 /\ heap[instance["pool"]].state = "ready"
        /\ \A o, p \in Owners : owners[o] # 0 /\ owners[p] # 0 => o = p
        /\ \A t \in Threads : What(t) = "pool" /\ goal[t].user = {} =>
              /\ \A o \in Owners : owners[o] = 0
              /\ \A u \in Users : users[u] = 0
              /\ \A s \in Threads : What(s) = "pool" => s = t
              /\ at[t] \in {"check", "lock", "recheck"} => instance["pool"] = 0
              /\ at[t] = "create" => heap[ptr[t]].state # "freed"
              /\ at[t] # "unlock"

\* An unfinished object is in the hands of the thread that creates it.
RawInv ==
    \A i \in DOMAIN heap : heap[i].state = "raw" =>
        \E s \in Threads : at[s] = "create" /\ ptr[s] = i /\ What(s) = heap[i].what

\* Until its object is complete a class has one thread in getInstance(), unless
\* calls have overlapped.
AloneInv ==
    \A x \in Classes \ racy : ~Complete(x) =>
        \A s, t \in Threads : What(s) = x /\ What(t) = x => s = t

\* What an owner or a user has is finished, and a fault has its cause.
HeldInv ==
    /\ fault = NoFault /\ ((\E o \in Owners : owners[o] # 0) \/ \E u \in Users : users[u] # 0)
          => Complete("pool")
    /\ fault # NoFault => \/ fault.state = "raw" /\ fault.what \in racy
                          \/ fault.state = "freed" /\ fault.what = "pool"

RaceInv == RawInv /\ AloneInv /\ HeldInv

IndInv == TypeOK /\ ControlInv /\ GoalInv /\ InstanceInv /\ PointerInv /\ ScopeInv

=============================================================================
