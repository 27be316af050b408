SPECIFICATION Spec
CONSTANTS
    Classes <- MCClasses
INVARIANTS TypeOK IndicesComplete AttributesIndependent NamesFoundAgain
