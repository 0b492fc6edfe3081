-------------------------- MODULE DocumentSequence --------------------------
(***************************************************************************)
(* DocumentSequenceService.next of                                         *)
(* backend/src/document-sequence/document-sequence.service.ts, for one     *)
(* document type.  Its transaction runs at PostgreSQL's default isolation, *)
(* READ COMMITTED: the value it reads may be replaced before it writes.    *)
(*                                                                         *)
(* The row is there as soon as a call has committed, and from then on      *)
(* lastValue is positive: lastValue = 0 stands for the row's absence.      *)
(***************************************************************************)
EXTENDS Naturals

CONSTANT Doc        \* the documents to be numbered; each makes one call of next

VARIABLES
  lastValue,        \* the counter row
  seen,             \* seen[x]: the value the call for x has read
  docNumber,        \* docNumber[x]: the number x has got, 0 while it has none
  rewound           \* history: some call replaced a value that it had not read

numberVars == <<lastValue, seen, docNumber, rewound>>

NumbersOK ==
  /\ lastValue \in Nat
  /\ seen      \in [Doc -> Nat]
  /\ docNumber \in [Doc -> Nat]
  /\ rewound   \in BOOLEAN

NumbersInit ==
  /\ lastValue = 0
  /\ seen      = [x \in Doc |-> 0]
  /\ docNumber = [x \in Doc |-> 0]
  /\ rewound   = FALSE

\* findUnique.
NextReads(x) ==
  /\ seen' = [seen EXCEPT ![x] = lastValue]
  /\ UNCHANGED <<lastValue, docNumber, rewound>>

\* A faulty variant of NextValue: the number is handed out before it is counted up.
SameValue(read) == read

NextValue(read) == read + 1

\* create, when there was no row, and update.  The update names the type only, not the
\* value it replaces.
NextWrites(x) ==
  /\ seen[x] = 0 => lastValue = 0
  /\ lastValue' = NextValue(seen[x])
  /\ docNumber' = [docNumber EXCEPT ![x] = NextValue(seen[x])]
  /\ rewound'   = (rewound \/ lastValue # seen[x])
  /\ UNCHANGED seen

\* create meets a row that another call has created meanwhile: P2002, nothing is done.
NextThrows(x) ==
  /\ seen[x] = 0
  /\ lastValue > 0
  /\ UNCHANGED numberVars

\* Numbers are distinct, and the counter is the highest of them, as long as no call has
\* replaced a value it had not read.
NumbersDistinct ==
  ~rewound =>
    /\ \A x \in Doc : docNumber[x] <= lastValue
    /\ \A x, y \in Doc : x # y /\ docNumber[x] > 0 => docNumber[x] # docNumber[y]
=============================================================================
