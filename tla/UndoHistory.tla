----------------------------- MODULE UndoHistory -----------------------------
(***************************************************************************)
(* One camera's history of property writes (class UndoHistory,             *)
(* cambridge/src/control.js): a list, oldest first, of writes and of the   *)
(* marks a recall leaves.  The operators map the list to the list.  The    *)
(* coalescing window is a clock, so whether a write still falls into it is *)
(* an argument.  "was" and "of" in an entry are history variables: the     *)
(* settings of the camera before it, and the connection it was made over.  *)
(***************************************************************************)
EXTENDS Naturals, Sequences, SequencesExt

CONSTANTS Limit,   \* entries kept for one camera (50 in the code)
          None     \* a value that is not known

Writes(list) == {i \in DOMAIN list : list[i].kind = "write"}
Marks(list)  == {i \in DOMAIN list : list[i].kind = "mark"}
Newest(S)    == CHOOSE i \in S : \A j \in S : j <= i

(* The items of s at the places in "at", in their order. *)
Sift(s, at) ==
  [k \in 1..Cardinality(at) |-> s[CHOOSE i \in at : Cardinality({j \in at : j <= i}) = k]]

(* Beyond the limit the oldest entry goes. *)
Push(list, entry) ==
  IF Len(list) < Limit THEN Append(list, entry) ELSE Append(Tail(list), entry)

(* Mutant: a write is folded into one made before the last mark. *)
MutFoldable(list, prop) ==
  {i \in Writes(list) : list[i].prop = prop}

(* The writes of the same setting since the last mark. *)
Foldable(list, prop) ==
  {i \in Writes(list) : list[i].prop = prop /\ \A m \in Marks(list) : m < i}

Folds(list, w, soon) ==
  soon /\ w.from # None /\ w.from # w.to /\ Foldable(list, w.prop) # {}

(* record(): a write soon after one of the same setting is folded into it, *)
(* and keeps the older "from".  A previous value that was not known, or    *)
(* that did not change, makes no entry.                                    *)
Record(list, w, soon) ==
  IF Folds(list, w, soon) THEN [list EXCEPT ![Newest(Foldable(list, w.prop))].to = w.to]
  ELSE IF w.from = None \/ w.from = w.to THEN list
  ELSE Push(list, w)

(* popLast(): the newest write; marks are stepped over. *)
PopLast(list) ==
  LET i == Newest(Writes(list)) IN [entry |-> list[i], list |-> RemoveAt(list, i)]

(* The earliest "from" of every setting written at or after place i. *)
Before(list, i) ==
  LET since(p) == {j \in Writes(list) : j >= i /\ list[j].prop = p}
      first(p) == CHOOSE j \in since(p) : \A k \in since(p) : j <= k
  IN [p \in {list[j].prop : j \in {j \in Writes(list) : j >= i}} |-> list[first(p)].from]

(* popToMark(): the newest mark goes with all that follows it. *)
PopToMark(list) ==
  LET m == Newest(Marks(list))
  IN [values |-> Before(list, m), list |-> SubSeq(list, 1, m - 1)]
=============================================================================
