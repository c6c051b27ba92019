--------------------------- MODULE SessionRegistry ---------------------------
(***************************************************************************)
(* The SessionRegistry of src/src/runtime/native_endpoint.cpp: every       *)
(* admitted session of a server that serves on several contexts, in        *)
(* admission order, with the mark that a newer session of the same         *)
(* identity replaced it.  Each operator is one critical section of its     *)
(* mutex.  An entry names its session by owner context, slot and           *)
(* generation; the weak pointer of an entry expires only after its slot    *)
(* has let the session go, and that call forgets the entry, so expiry      *)
(* needs no state here.                                                    *)
(***************************************************************************)
EXTENDS Naturals, Sequences, FiniteSets, SequencesExt, FiniteSetsExt

Unreplaced(reg, id) ==
  {i \in DOMAIN reg : reg[i].id = id /\ ~reg[i].replaced}

\* The entries to mark so that at most `limit` (zero: any number) remain.
Excess(reg, id, limit) ==
  LET open == Unreplaced(reg, id)
  IN  IF limit = 0 THEN {}
      ELSE {i \in open : Cardinality({j \in open : j > i}) >= limit}

Marked(reg, marks) ==
  [i \in DOMAIN reg |-> IF i \in marks THEN [reg[i] EXCEPT !.replaced = TRUE]
                        ELSE reg[i]]

\* admit(): records the session and marks the identity's oldest beyond limit.
Admitted(reg, entry, limit) ==
  LET added == Append(reg, entry)
  IN  Marked(added, Excess(added, entry.id, limit))

\* The owners admit() returns, to be told after the unlock.
AdmitOwners(reg, entry, limit) ==
  LET added == Append(reg, entry)
  IN  {added[i].loop : i \in Excess(added, entry.id, limit)}

\* One turn of trim()'s loop: the oldest excess entry, if there is one.
TrimVictims(reg, id, limit) ==
  LET excess == Excess(reg, id, limit)
  IN  IF excess = {} THEN {} ELSE {Min(excess)}

IsReplaced(reg, entry) ==
  \E i \in DOMAIN reg : /\ reg[i].replaced
                        /\ [reg[i] EXCEPT !.replaced = FALSE] = entry

\* forget(): the session's entry leaves the registry.
Forgotten(reg, entry) ==
  LET rest[n \in 0..Len(reg)] ==
        IF n = 0 THEN <<>>
        ELSE IF [reg[n] EXCEPT !.replaced = FALSE] = entry THEN rest[n - 1]
        ELSE Append(rest[n - 1], reg[n])
  IN  rest[Len(reg)]
=============================================================================
