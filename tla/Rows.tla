--------------------------------- MODULE Rows ---------------------------------
(***************************************************************************)
(* What the two kinds of repositories are written in: arrays taken from a  *)
(* JavaScript Map, which keeps its rows in the order of insertion, and     *)
(* tables read through Prisma or SQL, which are sets with an ORDER BY.     *)
(*                                                                         *)
(* An id is an ULID, so ids are numbers ordered as they were minted.  A    *)
(* null or an absent field is 0 or the empty string; a row that may not be *)
(* there is a sequence of at most one row.                                 *)
(***************************************************************************)
EXTENDS Integers, Sequences, FiniteSets, StatusFsm

\* input.x ?? row.x, which is also what Prisma does with undefined.
orKeep(given, kept, null) == IF given = null THEN kept ELSE given

\* An optional condition of a filter: !filter.x || row.x === filter.x.
asked(given, value, null) == given = null \/ value = given

\* slice(0, n) or take: n.
take(rows, n) == SubSeq(rows, 1, IF n < Len(rows) THEN n ELSE Len(rows))

\* The first row of an array that passes a test, and the row of a table that does:
\* its unique indexes leave at most one.
find(rows, Test(_)) == take(SelectSeq(rows, Test), 1)
findFirst(table, Test(_)) ==
  LET hits == {r \in table : Test(r)}
  IN  IF hits = {} THEN <<>> ELSE <<CHOOSE r \in hits : TRUE>>

\* A set of rows as a sequence: row i has i - 1 rows before it.
ordered(table, Before(_, _)) ==
  [i \in 1 .. Cardinality(table) |->
     CHOOSE r \in table : Cardinality({o \in table : Before(o, r)}) = i - 1]

asSet(rows) == {rows[i] : i \in DOMAIN rows}
mapped(rows, F(_)) == [i \in DOMAIN rows |-> F(rows[i])]

newerId(a, b) == a.id > b.id
olderId(a, b) == a.id < b.id

\* Map.set: a known id keeps its place.
put(rows, row) ==
  IF \E i \in DOMAIN rows : rows[i].id = row.id
  THEN [i \in DOMAIN rows |-> IF rows[i].id = row.id THEN row ELSE rows[i]]
  ELSE Append(rows, row)

\* UPDATE of the rows that pass a test.
update(table, Test(_), New(_)) == {IF Test(r) THEN New(r) ELSE r : r \in table}

\* What a call leaves behind and what it answers.
result(rows, answer) == [rows |-> rows, answer |-> answer]

\* StatusChangeResult.
refuseChange(reason, current) ==
  [applied |-> FALSE, reason |-> reason, currentStatus |-> current, record |-> <<>>]
applyChange(record) ==
  [applied |-> TRUE, reason |-> "", currentStatus |-> "", record |-> <<record>>]

\* The reason decideMonotonic gives when it does not apply an event.
monotonicReason(current, incoming, occurredAt, lastEventAt) ==
  CASE occurredAt < lastEventAt -> "stale_timestamp"
    [] occurredAt >= lastEventAt /\ current = incoming -> "same_state"
    [] OTHER -> "stale_rank"

\* The two tests of applyStatusChange: the reason to refuse, or "".
refusal(fsm, current, incoming, occurredAt, lastEventAt) ==
  CASE ~decideMonotonic(fsm.ranks, current, incoming, occurredAt, lastEventAt) ->
         monotonicReason(current, incoming, occurredAt, lastEventAt)
    [] decideMonotonic(fsm.ranks, current, incoming, occurredAt, lastEventAt)
         /\ ~checkTransition(fsm.transitions, current, incoming) -> "illegal_transition"
    [] OTHER -> ""

\* A page of at most limit rows out of the rows a keyset query returned, with the
\* cursor of the next page: Key of its last row, or null when nothing is left.
pageOf(rows, limit, Key(_), null) ==
  LET data == take(rows, limit)
  IN  [data |-> data,
       nextCursor |-> IF Len(rows) > limit THEN Key(data[Len(data)]) ELSE null]

idOf(row) == row.id
=============================================================================
