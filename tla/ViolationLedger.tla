--------------------------- MODULE ViolationLedger ---------------------------
(***************************************************************************)
(* What the violation logger promises, without threads, locks or retries:  *)
(* a backlog of accepted records in order of acceptance, and the table of  *)
(* stored records.  A record leaves the backlog in one of three ways: a    *)
(* run of the oldest records is stored, in order and all at once; a run of *)
(* the oldest records is abandoned; or, when the backlog is at least Floor *)
(* long, one record is displaced by the record just accepted.  Nothing is  *)
(* invented, stored twice, stored out of order or changed once stored.     *)
(***************************************************************************)
EXTENDS ViolationEvents

CONSTANT Floor     (* smallest backlog at which a record may be displaced  *)

VARIABLES
  backlog,         (* accepted, neither stored nor forgotten               *)
  stored,          (* the rows of the table, in order of insertion         *)
  accepted         (* the calls accepted so far                            *)

ledger == <<backlog, stored, accepted>>

Init ==
  /\ backlog = <<>>
  /\ stored = <<>>
  /\ accepted = {}

(* s without its i-th element.                                             *)
Without(s, i) == SubSeq(s, 1, i - 1) \o SubSeq(s, i + 1, Len(s))

Fresh(e) ==
  /\ e.calls = {e.timestamp}
  /\ e.timestamp \notin accepted
  /\ accepted' = accepted \cup e.calls

Accept(e) ==
  /\ Fresh(e)
  /\ backlog' = Append(backlog, e)
  /\ UNCHANGED stored

Fold(e) ==
  /\ Fresh(e)
  /\ backlog # <<>>
  /\ SameEvent(backlog[Len(backlog)], e)
  /\ backlog' = [backlog EXCEPT ![Len(backlog)] = Coalesced(@, e)]
  /\ UNCHANGED stored

Displace(e) ==
  /\ Fresh(e)
  /\ Len(backlog) >= Floor
  /\ \E i \in 1 .. Len(backlog) : backlog' = Append(Without(backlog, i), e)
  /\ UNCHANGED stored

Persist(n) ==
  /\ stored' = stored \o SubSeq(backlog, 1, n)
  /\ backlog' = SubSeq(backlog, n + 1, Len(backlog))
  /\ UNCHANGED accepted

Abandon(n) ==
  /\ backlog' = SubSeq(backlog, n + 1, Len(backlog))
  /\ UNCHANGED <<stored, accepted>>

Next ==
  \/ \E e \in QueuedViolation : Accept(e) \/ Fold(e) \/ Displace(e)
  \/ \E n \in 1 .. Len(backlog) : Persist(n) \/ Abandon(n)

Spec == Init /\ [][Next]_ledger
=============================================================================
