---------------------------- MODULE SerialPosting ----------------------------
(***************************************************************************)
(* What posting promises: the ledger as if every posting were one atomic   *)
(* step.  A batch is created pending with all its rows, and later posted   *)
(* in a single step that gives each row, in sequence order, the balance of *)
(* its account at that moment plus its own effect.  LedgerPosting, where   *)
(* postings run concurrently on snapshots, fail and crash, implements it.  *)
(***************************************************************************)
EXTENDS LedgerDomain

CONSTANTS Requests, Null

VARIABLES batches, entries, journal
vars == <<batches, entries, journal>>

Init ==
  /\ batches = [r \in Requests |-> "absent"]
  /\ entries = [r \in Requests |-> <<>>]
  /\ journal = <<>>

Create(r) ==
  /\ batches[r] = "absent"
  /\ batches' = [batches EXCEPT ![r] = "pending"]
  /\ entries' = [entries EXCEPT ![r] = entries'[r]]
  /\ entries'[r] # <<>>
  /\ \A i \in DOMAIN entries'[r] : entries'[r][i].balanceAfter = Null
  /\ UNCHANGED journal

Latest(table, account) ==
  LET ids == UNION {{<<q, i>> : i \in DOMAIN table[q]} : q \in Requests}
      row(e) == table[e[1]][e[2]]
      posted == {e \in ids : row(e).account = account /\ row(e).balanceAfter # Null}
  IN  {row(e).balanceAfter : e \in
         {e \in posted : \A f \in posted : row(f).createdAt <= row(e).createdAt}}
      \cup (IF posted = {} THEN {0} ELSE {})

\* rows is entries[r] with balances that a one-by-one update now may produce.
LegalPosting(r, rows) ==
  /\ DOMAIN rows = DOMAIN entries[r]
  /\ \A i \in DOMAIN rows :
       \E current \in Latest([entries EXCEPT ![r] = SubSeq(rows, 1, i - 1)],
                             rows[i].account) :
         rows[i] = [entries[r][i] EXCEPT !.balanceAfter = Apply(current, rows[i])]

Post(r) ==
  /\ batches[r] = "pending"
  /\ batches' = [batches EXCEPT ![r] = "posted"]
  /\ entries' = [entries EXCEPT ![r] = entries'[r]]
  /\ LegalPosting(r, entries'[r])
  /\ journal' = Append(journal, r)

Next == \E r \in Requests : Create(r) \/ Post(r)

Spec == Init /\ [][Next]_vars
=============================================================================
