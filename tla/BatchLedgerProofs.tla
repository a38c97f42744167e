------------------------- MODULE BatchLedgerProofs -------------------------
(***************************************************************************)
(* The attempt ledger and the command lines that share it, for any number  *)
(* of command lines, any schedule, selections, payload builders and ledger *)
(* files.                                                                  *)
(***************************************************************************)
EXTENDS BatchLedger, FiniteSetTheorems, WellFoundedInduction, TLAPS

----------------------------------------------------------------------------
(* The inductive invariant                                                 *)

\* Where a command line is: its file is being made, its batch goes on, it is at an
\* attempt, it has claimed that attempt.
Creating == {"schema", "rows"}
BeforeBatch == {"schema", "rows", "confirm", "closed", "recheck", "batch"}
Owning == {"invoke", "answer", "complete", "unknown"}
AtItem == {"claim"} \cup Owning
InBatch == {"next"} \cup AtItem

Item(x) == x.selected[x.k]

\* Attempt a is completed as x wants it.
Good(x, e) ==
    /\ e.state = "COMPLETED" /\ e.digest = x.digest
    /\ e.outcome = "failed" => x.continue_after_failed

\* What x knows of the file it has open: it is being made by x alone, or it is valid.
FileOK(x, L) ==
    /\ x.db = 0 => x.pc = "idle" /\ x.status # "complete" /\ x.report = NoReport
    /\ x.pc = "schema" => L[x.db] = NoLedger
    /\ x.pc = "rows" =>
           /\ L[x.db].allowed = 1..F /\ L[x.db].event = NoLedger.event
           /\ \E j \in 0..(F - 1) : L[x.db].known = 1..j
    /\ x.db # 0 /\ x.pc \notin Creating => Valid(L[x.db])

\* How far the batch is: what it passed by is completed.
BatchOK(x, L) ==
    /\ x.k # 0
    /\ x.pc \in BeforeBatch => x.k = 1
    /\ x.pc \in AtItem => x.k \in DOMAIN x.selected
    /\ x.pc \in InBatch =>
           /\ \A i \in 1..(x.k - 1) :
                  i \in DOMAIN x.selected => Good(x, L[x.db].event[x.selected[i]])
           /\ \A a \in x.completed : Good(x, L[x.db].event[a])

\* The attempt that x has claimed.
ClaimOK(x, L, C) ==
    x.pc \in Owning =>
        LET e == L[x.db].event[Item(x)]
            n == C[x.db][Item(x)]
        IN  /\ e.digest = x.digest
            /\ e.state = "CLAIMED" \/ (x.pc = "unknown" /\ e.state = "COMPLETED")
            /\ x.pc = "invoke" => n = 0
            /\ x.pc \in {"answer", "complete"} => n = 1

\* What x has reported.
ReportOK(x, L) ==
    /\ x.status = "complete" =>
           \A a \in ToSet(x.selected) :
               L[x.db].event[a].state = "COMPLETED" /\ L[x.db].event[a].digest = x.digest
    /\ \A a \in Ids :
           /\ x.report[a] \in {"COMPLETED", "UNKNOWN"} => L[x.db].event[a].state = x.report[a]
           /\ x.report[a] = "CLAIMED" => L[x.db].event[a].state # "PENDING"

RestOK(x, L) == x \in Run /\ FileOK(x, L) /\ BatchOK(x, L) /\ ReportOK(x, L)

RunOK(x, L, C) == RestOK(x, L) /\ ClaimOK(x, L, C)

\* Two command lines: nobody else has a file that is being made, and no attempt is
\* claimed by both.
Apart(x, y) ==
    /\ x.pc \in Creating => y.db # x.db
    /\ x.pc \in Owning /\ y.pc \in Owning /\ x.db = y.db => Item(x) # Item(y)

Made(L) == {g \in Ledgers : L[g] # NoLedger}

\* The files are numbered in the order they were made; the one that is being made
\* is the next, and the path leads to it.
NumberingOK(R, L, p) ==
    \E n \in Nat :
        /\ Made(L) = 1..n
        /\ \A r \in Runners : R[r].pc = "schema" => R[r].db = n + 1 /\ p = R[r].db

BInv ==
    /\ path \in {0} \cup Ledgers
    /\ ledger \in [Ledgers -> Ledger]
    /\ stale \in BOOLEAN
    /\ calls \in [Ledgers -> [Ids -> Nat]]
    /\ run \in [Runners -> Run]
    /\ \A r \in Runners : RunOK(run[r], ledger, calls)
    /\ \A r, s \in Runners : r # s => Apart(run[r], run[s])
    /\ NumberingOK(run, ledger, path)
    /\ CalledOnce
    /\ ClaimedLedgerIsValid

----------------------------------------------------------------------------
(* Sequences and numbers                                                   *)

\* A set of numbers has a least one.
LEMMA NatMin ==
    ASSUME NEW T, T \subseteq Nat, T # {}
    PROVE  \E x \in T : \A y \in T : x <= y
  <1>. DEFINE R == {p \in Nat \X Nat : p[1] < p[2]}
  <1>1. OpToRel(<, Nat) = R
    BY DEF OpToRel
  <1>2. IsWellFoundedOn(R, Nat)
    BY <1>1, NatLessThanWellFounded
  <1>3. PICK x \in T : \A y \in T : ~(<<y, x>> \in R)
    BY <1>2, WFMin
  <1>4. \A y \in T : ~(y < x)
    BY <1>3
  <1>. QED
    BY <1>4

\* What Min picks (SelectInSeq).
LEMMA MinIsLeast ==
    ASSUME NEW T, T \subseteq Nat, T # {}
    PROVE  Min(T) \in T /\ \A y \in T : Min(T) <= y
  <1>1. PICK x \in T : \A y \in T : x <= y
    BY NatMin
  <1>. QED
    BY <1>1 DEF Min

----------------------------------------------------------------------------
(* What a step of one command line leaves to the others                    *)

\* Only command line r moves.
Moves(r) == run' \in [Runners -> Run] /\ \A s \in Runners \ {r} : run'[s] = run[s]

\* Decisions stay, and so do valid files, and x's file while x makes it.
Grow(x, L, M) ==
    /\ \A g \in Ledgers, a \in Ids :
           /\ L[g].event[a].state \in {"COMPLETED", "UNKNOWN"} => M[g].event[a] = L[g].event[a]
           /\ L[g].event[a].state # "PENDING" => M[g].event[a].state # "PENDING"
    /\ \A g \in Ledgers : Valid(L[g]) => Valid(M[g])
    /\ x.db \in Ledgers /\ x.pc \in Creating => M[x.db] = L[x.db]

\* What a step that makes M and E of L and C keeps for x.
Kept(x, L, M, C, E) ==
    /\ Grow(x, L, M)
    /\ x.pc \in Owning => /\ M[x.db].event[Item(x)] = L[x.db].event[Item(x)]
                          /\ E[x.db][Item(x)] = C[x.db][Item(x)]

\* What a command line knows stays true as the ledgers grow.
LEMMA GrowOK ==
    ASSUME NEW x, NEW L \in [Ledgers -> Ledger], NEW M \in [Ledgers -> Ledger],
           RestOK(x, L), Grow(x, L, M)
    PROVE  RestOK(x, M)
  <1>1. /\ x.db \in {0} \cup Ledgers /\ x.selected \in Seq(Ids) /\ x.completed \in SUBSET Ids
        /\ x.report \in [Ids -> {"none", "CLAIMED", "COMPLETED", "UNKNOWN"}]
    BY DEF RestOK, Run
  <1>2. x.db = 0 => x.pc = "idle" /\ x.status # "complete" /\ x.report = NoReport
    BY DEF RestOK, FileOK
  <1>3. FileOK(x, M)
    BY <1>1, <1>2 DEF RestOK, FileOK, Grow, Creating
  <1>4. \A a \in Ids : Good(x, L[x.db].event[a]) /\ x.db # 0 => Good(x, M[x.db].event[a])
    BY <1>1 DEF Good, Grow
  <1>5. BatchOK(x, M)
    <2>1. CASE x.pc \in InBatch
      <3>1. x.db \in Ledgers
        BY <1>1, <1>2, <2>1 DEF InBatch, AtItem, Owning
      <3>2. \A i \in DOMAIN x.selected : x.selected[i] \in Ids
        BY <1>1
      <3>3. x.pc \notin BeforeBatch
        BY <2>1 DEF InBatch, AtItem, Owning, BeforeBatch
      <3>4. /\ x.k # 0
            /\ x.pc \in AtItem => x.k \in DOMAIN x.selected
            /\ \A i \in 1..(x.k - 1) :
                   i \in DOMAIN x.selected => Good(x, L[x.db].event[x.selected[i]])
            /\ \A a \in x.completed : Good(x, L[x.db].event[a])
        BY <2>1 DEF RestOK, BatchOK
      <3>5. x.db # 0 /\ \A a \in x.completed : a \in Ids
        BY <1>1, <1>2, <2>1 DEF InBatch, AtItem, Owning
      <3>6. \A a \in x.completed : Good(x, M[x.db].event[a])
        BY <1>4, <3>4, <3>5
      <3>7. \A i \in 1..(x.k - 1) :
                i \in DOMAIN x.selected => Good(x, M[x.db].event[x.selected[i]])
        BY <1>4, <3>2, <3>4, <3>5
      <3>. QED
        BY <3>3, <3>4, <3>6, <3>7 DEF BatchOK
    <2>2. CASE x.pc \notin InBatch
      BY <2>2 DEF RestOK, BatchOK, InBatch
    <2>. QED
      BY <2>1, <2>2
  <1>7. ReportOK(x, M)
    <2>1. \A a \in ToSet(x.selected) : a \in Ids
      BY <1>1 DEF ToSet
    <2>2. CASE x.db = 0
      BY <1>1, <1>2, <2>2 DEF ReportOK, NoReport
    <2>3. CASE x.db # 0
      BY <1>1, <2>1, <2>3 DEF RestOK, ReportOK, Grow
    <2>. QED
      BY <2>2, <2>3
  <1>. QED
    BY <1>3, <1>5, <1>7 DEF RestOK

\* A command line that does not move is none the worse.
LEMMA OthersOK ==
    ASSUME NEW x, NEW L \in [Ledgers -> Ledger], NEW M \in [Ledgers -> Ledger], NEW C, NEW E,
           RunOK(x, L, C), Kept(x, L, M, C, E)
    PROVE  RunOK(x, M, E)
  <1>1. RestOK(x, M)
    BY GrowOK DEF RunOK, Kept
  <1>2. ClaimOK(x, M, E)
    BY DEF RunOK, ClaimOK, Kept
  <1>. QED
    BY <1>1, <1>2 DEF RunOK

\* A step of one command line.
LEMMA StepInv ==
    ASSUME BInv, NEW r \in Runners, Moves(r),
           path' \in {0} \cup Ledgers, stale' \in BOOLEAN,
           ledger' \in [Ledgers -> Ledger], calls' \in [Ledgers -> [Ids -> Nat]],
           RunOK(run'[r], ledger', calls'),
           \A s \in Runners \ {r} : /\ Kept(run[s], ledger, ledger', calls, calls')
                                    /\ Apart(run'[r], run[s]) /\ Apart(run[s], run'[r]),
           NumberingOK(run', ledger', path'), CalledOnce', ClaimedLedgerIsValid'
    PROVE  BInv'
  <1>1. ASSUME NEW s \in Runners
        PROVE  RunOK(run'[s], ledger', calls')
    <2>1. CASE s # r
      BY <2>1, OthersOK DEF BInv, Moves
    <2>. QED
      BY <2>1
  <1>2. ASSUME NEW s \in Runners, NEW t \in Runners, s # t
        PROVE  Apart(run'[s], run'[t])
    BY <1>2 DEF BInv, Moves
  <1>. QED
    BY <1>1, <1>2 DEF BInv, Moves

\* A step that changes neither the files nor the calls.
LEMMA QuietInv ==
    ASSUME BInv, NEW r \in Runners, Moves(r), UNCHANGED <<ledger, calls>>,
           path' = path \/ (path' = 0 /\ \A s \in Runners \ {r} : run[s].pc # "schema"),
           stale' \in BOOLEAN,
           RunOK(run'[r], ledger, calls),
           run'[r].pc \notin Creating,
           \/ run'[r].db \in {0, run[r].db}
           \/ Valid(ledger[run'[r].db]),
           run'[r].pc \in Owning =>
               run[r].pc \in Owning /\ run'[r].db = run[r].db /\ Item(run'[r]) = Item(run[r])
    PROVE  BInv'
  <1>1. \A s \in Runners \ {r} : Kept(run[s], ledger, ledger', calls, calls')
    BY DEF Kept, Grow
  <1>2. ASSUME NEW s \in Runners \ {r}
        PROVE  Apart(run'[r], run[s])
    BY DEF BInv, Apart
  <1>3. ASSUME NEW s \in Runners \ {r}
        PROVE  Apart(run[s], run'[r])
    <2>1. run[s].pc \in Creating => ~Valid(ledger[run[s].db]) /\ run[s].db # 0
      <3>1. RunOK(run[s], ledger, calls)
        BY DEF BInv
      <3>2. CASE run[s].pc = "schema"
        BY <3>1, <3>2 DEF RunOK, RestOK, FileOK, NoLedger, Valid
      <3>3. CASE run[s].pc = "rows"
        BY <3>1, <3>3, BatchAssumption DEF RunOK, RestOK, FileOK, Valid, Ids
      <3>. QED
        BY <3>2, <3>3 DEF Creating
    <2>2. Apart(run[s], run[r]) /\ Apart(run[r], run[s])
      BY DEF BInv
    <2>. QED
      BY <2>1, <2>2 DEF Apart
  <1>4. NumberingOK(run', ledger', path')
    <2>1. PICK n \in Nat :
            /\ Made(ledger) = 1..n
            /\ \A s \in Runners : run[s].pc = "schema" => run[s].db = n + 1 /\ path = run[s].db
      BY DEF BInv, NumberingOK
    <2>2. \A s \in Runners : run'[s].pc = "schema" => run'[s].db = n + 1 /\ path' = run'[s].db
      BY <2>1 DEF Moves, Creating
    <2>. QED
      BY <2>1, <2>2 DEF NumberingOK
  <1>5. CalledOnce' /\ ClaimedLedgerIsValid'
    BY DEF BInv, CalledOnce, ClaimedLedgerIsValid
  <1>. QED
    BY <1>1, <1>2, <1>3, <1>4, <1>5, StepInv DEF BInv

----------------------------------------------------------------------------
(* What a command line becomes                                             *)

Pcs == BeforeBatch \cup InBatch \cup {"idle"}
Statuses == {"none", "complete", "stopped-failed", "stopped-unknown", "stopped-preflight",
             "rejected"}

\* Goto moves r to another point.
LEMMA GotoIs ==
    ASSUME run \in [Runners -> Run], NEW r \in Runners, NEW p \in Pcs, Goto(r, p)
    PROVE  Moves(r) /\ run'[r] = [run[r] EXCEPT !.pc = p]
  <1>0. run[r] \in Run
    OBVIOUS
  <1>1. [run[r] EXCEPT !.pc = p] \in Run
    BY <1>0 DEF Run, Pcs, BeforeBatch, InBatch, AtItem, Owning
  <1>2. run' = [run EXCEPT ![r] = [run[r] EXCEPT !.pc = p]]
    BY DEF Goto
  <1>. QED
    BY <1>1, <1>2 DEF Moves

\* The record of a command line that has ended (Ends).
EndOf(x, status) ==
    [x EXCEPT !.pc = "idle", !.status = status,
              !.report = IF status = "rejected" THEN NoReport ELSE @]

\* The record of a command line that has ended is one.
LEMMA EndOfIsRun == ASSUME NEW x \in Run, NEW status \in Statuses PROVE EndOf(x, status) \in Run
  <1>. DEFINE R == IF status = "rejected" THEN NoReport ELSE x.report
  <1>1. R \in [Ids -> {"none", "CLAIMED", "COMPLETED", "UNKNOWN"}]
    BY DEF Run, NoReport
  <1>2. EndOf(x, status) = [x EXCEPT !.pc = "idle", !.status = status, !.report = R]
    BY DEF EndOf, Run
  <1>. HIDE DEF R
  <1>. QED
    BY <1>1, <1>2 DEF Run, Statuses

\* Ends ends r.
LEMMA EndsIs ==
    ASSUME run \in [Runners -> Run], NEW r \in Runners, NEW status \in Statuses, Ends(r, status)
    PROVE  Moves(r) /\ run'[r] = EndOf(run[r], status)
  <1>1. run[r] \in Run
    OBVIOUS
  <1>2. EndOf(run[r], status) \in Run
    BY <1>1, EndOfIsRun
  <1>3. run' = [run EXCEPT ![r] = EndOf(run[r], status)]
    BY DEF Ends, EndOf
  <1>. QED
    BY <1>2, <1>3 DEF Moves

\* The next point of a command line that keeps all else.
LEMMA PcOK ==
    ASSUME NEW x, NEW L, NEW C, RestOK(x, L), x.db # 0, x.pc \notin Creating,
           NEW p \in Pcs \ Creating,
           p \in BeforeBatch => x.pc \in BeforeBatch,
           p \in AtItem => x.k \in DOMAIN x.selected,
           p \in InBatch => x.pc \in InBatch,
           ClaimOK([x EXCEPT !.pc = p], L, C)
    PROVE  RunOK([x EXCEPT !.pc = p], L, C)
  <1>. DEFINE y == [x EXCEPT !.pc = p]
  <1>1. y \in Run
    BY DEF RunOK, RestOK, Run, Pcs, BeforeBatch, InBatch, AtItem, Owning
  <1>2. /\ y.pc = p /\ y.db = x.db /\ y.selected = x.selected /\ y.digest = x.digest
        /\ y.continue_after_failed = x.continue_after_failed /\ y.completed = x.completed
        /\ y.k = x.k /\ y.status = x.status /\ y.report = x.report
    BY DEF RunOK, RestOK, Run
  <1>. HIDE DEF y
  <1>3. FileOK(y, L)
    BY <1>2 DEF RunOK, RestOK, FileOK, Creating
  <1>4. BatchOK(y, L)
    BY <1>2 DEF RunOK, RestOK, BatchOK, Good
  <1>5. ReportOK(y, L)
    BY <1>2 DEF RunOK, RestOK, ReportOK
  <1>6. ClaimOK(y, L, C)
    BY DEF y
  <1>7. RunOK(y, L, C)
    BY <1>1, <1>3, <1>4, <1>5, <1>6 DEF RunOK, RestOK
  <1>. QED
    BY <1>7 DEF y

\* A command line that ends, with what it has reported or with an error.
LEMMA EndOK ==
    ASSUME NEW x, NEW L, NEW C, RestOK(x, L), x.db # 0, x.pc \notin Creating,
           NEW status \in Statuses,
           status = "complete" =>
               \A a \in ToSet(x.selected) :
                   L[x.db].event[a].state = "COMPLETED" /\ L[x.db].event[a].digest = x.digest
    PROVE  RunOK(EndOf(x, status), L, C)
  <1>. DEFINE y == EndOf(x, status)
  <1>1. y \in Run
    BY EndOfIsRun DEF RestOK
  <1>2. /\ y.pc = "idle" /\ y.db = x.db /\ y.selected = x.selected /\ y.digest = x.digest
        /\ y.status = status /\ y.k = x.k
        /\ y.report = IF status = "rejected" THEN NoReport ELSE x.report
    BY DEF RunOK, RestOK, Run, EndOf
  <1>. HIDE DEF y
  <1>3. FileOK(y, L)
    BY <1>2 DEF RunOK, RestOK, FileOK, Creating
  <1>4. BatchOK(y, L) /\ ClaimOK(y, L, C)
    BY <1>2 DEF RunOK, RestOK, BatchOK, ClaimOK, BeforeBatch, InBatch, AtItem, Owning
  <1>5. ReportOK(y, L)
    BY <1>2 DEF RunOK, RestOK, ReportOK, NoReport
  <1>6. RunOK(y, L, C)
    BY <1>1, <1>3, <1>4, <1>5 DEF RunOK, RestOK
  <1>. QED
    BY <1>6 DEF y

\* What ends a command line.
LEMMA EndInv ==
    ASSUME BInv, NEW r \in Runners, run[r].pc # "idle", run[r].pc \notin Creating,
           NEW status \in Statuses, Ends(r, status), UNCHANGED <<ledger, stale, calls>>,
           path' = path \/ (path' = 0 /\ \A s \in Runners \ {r} : run[s].pc # "schema"),
           status = "complete" =>
               \A a \in ToSet(run[r].selected) :
                   State(r, a) = "COMPLETED" /\ Event(r, a).digest = run[r].digest
    PROVE  BInv'
  <1>1. Moves(r) /\ run'[r] = EndOf(run[r], status)
    BY EndsIs DEF BInv
  <1>2. run[r].db # 0 /\ RunOK(run[r], ledger, calls) /\ RestOK(run[r], ledger)
    BY DEF BInv, RunOK, RestOK, FileOK
  <1>3. RunOK(run'[r], ledger, calls)
    BY <1>1, <1>2, EndOK DEF State, Event
  <1>4. run'[r].pc = "idle" /\ run'[r].db = run[r].db
    BY <1>1, <1>2 DEF RunOK, RestOK, Run, EndOf
  <1>. QED
    BY <1>1, <1>3, <1>4, QuietInv DEF BInv, Creating, Owning

\* What only leads on.
LEMMA GotoInv ==
    ASSUME BInv, NEW r \in Runners, run[r].pc # "idle", run[r].pc \notin Creating,
           NEW p \in Pcs \ Creating, Goto(r, p), UNCHANGED <<path, ledger, stale, calls>>,
           p \in BeforeBatch => run[r].pc \in BeforeBatch,
           p \in AtItem => run[r].k \in DOMAIN run[r].selected,
           p \in InBatch => run[r].pc \in InBatch,
           p \in Owning => p = "unknown" /\ run[r].pc \in Owning
    PROVE  BInv'
  <1>1. Moves(r) /\ run'[r] = [run[r] EXCEPT !.pc = p]
    BY GotoIs DEF BInv
  <1>2. run[r].db # 0 /\ RunOK(run[r], ledger, calls) /\ RestOK(run[r], ledger)
    BY DEF BInv, RunOK, RestOK, FileOK
  <1>3. /\ run'[r].pc = p /\ run'[r].db = run[r].db /\ Item(run'[r]) = Item(run[r])
        /\ run'[r].digest = run[r].digest
    BY <1>1, <1>2 DEF RunOK, RestOK, Run, Item
  <1>4. ClaimOK(run'[r], ledger, calls)
    BY <1>2, <1>3 DEF RunOK, RestOK, ClaimOK
  <1>5. RunOK(run'[r], ledger, calls)
    BY <1>1, <1>2, <1>4, PcOK
  <1>. QED
    BY <1>1, <1>3, <1>5, QuietInv DEF BInv

----------------------------------------------------------------------------
(* The steps that only move a command line                                 *)

\* Decline.
LEMMA DeclineInv == ASSUME BInv, NEW r \in Runners, Decline(r) PROVE BInv'
  <1>1. CASE run[r].fresh
    BY <1>1, GotoInv DEF Decline, Creating, Pcs, BeforeBatch, InBatch, AtItem, Owning
  <1>2. CASE ~run[r].fresh
    BY <1>2, EndInv DEF Decline, Creating, Statuses
  <1>. QED
    BY <1>1, <1>2

\* Unlink: the file at the path is nobody's file in the making.
LEMMA UnlinkInv == ASSUME BInv, NEW r \in Runners, Unlink(r) PROVE BInv'
  <1>1. path' = path \/ (path' = 0 /\ \A s \in Runners \ {r} : run[s].pc # "schema")
    <2>1. CASE Attached(r)
      <3>1. ASSUME NEW s \in Runners \ {r}, run[s].pc = "schema"
            PROVE  FALSE
        <4>1. run[s].db = path
          BY <3>1 DEF BInv, NumberingOK
        <4>2. run[r].db # run[s].db
          BY <3>1 DEF BInv, Apart, Creating
        <4>. QED
          BY <2>1, <4>1, <4>2 DEF Attached
      <3>. QED
        BY <2>1, <3>1 DEF Unlink
    <2>2. CASE ~Attached(r)
      BY <2>2 DEF Unlink
    <2>. QED
      BY <2>1, <2>2
  <1>. QED
    BY <1>1, EndInv DEF Unlink, Creating, Statuses

\* Recheck.
LEMMA RecheckInv == ASSUME BInv, NEW r \in Runners, Recheck(r) PROVE BInv'
  <1>1. CASE Goto(r, "batch")
    BY <1>1, GotoInv DEF Recheck, Creating, Pcs, BeforeBatch, InBatch, AtItem, Owning
  <1>2. CASE Ends(r, "rejected")
    BY <1>2, EndInv DEF Recheck, Creating, Statuses
  <1>. QED
    BY <1>1, <1>2 DEF Recheck

\* Interrupt.
LEMMA InterruptInv == ASSUME BInv, NEW r \in Runners, Interrupt(r) PROVE BInv'
  <1>1. CASE run[r].pc = "invoke" /\ Goto(r, "unknown")
    <2>1. run[r].k \in DOMAIN run[r].selected
      BY <1>1 DEF BInv, RunOK, RestOK, BatchOK, AtItem, Owning
    <2>. QED
      BY <1>1, <2>1, GotoInv
        DEF Interrupt, Creating, Pcs, BeforeBatch, InBatch, AtItem, Owning
  <1>2. CASE run[r].pc \in {"batch", "next", "claim", "invoke", "unknown"} /\ Ends(r, "rejected")
    BY <1>2, EndInv DEF Interrupt, Creating, Statuses
  <1>. QED
    BY <1>1, <1>2 DEF Interrupt

\* The record of a command line whose executor returned o (Answer).
Returned(x, o) == [x EXCEPT !.pc = "complete", !.answer = o]

\* Answer.
LEMMA AnswerInv == ASSUME BInv, NEW r \in Runners, Answer(r) PROVE BInv'
  <1>0. /\ run[r].k \in DOMAIN run[r].selected /\ run[r].db # 0
        /\ run[r] \in Run /\ RunOK(run[r], ledger, calls)
        /\ run[r].pc = "answer" /\ UNCHANGED <<path, ledger, stale, calls>>
    BY DEF BInv, RunOK, RestOK, BatchOK, FileOK, AtItem, Owning, Answer
  <1>1. CASE Goto(r, "unknown")
    BY <1>0, <1>1, GotoInv DEF Creating, Pcs, BeforeBatch, InBatch, AtItem, Owning
  <1>2. ASSUME NEW o \in Outcomes,
               run' = [run EXCEPT ![r].pc = "complete", ![r].answer = o]
        PROVE  BInv'
    <2>. DEFINE y == Returned(run[r], o)
    <2>1. y \in Run
      BY <1>0 DEF Returned, Run
    <2>2. /\ y.pc = "complete" /\ y.db = run[r].db /\ y.selected = run[r].selected
          /\ y.digest = run[r].digest /\ y.continue_after_failed = run[r].continue_after_failed
          /\ y.completed = run[r].completed /\ y.k = run[r].k /\ y.status = run[r].status
          /\ y.report = run[r].report
      BY <1>0 DEF Returned, Run
    <2>3. run' = [run EXCEPT ![r] = y]
      BY <1>2 DEF Returned
    <2>. HIDE DEF y
    <2>4. Moves(r) /\ run'[r] = y
      BY <2>1, <2>3 DEF Moves, BInv
    <2>5. FileOK(y, ledger) /\ ReportOK(y, ledger)
      BY <1>0, <2>2 DEF RunOK, RestOK, FileOK, ReportOK, Creating
    <2>6. BatchOK(y, ledger)
      <3>1. \A e : Good(y, e) <=> Good(run[r], e)
        BY <2>2 DEF Good
      <3>2. /\ y.pc \in InBatch /\ run[r].pc \in InBatch
            /\ y.pc \notin BeforeBatch
        BY <1>0, <2>2 DEF BeforeBatch, InBatch, AtItem, Owning
      <3>. QED
        BY <1>0, <2>2, <3>1, <3>2 DEF RunOK, RestOK, BatchOK
    <2>7. Item(y) = Item(run[r])
      BY <2>2 DEF Item
    <2>8. ClaimOK(y, ledger, calls)
      BY <1>0, <2>2, <2>7 DEF RunOK, RestOK, ClaimOK, Owning
    <2>9. RunOK(y, ledger, calls)
      BY <2>1, <2>5, <2>6, <2>8 DEF RunOK, RestOK
    <2>. QED
      BY <1>0, <2>2, <2>4, <2>7, <2>9, QuietInv DEF BInv, Creating, Owning
  <1>. QED
    BY <1>1, <1>2 DEF Answer

\* The record of a command line that passes by an attempt that was completed (NextItem).
Skipped(x) == [x EXCEPT !.k = @ + 1, !.report[Item(x)] = "COMPLETED"]

\* NextItem.
LEMMA NextItemInv == ASSUME BInv, NEW r \in Runners, NextItem(r) PROVE BInv'
  <1>. DEFINE x == run[r]
  <1>0. /\ x.db # 0 /\ x \in Run /\ RunOK(x, ledger, calls)
        /\ x.pc = "next" /\ UNCHANGED <<path, ledger, stale, calls>>
    BY DEF BInv, RunOK, RestOK, FileOK, NextItem
  <1>1. /\ x.k \in Nat /\ x.k # 0 /\ x.selected \in Seq(Ids)
        /\ \A i \in 1..(x.k - 1) :
               i \in DOMAIN x.selected => Good(x, ledger[x.db].event[x.selected[i]])
        /\ \A a \in x.completed : Good(x, ledger[x.db].event[a])
    BY <1>0 DEF RunOK, RestOK, BatchOK, Run, InBatch
  <1>2. CASE x.k > Len(x.selected) /\ Ends(r, "complete")
    <2>1. \A a \in ToSet(x.selected) : Good(x, ledger[x.db].event[a])
      BY <1>1, <1>2 DEF ToSet
    <2>. QED
      BY <1>0, <1>2, <2>1, EndInv DEF Creating, Statuses, Good, State, Event
  <1>3. CASE x.k <= Len(x.selected) /\ Goto(r, "claim")
    <2>1. x.k \in DOMAIN x.selected
      BY <1>1, <1>3
    <2>. QED
      BY <1>0, <1>3, <2>1, GotoInv DEF Creating, Pcs, BeforeBatch, InBatch, AtItem, Owning
  <1>4. CASE Ends(r, "stopped-preflight")
    BY <1>0, <1>4, EndInv DEF Creating, Statuses
  <1>5. CASE /\ x.k <= Len(x.selected) /\ Current(r) \in x.completed
             /\ run' = [run EXCEPT ![r].k = @ + 1, ![r].report[Current(r)] = "COMPLETED"]
    <2>. DEFINE y == Skipped(x)
    <2>1. x.k \in DOMAIN x.selected /\ Item(x) \in Ids /\ Item(x) = Current(r)
      BY <1>1, <1>5 DEF Item, Current
    <2>2. /\ y.pc = "next" /\ y.db = x.db /\ y.selected = x.selected
          /\ y.digest = x.digest /\ y.continue_after_failed = x.continue_after_failed
          /\ y.completed = x.completed /\ y.k = x.k + 1 /\ y.status = x.status
          /\ y.report = [x.report EXCEPT ![Item(x)] = "COMPLETED"]
      BY <1>0 DEF Skipped, Run
    <2>3. y \in Run
      <3>1. [x.report EXCEPT ![Item(x)] = "COMPLETED"]
                \in [Ids -> {"none", "CLAIMED", "COMPLETED", "UNKNOWN"}]
        BY <1>0, <2>1 DEF Run
      <3>2. x.k + 1 \in Nat
        BY <1>1
      <3>. QED
        BY <1>0, <3>1, <3>2 DEF Skipped, Run
    <2>4. run' = [run EXCEPT ![r] = y]
      BY <1>5, <2>1 DEF Skipped
    <2>. HIDE DEF y
    <2>5. Moves(r) /\ run'[r] = y
      BY <2>3, <2>4 DEF Moves, BInv
    <2>6. Good(x, ledger[x.db].event[Item(x)])
      BY <1>1, <1>5, <2>1
    <2>7. FileOK(y, ledger)
      BY <1>0, <2>2 DEF RunOK, RestOK, FileOK, Creating
    <2>8. ReportOK(y, ledger)
      <3>1. x.report \in [Ids -> {"none", "CLAIMED", "COMPLETED", "UNKNOWN"}]
        BY <1>0 DEF Run
      <3>2. \A a \in Ids \ {Item(x)} : y.report[a] = x.report[a]
        BY <2>1, <2>2, <3>1
      <3>3. y.report[Item(x)] = "COMPLETED" /\ ledger[y.db].event[Item(x)].state = "COMPLETED"
        BY <2>1, <2>2, <2>6, <3>1 DEF Good
      <3>4. ReportOK(x, ledger)
        BY <1>0 DEF RunOK, RestOK
      <3>. QED
        BY <2>1, <2>2, <3>2, <3>3, <3>4 DEF ReportOK
    <2>9. BatchOK(y, ledger) /\ ClaimOK(y, ledger, calls)
      <3>1. \A e : Good(x, e) <=> Good(y, e)
        BY <2>2 DEF Good
      <3>2. \A i \in 1..(y.k - 1) : i \in 1..(x.k - 1) \/ i = x.k
        BY <1>1, <2>2
      <3>3. \A i \in 1..(y.k - 1) :
               i \in DOMAIN y.selected => Good(y, ledger[y.db].event[y.selected[i]])
        BY <1>1, <2>2, <2>6, <3>1, <3>2 DEF Item
      <3>4. \A a \in y.completed : Good(y, ledger[y.db].event[a])
        BY <1>1, <2>2, <3>1
      <3>5. y.k # 0
        BY <1>1, <2>2
      <3>. QED
        BY <2>2, <3>3, <3>4, <3>5 DEF BatchOK, ClaimOK, BeforeBatch, AtItem, Owning
    <2>10. RunOK(y, ledger, calls)
      BY <2>3, <2>7, <2>8, <2>9 DEF RunOK, RestOK
    <2>. QED
      BY <1>0, <2>2, <2>5, <2>10, QuietInv DEF BInv, Creating, Owning
  <1>. QED
    BY <1>2, <1>3, <1>4, <1>5 DEF NextItem

----------------------------------------------------------------------------
(* The first look at the ledger                                            *)

\* The place where the batch stops, 0 when it does not (StartBatch's first).
First(r) == SelectInSeq(run[r].selected, LAMBDA a : Mismatch(r, a) \/ Stops(r, a))

\* What SelectInSeq finds.
LEMMA FirstIs ==
    ASSUME NEW r, run[r].selected \in Seq(Ids)
    PROVE  /\ First(r) = 0 => \A a \in ToSet(run[r].selected) : ~Mismatch(r, a) /\ ~Stops(r, a)
           /\ First(r) # 0 => First(r) \in DOMAIN run[r].selected
  <1>. DEFINE s == run[r].selected
              P(a) == Mismatch(r, a) \/ Stops(r, a)
              I == {i \in 1..Len(s) : P(s[i])}
  <1>1. First(r) = IF I # {} THEN Min(I) ELSE 0
    BY DEF First, SelectInSeq
  <1>. HIDE DEF P
  <1>2. CASE I = {}
    <2>1. \A i \in 1..Len(s) : ~P(s[i])
      BY <1>2
    <2>2. \A a \in ToSet(s) : ~P(a)
      BY <2>1 DEF ToSet
    <2>3. First(r) = 0
      BY <1>1, <1>2
    <2>. QED
      BY <2>2, <2>3 DEF P
  <1>3. CASE I # {}
    <2>1. I \subseteq Nat
      OBVIOUS
    <2>2. Min(I) \in I
      BY <1>3, <2>1, MinIsLeast
    <2>3. Min(I) \in 1..Len(s)
      BY <2>2
    <2>. QED
      BY <1>1, <1>3, <2>3
  <1>. QED
    BY <1>2, <1>3

\* The record of a command line that begins its batch with C completed.
Started(x, C) == [x EXCEPT !.pc = "next", !.completed = C]

\* The batch goes on.
LEMMA StartedInv ==
    ASSUME BInv, NEW r \in Runners, run[r].pc = "batch", UNCHANGED <<path, ledger, stale, calls>>,
           NEW D \in SUBSET Ids, \A a \in D : Good(run[r], ledger[run[r].db].event[a]),
           run' = [run EXCEPT ![r].pc = "next", ![r].completed = D]
    PROVE  BInv'
  <1>. DEFINE x == run[r]  y == Started(x, D)
  <1>1. x \in Run /\ x.db # 0 /\ RunOK(x, ledger, calls)
    BY DEF BInv, RunOK, RestOK, FileOK
  <1>2. x.k = 1
    BY <1>1 DEF RunOK, RestOK, BatchOK, BeforeBatch
  <1>3. /\ y.pc = "next" /\ y.db = x.db /\ y.selected = x.selected
        /\ y.digest = x.digest /\ y.continue_after_failed = x.continue_after_failed
        /\ y.completed = D /\ y.k = 1 /\ y.status = x.status /\ y.report = x.report
    BY <1>1, <1>2 DEF Started, Run
  <1>4. y \in Run
    BY <1>1 DEF Started, Run
  <1>5. run' = [run EXCEPT ![r] = y]
    BY DEF Started
  <1>. HIDE DEF y
  <1>6. Moves(r) /\ run'[r] = y
    BY <1>4, <1>5 DEF Moves, BInv
  <1>7. FileOK(y, ledger) /\ ReportOK(y, ledger)
    BY <1>1, <1>3 DEF RunOK, RestOK, FileOK, ReportOK, Creating
  <1>8. BatchOK(y, ledger) /\ ClaimOK(y, ledger, calls)
    <2>1. \A e : Good(y, e) <=> Good(x, e)
      BY <1>3 DEF Good
    <2>2. \A i \in 1..(y.k - 1) : FALSE
      BY <1>3
    <2>. QED
      BY <1>3, <2>1, <2>2 DEF BatchOK, ClaimOK, BeforeBatch, AtItem, Owning
  <1>9. RunOK(y, ledger, calls)
    BY <1>4, <1>7, <1>8 DEF RunOK, RestOK
  <1>. QED
    BY <1>3, <1>6, <1>9, QuietInv DEF BInv, Creating, Owning

\* The record of a command line that ends with the report R.
Reported(x, status, R) == [x EXCEPT !.pc = "idle", !.status = status, !.report = R]

\* The batch stops before it has begun: what it shows is what the ledger holds.
LEMMA StoppedInv ==
    ASSUME BInv, NEW r \in Runners, run[r].pc = "batch", UNCHANGED <<path, ledger, stale, calls>>,
           NEW T \in SUBSET Ids, NEW status \in {"stopped-failed", "stopped-unknown"},
           run' = [run EXCEPT ![r].pc = "idle", ![r].status = status,
                     ![r].report = [a \in Ids |->
                        IF a \in T /\ State(r, a) # "PENDING" THEN State(r, a) ELSE "none"]]
    PROVE  BInv'
  <1>. DEFINE x == run[r]
              R == [a \in Ids |->
                      IF a \in T /\ State(r, a) # "PENDING" THEN State(r, a) ELSE "none"]
              y == Reported(x, status, R)
  <1>1. x \in Run /\ x.db # 0 /\ RunOK(x, ledger, calls)
    BY DEF BInv, RunOK, RestOK, FileOK
  <1>2. \A a \in Ids : State(r, a) \in {"PENDING", "CLAIMED", "COMPLETED", "UNKNOWN"}
    <2>1. x.db \in Ledgers
      BY <1>1 DEF Run
    <2>. QED
      BY <2>1 DEF BInv, State, Event, Ledger, Attempt
  <1>3. R \in [Ids -> {"none", "CLAIMED", "COMPLETED", "UNKNOWN"}]
    BY <1>2
  <1>4. \A a \in Ids : R[a] # "none" => R[a] = State(r, a) /\ State(r, a) # "PENDING"
    OBVIOUS
  <1>5. run' = [run EXCEPT ![r] = y]
    BY DEF Reported
  <1>. HIDE DEF R
  <1>6. /\ y.pc = "idle" /\ y.db = x.db /\ y.status = status /\ y.report = R /\ y.k = x.k
    BY <1>1 DEF Reported, Run
  <1>7. y \in Run
    BY <1>1, <1>3 DEF Reported, Run
  <1>. HIDE DEF y
  <1>8. Moves(r) /\ run'[r] = y
    BY <1>5, <1>7 DEF Moves, BInv
  <1>9. FileOK(y, ledger)
    BY <1>1, <1>6 DEF RunOK, RestOK, FileOK, Creating
  <1>10. BatchOK(y, ledger) /\ ClaimOK(y, ledger, calls)
    BY <1>1, <1>6 DEF RunOK, RestOK, BatchOK, ClaimOK, BeforeBatch, InBatch, AtItem, Owning
  <1>11. ReportOK(y, ledger)
    BY <1>4, <1>6 DEF ReportOK, State, Event
  <1>12. RunOK(y, ledger, calls)
    BY <1>7, <1>9, <1>10, <1>11 DEF RunOK, RestOK
  <1>. QED
    BY <1>6, <1>8, <1>12, QuietInv DEF BInv, Creating, Owning

\* StartBatch.
LEMMA StartBatchInv == ASSUME BInv, NEW r \in Runners, StartBatch(r) PROVE BInv'
  <1>. DEFINE s == run[r].selected
  <1>0. run[r] \in Run
    BY DEF BInv
  <1>1. /\ run[r].selected \in Seq(Ids) /\ ToSet(s) \subseteq Ids
        /\ run[r].pc = "batch" /\ UNCHANGED <<path, ledger, stale, calls>>
    <2>1. s \in Seq(Ids)
      BY <1>0 DEF Run
    <2>2. ToSet(s) \subseteq Ids
      BY <2>1 DEF ToSet
    <2>. QED
      BY <2>1, <2>2 DEF StartBatch
  <1>2. \/ /\ First(r) = 0
           /\ run' = [run EXCEPT ![r].pc = "next",
                       ![r].completed = {a \in ToSet(s) : State(r, a) = "COMPLETED"}]
        \/ /\ First(r) # 0
           /\ run' = [run EXCEPT ![r].pc = "idle",
                       ![r].status = IF State(r, s[First(r)]) = "COMPLETED"
                                     THEN "stopped-failed" ELSE "stopped-unknown",
                       ![r].report = [a \in Ids |->
                             IF a \in ToSet(SubSeq(s, 1, First(r))) /\ State(r, a) # "PENDING"
                             THEN State(r, a) ELSE "none"]]
        \/ Ends(r, "rejected")
    BY DEF StartBatch, First
  <1>3. CASE /\ First(r) = 0
             /\ run' = [run EXCEPT ![r].pc = "next",
                         ![r].completed = {a \in ToSet(s) : State(r, a) = "COMPLETED"}]
    <2>. DEFINE D == {a \in ToSet(s) : State(r, a) = "COMPLETED"}
    <2>1. \A a \in D : ~Mismatch(r, a) /\ ~Stops(r, a)
      BY <1>1, <1>3, FirstIs
    <2>2. \A a \in D : Good(run[r], ledger[run[r].db].event[a])
      BY <1>1, <2>1 DEF Good, Mismatch, Stops, State, Event
    <2>3. D \in SUBSET Ids
      BY <1>1
    <2>4. run' = [run EXCEPT ![r].pc = "next", ![r].completed = D]
      BY <1>3
    <2>. HIDE DEF D
    <2>. QED
      BY <1>1, <2>2, <2>3, <2>4, StartedInv
  <1>4. CASE /\ First(r) # 0
             /\ run' = [run EXCEPT ![r].pc = "idle",
                       ![r].status = IF State(r, s[First(r)]) = "COMPLETED"
                                     THEN "stopped-failed" ELSE "stopped-unknown",
                       ![r].report = [a \in Ids |->
                             IF a \in ToSet(SubSeq(s, 1, First(r))) /\ State(r, a) # "PENDING"
                             THEN State(r, a) ELSE "none"]]
    <2>. DEFINE T == ToSet(SubSeq(s, 1, First(r)))
                status == IF State(r, s[First(r)]) = "COMPLETED"
                          THEN "stopped-failed" ELSE "stopped-unknown"
    <2>1. T \in SUBSET Ids
      BY <1>1, <1>4, FirstIs DEF ToSet
    <2>2. status \in {"stopped-failed", "stopped-unknown"}
      OBVIOUS
    <2>3. run' = [run EXCEPT ![r].pc = "idle", ![r].status = status,
                     ![r].report = [a \in Ids |->
                        IF a \in T /\ State(r, a) # "PENDING" THEN State(r, a) ELSE "none"]]
      BY <1>4
    <2>. HIDE DEF T, status
    <2>. QED
      BY <1>1, <2>1, <2>2, <2>3, StoppedInv
  <1>5. CASE Ends(r, "rejected")
    BY <1>1, <1>5, EndInv DEF Creating, Statuses
  <1>. QED
    BY <1>2, <1>3, <1>4, <1>5

----------------------------------------------------------------------------
(* The steps that make and open a ledger                                   *)

\* A file that somebody has open is made, once its schema is written.
LEMMA OpenIsMade ==
    ASSUME NEW x, NEW L, RestOK(x, L), x.db # 0, x.pc # "schema"
    PROVE  x.db \in Ledgers /\ L[x.db].allowed # {} /\ x.db \in Made(L)
  <1>1. x.db \in Ledgers
    BY DEF RestOK, Run
  <1>2. L[x.db].allowed # {}
    <2>1. CASE x.pc = "rows"
      <3>1. 1 \in 1..F
        BY BatchAssumption DEF Ids
      <3>. QED
        BY <2>1, <3>1 DEF RestOK, FileOK
    <2>2. CASE x.pc # "rows"
      BY <2>2 DEF RestOK, FileOK, Creating, Valid
    <2>. QED
      BY <2>1, <2>2
  <1>3. L[x.db] # NoLedger
    BY <1>2 DEF NoLedger
  <1>. QED
    BY <1>1, <1>2, <1>3 DEF Made

\* The numbering when no file is made and r is not about to write a schema.
LEMMA NumberingKept ==
    ASSUME BInv, NEW r \in Runners, Moves(r), path' = path, run'[r].pc # "schema",
           ledger' \in [Ledgers -> Ledger],
           \A g \in Ledgers :
               ledger'[g] # ledger[g] => ledger[g].allowed # {} /\ ledger'[g].allowed # {}
    PROVE  NumberingOK(run', ledger', path')
  <1>1. PICK n \in Nat :
            /\ Made(ledger) = 1..n
            /\ \A s \in Runners : run[s].pc = "schema" => run[s].db = n + 1 /\ path = run[s].db
    BY DEF BInv, NumberingOK
  <1>2. Made(ledger') = Made(ledger)
    BY DEF Made, NoLedger
  <1>3. \A s \in Runners : run'[s].pc = "schema" => run'[s].db = n + 1 /\ path' = run'[s].db
    BY <1>1 DEF Moves
  <1>. QED
    BY <1>1, <1>2, <1>3 DEF NumberingOK

\* The record of a command line that has made file g (CreateFile).
Creator(g, d) == [IdleRun EXCEPT !.pc = "schema", !.fresh = TRUE, !.db = g, !.digest = d,
                                 !.selected = [i \in 1..F |-> i]]

\* IdleRun is a command line's record.
LEMMA IdleIsRun == IdleRun \in Run
  <1>1. NoReport \in [Ids -> {"none", "CLAIMED", "COMPLETED", "UNKNOWN"}]
    BY DEF NoReport
  <1>2. <<>> \in Seq(Ids)
    OBVIOUS
  <1>. QED
    BY <1>1, <1>2 DEF IdleRun, Run

\* CreateFile.
LEMMA CreateFileInv ==
    ASSUME BInv, NEW r \in Runners, NEW d \in Digests, CreateFile(r, d)
    PROVE  BInv'
  <1>1. PICK n \in Nat :
            /\ Made(ledger) = 1..n
            /\ \A s \in Runners : run[s].pc = "schema" => run[s].db = n + 1 /\ path = run[s].db
    BY DEF BInv, NumberingOK
  <1>2. Cardinality({l \in Ledgers : ledger[l] # NoLedger}) = n
    <2>1. Cardinality(1..n) = n
      BY FS_Interval
    <2>. QED
      BY <1>1, <2>1 DEF Made
  <1>. DEFINE g == n + 1  y == Creator(g, d)
  <1>3. /\ g \in Ledgers /\ path = 0 /\ path' = g /\ run[r].pc = "idle"
        /\ UNCHANGED <<ledger, stale, calls>>
        /\ run' = [run EXCEPT ![r] = y]
    BY <1>2 DEF CreateFile, Creator
  <1>4. ledger[g] = NoLedger
    <2>1. g \notin Made(ledger)
      BY <1>1
    <2>. QED
      BY <1>3, <2>1 DEF Made
  <1>5. /\ y.pc = "schema" /\ y.db = g /\ y.k = 1 /\ y.status = "none" /\ y.report = NoReport
    BY DEF Creator, IdleRun
  <1>6. y \in Run
    <2>1. [i \in 1..F |-> i] \in Seq(Ids)
      BY BatchAssumption DEF Ids
    <2>. QED
      BY <1>3, <2>1, IdleIsRun DEF Creator, Run
  <1>. HIDE DEF y
  <1>7. Moves(r) /\ run'[r] = y
    BY <1>3, <1>6 DEF Moves, BInv
  <1>8. RunOK(y, ledger, calls)
    <2>1. FileOK(y, ledger)
      BY <1>3, <1>4, <1>5 DEF FileOK, Creating, Ledgers
    <2>2. BatchOK(y, ledger) /\ ClaimOK(y, ledger, calls)
      BY <1>5 DEF BatchOK, ClaimOK, BeforeBatch, InBatch, AtItem, Owning
    <2>3. ReportOK(y, ledger)
      BY <1>5 DEF ReportOK, NoReport
    <2>. QED
      BY <1>6, <2>1, <2>2, <2>3 DEF RunOK, RestOK
  <1>9. ASSUME NEW s \in Runners \ {r}
        PROVE  run[s].pc # "schema" /\ run[s].db # g
    <2>1. RestOK(run[s], ledger)
      BY DEF BInv, RunOK
    <2>2. run[s].pc # "schema"
      <3>1. run[s].pc = "schema" => run[s].db = 0
        BY <1>1, <1>3
      <3>. QED
        BY <2>1, <3>1 DEF RestOK, FileOK
    <2>3. run[s].db # 0 => run[s].db \in Made(ledger)
      BY <2>1, <2>2, OpenIsMade
    <2>4. run[s].db # g
      BY <1>1, <2>3
    <2>. QED
      BY <2>2, <2>4
  <1>10. ASSUME NEW s \in Runners \ {r}
         PROVE  /\ Kept(run[s], ledger, ledger', calls, calls')
                /\ Apart(y, run[s]) /\ Apart(run[s], y)
    <2>1. Kept(run[s], ledger, ledger', calls, calls')
      BY <1>3 DEF Kept, Grow
    <2>2. Apart(y, run[s]) /\ Apart(run[s], y)
      BY <1>5, <1>9 DEF Apart, Creating, Owning
    <2>. QED
      BY <2>1, <2>2
  <1>11. NumberingOK(run', ledger', path')
    <2>1. \A s \in Runners : run'[s].pc = "schema" => run'[s].db = n + 1 /\ path' = run'[s].db
      BY <1>3, <1>5, <1>7, <1>9 DEF Moves
    <2>. QED
      BY <1>1, <1>3, <2>1 DEF NumberingOK
  <1>12. CalledOnce' /\ ClaimedLedgerIsValid'
    BY <1>3 DEF BInv, CalledOnce, ClaimedLedgerIsValid
  <1>. QED
    BY <1>3, <1>7, <1>8, <1>10, <1>11, <1>12, StepInv DEF BInv

\* The record of a command line that has opened file g (OpenExisting).
Opener(g, d, s, c, more) ==
    [IdleRun EXCEPT !.pc = "confirm", !.db = g, !.digest = d, !.selected = s,
                    !.continue_after_failed = c, !.extension = more]

\* OpenExisting.
LEMMA OpenExistingInv ==
    ASSUME BInv, NEW r \in Runners, NEW s \in Selections, NEW d \in Digests, NEW c \in BOOLEAN,
           OpenExisting(r, s, d, c)
    PROVE  BInv'
  <1>. DEFINE more == ToSet(s) \ ledger[path].known
              y == Opener(path, d, s, c, more)
  <1>1. /\ path \in Ledgers /\ Valid(ledger[path]) /\ UNCHANGED <<path, ledger, stale, calls>>
        /\ run' = [run EXCEPT ![r] = y]
    BY DEF OpenExisting, Opener, BInv
  <1>2. s \in Seq(Ids)
    BY BatchAssumption
  <1>3. more \in SUBSET Ids
    BY <1>2 DEF ToSet
  <1>. HIDE DEF more
  <1>4. y \in Run
    BY <1>1, <1>2, <1>3, IdleIsRun DEF Opener, Run
  <1>5. /\ y.pc = "confirm" /\ y.db = path /\ y.k = 1 /\ y.status = "none"
        /\ y.report = NoReport
    BY DEF Opener, IdleRun
  <1>. HIDE DEF y
  <1>6. Moves(r) /\ run'[r] = y
    BY <1>1, <1>4 DEF Moves, BInv
  <1>7. FileOK(y, ledger)
    BY <1>1, <1>5 DEF FileOK, Ledgers
  <1>8. BatchOK(y, ledger) /\ ClaimOK(y, ledger, calls) /\ ReportOK(y, ledger)
    BY <1>5 DEF BatchOK, ClaimOK, ReportOK, NoReport, InBatch, AtItem, Owning
  <1>9. RunOK(y, ledger, calls)
    BY <1>4, <1>7, <1>8 DEF RunOK, RestOK
  <1>. QED
    BY <1>1, <1>5, <1>6, <1>9, QuietInv DEF BInv, Creating, Owning

\* The record of a command line at another point, and its files (CreateSchema,
\* InsertAttempt).
LEMMA MakingInv ==
    ASSUME BInv, NEW r \in Runners, run[r].pc \in Creating, NEW p \in {"rows", "confirm"},
           Goto(r, p), UNCHANGED <<path, stale, calls>>,
           NEW l \in Ledger, ledger' = [ledger EXCEPT ![run[r].db] = l],
           l.allowed = 1..F, l.event = NoLedger.event,
           ledger[run[r].db].event = NoLedger.event,
           p = "rows" => \E j \in 0..(F - 1) : l.known = 1..j,
           p = "confirm" => l.known = 1..F,
           NumberingOK(run', ledger', path')
    PROVE  BInv'
  <1>. DEFINE x == run[r]  y == [x EXCEPT !.pc = p]
  <1>1. Moves(r) /\ run'[r] = y
    BY GotoIs DEF BInv, Pcs, BeforeBatch
  <1>2. RestOK(x, ledger) /\ x \in Run /\ x.db # 0 /\ x.db \in Ledgers
    BY DEF BInv, RunOK, RestOK, FileOK, Creating, Run
  <1>3. y \in Run
    BY <1>1 DEF Moves
  <1>4. /\ y.pc = p /\ y.db = x.db /\ y.k = x.k /\ y.status = x.status
        /\ y.report = x.report /\ y.selected = x.selected /\ y.digest = x.digest
    BY <1>2 DEF Run
  <1>. HIDE DEF y
  <1>5. /\ ledger' \in [Ledgers -> Ledger] /\ ledger'[x.db] = l
        /\ \A g \in Ledgers \ {x.db} : ledger'[g] = ledger[g]
        /\ \A g \in Ledgers : ledger'[g].event = ledger[g].event
    BY <1>2 DEF BInv
  <1>6. ~Valid(ledger[x.db])
    <2>1. F \in Nat /\ F \in 1..F /\ 1 \in 1..F
      BY BatchAssumption DEF Ids
    <2>2. CASE x.pc = "schema"
      BY <1>2, <2>2 DEF RestOK, FileOK, NoLedger, Valid
    <2>3. CASE x.pc = "rows"
      <3>1. \A j \in 0..(F - 1) : 1..F # 1..j
        BY <2>1
      <3>. QED
        BY <1>2, <2>3, <3>1 DEF RestOK, FileOK, Valid
    <2>. QED
      BY <2>2, <2>3 DEF Creating
  <1>7. FileOK(y, ledger')
    <2>1. 1 \in 1..F
      BY BatchAssumption DEF Ids
    <2>. QED
      BY <1>2, <1>4, <1>5, <2>1 DEF RestOK, FileOK, Creating, Valid
  <1>8. BatchOK(y, ledger') /\ ClaimOK(y, ledger', calls')
    BY <1>2, <1>4
      DEF RestOK, BatchOK, ClaimOK, Creating, BeforeBatch, InBatch, AtItem, Owning
  <1>9. ReportOK(y, ledger')
    <2>1. ledger'[x.db].event = ledger[x.db].event
      BY <1>2, <1>5
    <2>. QED
      BY <1>2, <1>4, <2>1 DEF RestOK, ReportOK
  <1>10. RunOK(y, ledger', calls')
    BY <1>3, <1>7, <1>8, <1>9 DEF RunOK, RestOK
  <1>11. ASSUME NEW s \in Runners \ {r}
         PROVE  /\ Kept(run[s], ledger, ledger', calls, calls')
                /\ Apart(y, run[s]) /\ Apart(run[s], y)
    <2>1. Apart(x, run[s]) /\ Apart(run[s], x)
      BY DEF BInv
    <2>2. run[s].db # x.db
      BY <2>1 DEF Apart
    <2>3. Kept(run[s], ledger, ledger', calls, calls')
      <3>1. \A g \in Ledgers : Valid(ledger[g]) => Valid(ledger'[g])
        BY <1>5, <1>6
      <3>2. run[s].db \in {0} \cup Ledgers
        BY DEF BInv, Run
      <3>3. Grow(run[s], ledger, ledger')
        BY <1>5, <2>2, <3>1 DEF Grow
      <3>4. run[s].pc \in Owning => run[s].db \in Ledgers
        BY <3>2 DEF BInv, RunOK, RestOK, FileOK, Owning
      <3>. QED
        BY <1>5, <3>3, <3>4 DEF Kept
    <2>4. Apart(y, run[s]) /\ Apart(run[s], y)
      BY <1>4, <2>2 DEF Apart
    <2>. QED
      BY <2>3, <2>4
  <1>12. CalledOnce'
    BY <1>5 DEF BInv, CalledOnce
  <1>13. ClaimedLedgerIsValid'
    <2>1. ASSUME NEW g \in Ledgers, NEW a \in Ids, ledger'[g].event[a].state # "PENDING"
          PROVE  Valid(ledger'[g]) /\ a \in ledger'[g].known
      <3>1. g # x.db
        BY <1>5, <2>1 DEF NoLedger, Pending
      <3>. QED
        BY <1>5, <2>1, <3>1 DEF BInv, ClaimedLedgerIsValid
    <2>. QED
      BY <2>1 DEF ClaimedLedgerIsValid
  <1>. QED
    BY <1>1, <1>5, <1>10, <1>11, <1>12, <1>13, StepInv DEF BInv

\* CreateSchema.
LEMMA CreateSchemaInv == ASSUME BInv, NEW r \in Runners, CreateSchema(r) PROVE BInv'
  <1>. DEFINE x == run[r]
              l == [ledger[x.db] EXCEPT !.allowed = 1..F]
  <1>1. /\ x.pc = "schema" /\ Goto(r, "rows") /\ UNCHANGED <<path, stale, calls>>
        /\ ledger' = [ledger EXCEPT ![x.db] = l]
    BY DEF CreateSchema
  <1>2. x \in Run /\ x.db \in Ledgers /\ ledger[x.db] = NoLedger
    BY <1>1 DEF BInv, RunOK, RestOK, FileOK, Run
  <1>3. l.allowed = 1..F /\ l.known = {} /\ l.event = NoLedger.event /\ l \in Ledger
    <2>1. 1..F \subseteq Ids /\ NoLedger \in Ledger
      BY <1>2, BatchAssumption DEF Ids, BInv
    <2>2. l = [NoLedger EXCEPT !.allowed = 1..F]
      BY <1>2
    <2>3. l \in Ledger /\ l.allowed = 1..F /\ l.event = NoLedger.event /\ l.known = NoLedger.known
      BY <2>1, <2>2 DEF Ledger
    <2>. QED
      BY <2>3 DEF NoLedger
  <1>4. 0 \in 0..(F - 1) /\ l.known = 1..0
    BY <1>3, BatchAssumption DEF Ids
  <1>. HIDE DEF l
  <1>5. NumberingOK(run', ledger', path')
    <2>1. PICK n \in Nat :
            /\ Made(ledger) = 1..n
            /\ \A s \in Runners : run[s].pc = "schema" => run[s].db = n + 1 /\ path = run[s].db
      BY DEF BInv, NumberingOK
    <2>2. l # NoLedger
      <3>1. 1 \in 1..F
        BY BatchAssumption DEF Ids
      <3>2. NoLedger.allowed = {}
        BY DEF NoLedger
      <3>. QED
        BY <1>3, <3>1, <3>2
    <2>3. Made(ledger') = Made(ledger) \cup {x.db}
      BY <1>1, <1>2, <2>2 DEF Made, BInv
    <2>4. Made(ledger') = 1..(n + 1)
      <3>1. x.db = n + 1
        BY <1>1, <2>1
      <3>. QED
        BY <2>1, <2>3, <3>1
    <2>5. \A s \in Runners \ {r} : run[s].pc # "schema"
      BY <1>1, <2>1 DEF BInv, Apart, Creating
    <2>6. Moves(r) /\ run'[r] = [run[r] EXCEPT !.pc = "rows"]
      BY <1>1, GotoIs DEF BInv, Pcs, BeforeBatch
    <2>7. \A s \in Runners : run'[s].pc # "schema"
      <3>1. run'[r].pc = "rows"
        BY <1>2, <2>6 DEF Run
      <3>. QED
        BY <2>5, <2>6, <3>1 DEF Moves
    <2>. QED
      BY <2>1, <2>4, <2>7 DEF NumberingOK
  <1>. QED
    BY <1>1, <1>2, <1>3, <1>4, <1>5, MakingInv DEF Creating

\* InsertAttempt.
LEMMA InsertAttemptInv == ASSUME BInv, NEW r \in Runners, InsertAttempt(r) PROVE BInv'
  <1>. DEFINE x == run[r]
              known == ledger[x.db].known
              a == Cardinality(known) + 1
              p == IF a = F THEN "confirm" ELSE "rows"
              l == [ledger[x.db] EXCEPT !.known = known \cup {a}]
  <1>1. /\ x.pc = "rows" /\ Goto(r, p) /\ UNCHANGED <<path, stale, calls>>
        /\ ledger' = [ledger EXCEPT ![x.db] = l]
    BY DEF InsertAttempt
  <1>2. x \in Run /\ RestOK(x, ledger) /\ x.db \in Ledgers
    BY <1>1 DEF BInv, RunOK, RestOK, FileOK, Run
  <1>3. /\ ledger[x.db] \in Ledger
        /\ ledger[x.db].allowed = 1..F /\ ledger[x.db].event = NoLedger.event
        /\ \E j \in 0..(F - 1) : known = 1..j
    BY <1>1, <1>2 DEF BInv, RestOK, FileOK
  <1>4. PICK j \in 0..(F - 1) : known = 1..j
    BY <1>3
  <1>5. F \in Nat /\ j \in Nat /\ a = j + 1
    <2>1. F \in Nat /\ j \in Nat
      BY BatchAssumption DEF Ids
    <2>2. Cardinality(1..j) = j
      BY <2>1, FS_Interval
    <2>. QED
      BY <1>4, <2>1, <2>2
  <1>6. known \cup {a} = 1..(j + 1)
    BY <1>4, <1>5
  <1>7. p = "rows" => j + 1 \in 0..(F - 1)
    BY <1>5
  <1>8. p = "confirm" => j + 1 = F
    BY <1>5
  <1>9. 1..(j + 1) \subseteq Ids
    BY <1>5, BatchAssumption DEF Ids
  <1>10. /\ l \in Ledger /\ l.allowed = 1..F /\ l.event = NoLedger.event
         /\ l.known = 1..(j + 1)
    BY <1>3, <1>6, <1>9 DEF Ledger
  <1>11. p \in {"rows", "confirm"}
    OBVIOUS
  <1>. HIDE DEF p, l
  <1>12. NumberingOK(run', ledger', path')
    <2>1. 1 \in 1..F
      BY <1>5, BatchAssumption DEF Ids
    <2>2. /\ ledger' \in [Ledgers -> Ledger]
          /\ \A g \in Ledgers :
               ledger'[g] # ledger[g] => ledger[g].allowed # {} /\ ledger'[g].allowed # {}
      BY <1>1, <1>2, <1>3, <1>10, <2>1 DEF BInv
    <2>3. Moves(r) /\ run'[r] = [run[r] EXCEPT !.pc = p]
      BY <1>1, <1>11, GotoIs DEF BInv, Pcs, BeforeBatch
    <2>4. run'[r].pc # "schema"
      BY <1>2, <1>11, <2>3 DEF Run
    <2>. QED
      BY <1>1, <2>2, <2>3, <2>4, NumberingKept
  <1>. QED
    BY <1>1, <1>3, <1>7, <1>8, <1>10, <1>11, <1>12, MakingInv DEF Creating

\* A step of r that only adds to the file it has open, and goes on (Activate).
LEMMA ActivateInv == ASSUME BInv, NEW r \in Runners, Activate(r) PROVE BInv'
  <1>. DEFINE x == run[r]
              more == x.extension
  <1>1. /\ x.pc = "confirm" /\ x \in Run /\ RestOK(x, ledger) /\ x.db # 0 /\ x.db \in Ledgers
        /\ more \in SUBSET Ids /\ UNCHANGED <<path, stale, calls>>
    BY DEF Activate, BInv, RunOK, RestOK, FileOK, Run
  <1>2. CASE Goto(r, IF x.fresh THEN "batch" ELSE "recheck") /\ UNCHANGED ledger
    <2>. DEFINE p == IF x.fresh THEN "batch" ELSE "recheck"
    <2>1. p \in {"batch", "recheck"}
      OBVIOUS
    <2>. HIDE DEF p
    <2>2. Goto(r, p)
      BY <1>2 DEF p
    <2>. QED
      BY <1>1, <1>2, <2>1, <2>2, GotoInv
        DEF Creating, Pcs, BeforeBatch, InBatch, AtItem, Owning
  <1>3. CASE Ends(r, "rejected") /\ UNCHANGED ledger
    BY <1>1, <1>3, EndInv DEF Creating, Statuses
  <1>4. CASE /\ Extendable(r) /\ Goto(r, "recheck")
             /\ ledger' = [ledger EXCEPT ![x.db].allowed = @ \cup more,
                                         ![x.db].known = @ \cup more]
    <2>. DEFINE y == [x EXCEPT !.pc = "recheck"]
                l == [ledger[x.db] EXCEPT !.allowed = @ \cup more, !.known = @ \cup more]
    <2>1. ledger' = [ledger EXCEPT ![x.db] = l]
      BY <1>1, <1>4
    <2>2. /\ l \in Ledger /\ l.allowed = ledger[x.db].allowed \cup more
          /\ l.known = ledger[x.db].known \cup more /\ l.event = ledger[x.db].event
      <3>1. ledger[x.db] \in Ledger
        BY <1>1 DEF BInv
      <3>. QED
        BY <1>1, <3>1 DEF Ledger
    <2>. HIDE DEF l
    <2>3. Valid(ledger[x.db])
      BY <1>1 DEF RestOK, FileOK, Creating
    <2>4. Valid(l)
      BY <2>2, <2>3 DEF Valid
    <2>5. /\ ledger' \in [Ledgers -> Ledger] /\ ledger'[x.db] = l
          /\ \A g \in Ledgers \ {x.db} : ledger'[g] = ledger[g]
          /\ \A g \in Ledgers : ledger'[g].event = ledger[g].event
      BY <1>1, <2>1, <2>2 DEF BInv
    <2>6. \A g \in Ledgers : Valid(ledger[g]) => Valid(ledger'[g])
      BY <2>4, <2>5
    <2>7. Moves(r) /\ run'[r] = y
      BY <1>4, GotoIs DEF BInv, Pcs, BeforeBatch
    <2>8. RunOK(y, ledger', calls')
      <3>1. Grow(x, ledger, ledger')
        BY <1>1, <2>5, <2>6 DEF Grow, Creating
      <3>2. RestOK(x, ledger')
        BY <1>1, <2>5, <3>1, GrowOK DEF BInv
      <3>3. y.pc = "recheck"
        BY <1>1 DEF Run
      <3>4. ClaimOK(y, ledger', calls')
        BY <3>3 DEF ClaimOK, Owning
      <3>. QED
        BY <1>1, <3>2, <3>4, PcOK DEF Creating, Pcs, BeforeBatch, InBatch, AtItem, Owning
    <2>9. ASSUME NEW s \in Runners \ {r}
          PROVE  /\ Kept(run[s], ledger, ledger', calls, calls')
                 /\ Apart(y, run[s]) /\ Apart(run[s], y)
      <3>1. Apart(x, run[s]) /\ Apart(run[s], x)
        BY DEF BInv
      <3>2. y.pc = "recheck" /\ y.db = x.db
        BY <1>1 DEF Run
      <3>3. run[s].db \in {0} \cup Ledgers
        BY DEF BInv, Run
      <3>4. run[s].db = 0 => run[s].pc = "idle"
        BY DEF BInv, RunOK, RestOK, FileOK
      <3>5. Kept(run[s], ledger, ledger', calls, calls')
        BY <1>1, <2>5, <2>6, <3>1, <3>3, <3>4 DEF Kept, Grow, Apart, Creating, Owning
      <3>6. Apart(y, run[s]) /\ Apart(run[s], y)
        BY <3>1, <3>2 DEF Apart, Creating, Owning
      <3>. QED
        BY <3>5, <3>6
    <2>10. NumberingOK(run', ledger', path')
      <3>1. run'[r].pc # "schema"
        BY <1>1, <2>7 DEF Run
      <3>2. \A g \in Ledgers :
               ledger'[g] # ledger[g] => ledger[g].allowed # {} /\ ledger'[g].allowed # {}
        BY <2>3, <2>4, <2>5 DEF Valid
      <3>. QED
        BY <1>1, <2>5, <2>7, <3>1, <3>2, NumberingKept
    <2>11. CalledOnce'
      BY <1>1, <2>5 DEF BInv, CalledOnce
    <2>12. ClaimedLedgerIsValid'
      <3>1. \A g \in Ledgers : ledger[g].known \subseteq ledger'[g].known
        BY <2>2, <2>5
      <3>. QED
        BY <2>5, <2>6, <3>1 DEF BInv, ClaimedLedgerIsValid
    <2>. QED
      BY <1>1, <2>5, <2>7, <2>8, <2>9, <2>10, <2>11, <2>12, StepInv DEF BInv
  <1>. QED
    BY <1>1, <1>2, <1>3, <1>4 DEF Activate

\* Crash.
LEMMA CrashInv == ASSUME BInv, NEW r \in Runners, Crash(r) PROVE BInv'
  <1>1. /\ run' = [run EXCEPT ![r] = IdleRun] /\ UNCHANGED <<path, ledger, calls>>
        /\ stale' \in BOOLEAN
    BY DEF Crash, BInv
  <1>2. Moves(r) /\ run'[r] = IdleRun
    BY <1>1, IdleIsRun DEF BInv, Moves
  <1>3. /\ IdleRun.pc = "idle" /\ IdleRun.db = 0 /\ IdleRun.k = 1 /\ IdleRun.status = "none"
        /\ IdleRun.report = NoReport
    BY DEF IdleRun
  <1>4. FileOK(IdleRun, ledger)
    BY <1>3 DEF FileOK, Creating
  <1>5. BatchOK(IdleRun, ledger) /\ ClaimOK(IdleRun, ledger, calls) /\ ReportOK(IdleRun, ledger)
    BY <1>3 DEF BatchOK, ClaimOK, ReportOK, NoReport, InBatch, AtItem, Owning
  <1>6. RunOK(IdleRun, ledger, calls)
    BY <1>4, <1>5, IdleIsRun DEF RunOK, RestOK
  <1>. QED
    BY <1>1, <1>2, <1>3, <1>6, QuietInv DEF Creating, Owning

\* RecoverStage.
LEMMA RecoverStageInv == ASSUME BInv, RecoverStage PROVE BInv'
  BY DEF BInv, RecoverStage, CalledOnce, ClaimedLedgerIsValid

----------------------------------------------------------------------------
(* The steps at an attempt                                                 *)

\* From L and C to M and E only the event and the calls of x's attempt change: a decision
\* stays, and what is not pending was claimed in a valid file that lists the attempt.
AtItemOnly(x, L, M, C, E) ==
    /\ \A g \in Ledgers : M[g].allowed = L[g].allowed /\ M[g].known = L[g].known
    /\ \A g \in Ledgers : g # x.db => M[g] = L[g]
    /\ \A g \in Ledgers, a \in Ids :
           g # x.db \/ a # Item(x) => M[g].event[a] = L[g].event[a] /\ E[g][a] = C[g][a]
    /\ Valid(L[x.db]) /\ Item(x) \in L[x.db].known
    /\ LET e == L[x.db].event[Item(x)]
           f == M[x.db].event[Item(x)]
           n == E[x.db][Item(x)]
       IN  /\ e.state \in {"COMPLETED", "UNKNOWN"} => f = e
           /\ e.state # "PENDING" => f.state # "PENDING"
           /\ n <= 1 /\ (n = 1 => f.state # "PENDING") /\ (f.state = "COMPLETED" => n = 1)

\* Such a step lets what x knows grow.
LEMMA ItemGrow ==
    ASSUME NEW x, NEW L, NEW M, NEW C, NEW E, x.pc \notin Creating, AtItemOnly(x, L, M, C, E)
    PROVE  Grow(x, L, M) /\ \A g \in Ledgers : Valid(L[g]) => Valid(M[g])
  <1>1. \A g \in Ledgers : Valid(L[g]) => Valid(M[g])
    BY DEF AtItemOnly, Valid
  <1>2. ASSUME NEW g \in Ledgers, NEW a \in Ids
        PROVE  /\ L[g].event[a].state \in {"COMPLETED", "UNKNOWN"} =>
                      M[g].event[a] = L[g].event[a]
               /\ L[g].event[a].state # "PENDING" => M[g].event[a].state # "PENDING"
    BY DEF AtItemOnly
  <1>. QED
    BY <1>1, <1>2 DEF Grow

\* A command line at an attempt that moves, with the event and the calls of the attempt.
LEMMA ItemInv ==
    ASSUME BInv, NEW r \in Runners, run[r].pc \in AtItem, Moves(r), UNCHANGED <<path, stale>>,
           run'[r].db = run[r].db, run'[r].pc \notin Creating,
           run'[r].pc \in Owning => Item(run'[r]) = Item(run[r]),
           \/ run[r].pc \in Owning
           \/ Event(r, Item(run[r])).state = "PENDING",
           ledger' \in [Ledgers -> Ledger], calls' \in [Ledgers -> [Ids -> Nat]],
           AtItemOnly(run[r], ledger, ledger', calls, calls'),
           RunOK(run'[r], ledger', calls')
    PROVE  BInv'
  <1>. DEFINE x == run[r]  y == run'[r]
  <1>1. /\ x \in Run /\ RestOK(x, ledger) /\ ClaimOK(x, ledger, calls) /\ x.db \in Ledgers
        /\ x.pc \notin Creating /\ x.pc # "idle"
    BY DEF BInv, RunOK, RestOK, FileOK, Run, AtItem, Owning, Creating
  <1>2. x.k \in DOMAIN x.selected /\ Item(x) \in Ids
    BY <1>1 DEF RestOK, BatchOK, Run, Item
  <1>3. \A g \in Ledgers : Valid(ledger[g]) => Valid(ledger'[g])
    BY <1>1, ItemGrow
  <1>4. ASSUME NEW s \in Runners \ {r}
        PROVE  /\ Kept(run[s], ledger, ledger', calls, calls')
               /\ Apart(y, run[s]) /\ Apart(run[s], y)
    <2>. DEFINE z == run[s]
    <2>1. Apart(x, z) /\ Apart(z, x) /\ RunOK(z, ledger, calls)
      BY DEF BInv
    <2>2. z.db \in {0} \cup Ledgers /\ (z.pc # "idle" => z.db \in Ledgers)
      BY <2>1 DEF RunOK, RestOK, FileOK, Run
    <2>3. z.pc \in Creating => z.db # x.db
      BY <2>1 DEF Apart
    <2>4. z.pc \in Owning => z.k \in DOMAIN z.selected /\ Item(z) \in Ids /\ z.db \in Ledgers
      BY <2>1, <2>2 DEF RunOK, RestOK, BatchOK, Run, Item, AtItem, Owning
    <2>5. z.pc \in Owning /\ z.db = x.db => Item(z) # Item(x)
      <3>1. CASE x.pc \in Owning
        BY <2>1, <3>1 DEF Apart
      <3>2. CASE Event(r, Item(x)).state = "PENDING"
        BY <2>1, <3>2 DEF RunOK, ClaimOK, Event
      <3>. QED
        BY <3>1, <3>2
    <2>6. Grow(z, ledger, ledger')
      <3>1. Grow(x, ledger, ledger')
        BY <1>1, ItemGrow
      <3>2. z.db \in Ledgers /\ z.pc \in Creating => ledger'[z.db] = ledger[z.db]
        BY <2>3 DEF AtItemOnly
      <3>. QED
        BY <3>1, <3>2 DEF Grow
    <2>7. Kept(z, ledger, ledger', calls, calls')
      <3>1. z.pc \in Owning => /\ ledger'[z.db].event[Item(z)] = ledger[z.db].event[Item(z)]
                               /\ calls'[z.db][Item(z)] = calls[z.db][Item(z)]
        BY <2>4, <2>5 DEF AtItemOnly
      <3>. QED
        BY <2>6, <3>1 DEF Kept
    <2>8. Apart(y, z) /\ Apart(z, y)
      BY <2>3, <2>5 DEF Apart
    <2>. QED
      BY <2>7, <2>8
  <1>5. NumberingOK(run', ledger', path')
    <2>1. run'[r].pc # "schema"
      BY DEF Creating
    <2>2. \A g \in Ledgers :
               ledger'[g] # ledger[g] => ledger[g].allowed # {} /\ ledger'[g].allowed # {}
      BY DEF AtItemOnly, Valid
    <2>. QED
      BY <2>1, <2>2, NumberingKept
  <1>6. CalledOnce'
    <2>1. ASSUME NEW g \in Ledgers, NEW a \in Ids
          PROVE  /\ calls'[g][a] <= 1
                 /\ calls'[g][a] = 1 => ledger'[g].event[a].state # "PENDING"
                 /\ ledger'[g].event[a].state = "COMPLETED" => calls'[g][a] = 1
      <3>1. CASE g = x.db /\ a = Item(x)
        BY <3>1 DEF AtItemOnly
      <3>2. CASE g # x.db \/ a # Item(x)
        <4>1. ledger'[g].event[a] = ledger[g].event[a] /\ calls'[g][a] = calls[g][a]
          BY <3>2 DEF AtItemOnly
        <4>2. CalledOnce
          BY DEF BInv
        <4>. QED
          BY <4>1, <4>2 DEF CalledOnce
      <3>. QED
        BY <3>1, <3>2
    <2>. QED
      BY <2>1 DEF CalledOnce
  <1>7. ClaimedLedgerIsValid'
    <2>1. ASSUME NEW g \in Ledgers, NEW a \in Ids, ledger'[g].event[a].state # "PENDING"
          PROVE  Valid(ledger'[g]) /\ a \in ledger'[g].known
      <3>1. CASE g = x.db /\ a = Item(x)
        BY <1>3, <3>1 DEF AtItemOnly
      <3>2. CASE g # x.db \/ a # Item(x)
        BY <1>3, <2>1, <3>2 DEF AtItemOnly, BInv, ClaimedLedgerIsValid
      <3>. QED
        BY <3>1, <3>2
    <2>. QED
      BY <2>1 DEF ClaimedLedgerIsValid
  <1>. QED
    BY <1>4, <1>5, <1>6, <1>7, StepInv DEF BInv

\* What a command line at an attempt knows, to begin with.
LEMMA AtItemIs ==
    ASSUME BInv, NEW r \in Runners, run[r].pc \in AtItem
    PROVE  /\ run[r] \in Run /\ RestOK(run[r], ledger) /\ ClaimOK(run[r], ledger, calls)
           /\ run[r].db \in Ledgers /\ run[r].db # 0 /\ Valid(ledger[run[r].db])
           /\ run[r].k \in DOMAIN run[r].selected /\ run[r].k \in Nat
           /\ Item(run[r]) \in Ids /\ Item(run[r]) = Current(r)
           /\ ledger[run[r].db] \in Ledger
           /\ ledger[run[r].db].event[Item(run[r])] \in Attempt
           /\ calls[run[r].db][Item(run[r])] \in Nat
  <1>1. /\ run[r] \in Run /\ RestOK(run[r], ledger) /\ ClaimOK(run[r], ledger, calls)
        /\ run[r].db \in Ledgers /\ run[r].db # 0
    BY DEF BInv, RunOK, RestOK, FileOK, Run, AtItem, Owning
  <1>2. Valid(ledger[run[r].db])
    BY <1>1 DEF RestOK, FileOK, Creating, AtItem, Owning
  <1>3. run[r].k \in DOMAIN run[r].selected /\ Item(run[r]) \in Ids
    BY <1>1 DEF RestOK, BatchOK, Run, Item
  <1>4. run[r].k \in Nat /\ Item(run[r]) = Current(r)
    BY <1>1 DEF Run, Item, Current
  <1>5. ledger[run[r].db] \in Ledger
    BY <1>1 DEF BInv
  <1>6. /\ ledger[run[r].db].event[Item(run[r])] \in Attempt
        /\ calls[run[r].db][Item(run[r])] \in Nat
    BY <1>1, <1>3, <1>5 DEF BInv, Ledger
  <1>. QED
    BY <1>1, <1>2, <1>3, <1>4, <1>5, <1>6

\* M is L with event e of attempt i in file d.
EventSet(M, L, d, i, e) ==
    /\ M \in [Ledgers -> Ledger]
    /\ M[d].event[i] = e
    /\ \A g \in Ledgers :
           /\ M[g].allowed = L[g].allowed
           /\ M[g].known = L[g].known
           /\ g # d => M[g] = L[g]
           /\ \A a \in Ids : g # d \/ a # i => M[g].event[a] = L[g].event[a]

\* Writing an event.
LEMMA EventWritten ==
    ASSUME NEW L \in [Ledgers -> Ledger], NEW d \in Ledgers, NEW i \in Ids, NEW e \in Attempt
    PROVE  EventSet([L EXCEPT ![d].event[i] = e], L, d, i, e)
  <1>. DEFINE l == [L[d] EXCEPT !.event = [L[d].event EXCEPT ![i] = e]]
              M == [L EXCEPT ![d].event[i] = e]
  <1>1. L[d] \in Ledger
    OBVIOUS
  <1>2. M = [L EXCEPT ![d] = l]
    BY <1>1
  <1>3. [L[d].event EXCEPT ![i] = e] \in [Ids -> Attempt]
    BY <1>1 DEF Ledger
  <1>4. /\ l.allowed = L[d].allowed /\ l.known = L[d].known
        /\ l.event = [L[d].event EXCEPT ![i] = e] /\ l \in Ledger
    BY <1>1, <1>3 DEF Ledger
  <1>5. l.event[i] = e /\ \A a \in Ids \ {i} : l.event[a] = L[d].event[a]
    BY <1>1, <1>4 DEF Ledger
  <1>. HIDE DEF l
  <1>6. M \in [Ledgers -> Ledger]
    BY <1>2, <1>4
  <1>7. M[d] = l /\ \A g \in Ledgers \ {d} : M[g] = L[g]
    BY <1>2
  <1>. QED
    BY <1>4, <1>5, <1>6, <1>7 DEF EventSet

\* Writing the same event twice.
LEMMA EventSetTwice ==
    ASSUME NEW L, NEW M, NEW W, NEW d, NEW i, NEW e, NEW f,
           EventSet(M, L, d, i, e), EventSet(W, M, d, i, f)
    PROVE  EventSet(W, L, d, i, f)
  BY DEF EventSet

\* L with the state and the outcome of an event written (Record).
Put(L, d, i, state, outcome) ==
    [L EXCEPT ![d].event[i].state = state, ![d].event[i].outcome = outcome]

\* Writing the state and the outcome of an event.
LEMMA RecordWritten ==
    ASSUME NEW L \in [Ledgers -> Ledger], NEW d \in Ledgers, NEW i \in Ids,
           NEW state \in {"PENDING", "CLAIMED", "COMPLETED", "UNKNOWN"},
           NEW outcome \in Outcomes \cup {"none"}
    PROVE  \E e \in Attempt :
               /\ e.state = state /\ e.outcome = outcome /\ e.digest = L[d].event[i].digest
               /\ EventSet(Put(L, d, i, state, outcome), L, d, i, e)
  <1>. DEFINE e == [L[d].event[i] EXCEPT !.state = state]
              M == [L EXCEPT ![d].event[i] = e]
              f == [M[d].event[i] EXCEPT !.outcome = outcome]
  <1>1. L[d].event[i] \in Attempt
    BY DEF Ledger
  <1>2. e \in Attempt /\ e.state = state /\ e.digest = L[d].event[i].digest
    BY <1>1 DEF Attempt
  <1>. HIDE DEF e
  <1>3. EventSet(M, L, d, i, e)
    BY <1>2, EventWritten
  <1>4. M[d].event[i] = e /\ M \in [Ledgers -> Ledger]
    BY <1>3 DEF EventSet
  <1>5. f \in Attempt /\ f.state = e.state /\ f.outcome = outcome /\ f.digest = e.digest
    BY <1>2, <1>4 DEF Attempt
  <1>6. EventSet([M EXCEPT ![d].event[i] = f], M, d, i, f)
    <2>. HIDE DEF M, f
    <2>. QED
      BY <1>4, <1>5, EventWritten
  <1>7. EventSet([M EXCEPT ![d].event[i] = f], L, d, i, f)
    <2>. HIDE DEF M, f
    <2>. QED
      BY <1>3, <1>6, EventSetTwice
  <1>8. [M EXCEPT ![d].event[i] = f] = Put(L, d, i, state, outcome)
    BY DEF e, Put
  <1>. QED
    BY <1>2, <1>5, <1>7, <1>8

\* Claim.
LEMMA ClaimInv == ASSUME BInv, NEW r \in Runners, Claim(r) PROVE BInv'
  <1>. DEFINE x == run[r]  a == Item(x)
              e == [state |-> "CLAIMED", digest |-> x.digest, outcome |-> "none"]
  <1>1. x.pc = "claim" /\ x.pc \in AtItem /\ UNCHANGED <<path, stale, calls>>
    BY DEF Claim, AtItem
  <1>2. /\ x \in Run /\ RestOK(x, ledger) /\ x.db \in Ledgers /\ x.db # 0
        /\ Valid(ledger[x.db]) /\ x.k \in DOMAIN x.selected /\ a \in Ids /\ a = Current(r)
        /\ ledger[x.db].event[a] \in Attempt /\ calls[x.db][a] \in Nat
    BY <1>1, AtItemIs
  <1>3. CASE Ends(r, "rejected") /\ UNCHANGED ledger
    BY <1>1, <1>3, EndInv DEF Creating, Statuses
  <1>4. CASE /\ Claimable(r, a)
             /\ ledger' = [ledger EXCEPT ![x.db].event[a] = e]
             /\ Goto(r, "invoke") \/ Ends(r, "rejected")
    <2>1. e \in Attempt /\ e.state = "CLAIMED" /\ e.digest = x.digest
      BY <1>2 DEF Attempt, Run
    <2>2. a \in ledger[x.db].known /\ ledger[x.db].event[a].state = "PENDING"
      BY <1>2, <1>4 DEF Claimable, State, Event
    <2>3. calls[x.db][a] = 0
      <3>1. calls[x.db][a] <= 1 /\ calls[x.db][a] # 1
        BY <1>2, <2>2 DEF BInv, CalledOnce
      <3>. QED
        BY <1>2, <3>1
    <2>. HIDE DEF e
    <2>4. /\ ledger' \in [Ledgers -> Ledger] /\ ledger'[x.db].event[a] = e
          /\ \A g \in Ledgers :
                  /\ ledger'[g].allowed = ledger[g].allowed
                  /\ ledger'[g].known = ledger[g].known
                  /\ g # run[r].db => ledger'[g] = ledger[g]
                  /\ \A b \in Ids : g # x.db \/ b # a => ledger'[g].event[b] = ledger[g].event[b]
      <3>1. EventSet(ledger', ledger, x.db, a, e)
        BY <1>2, <1>4, <2>1, EventWritten DEF BInv
      <3>. QED
        BY <3>1 DEF EventSet
    <2>5. AtItemOnly(x, ledger, ledger', calls, calls')
      BY <1>1, <1>2, <2>1, <2>2, <2>3, <2>4 DEF AtItemOnly
    <2>6. RestOK(x, ledger')
      <3>1. Grow(x, ledger, ledger')
        BY <1>1, <2>5, ItemGrow DEF Creating
      <3>. QED
        BY <1>2, <2>4, <3>1, GrowOK DEF BInv
    <2>7. CASE Goto(r, "invoke")
      <3>. DEFINE y == [x EXCEPT !.pc = "invoke"]
      <3>1. Moves(r) /\ run'[r] = y
        BY <2>7, GotoIs DEF BInv, Pcs, InBatch, AtItem, Owning
      <3>2. y.pc = "invoke" /\ y.db = x.db /\ y.digest = x.digest /\ Item(y) = a
        BY <1>2 DEF Run, Item
      <3>. HIDE DEF y
      <3>3. ClaimOK(y, ledger', calls')
        BY <1>1, <2>1, <2>3, <2>4, <3>2 DEF ClaimOK
      <3>4. RunOK(y, ledger', calls')
        BY <1>1, <1>2, <2>6, <3>3, PcOK
          DEF y, Creating, Pcs, BeforeBatch, InBatch, AtItem, Owning
      <3>. QED
        BY <1>1, <2>2, <2>4, <2>5, <3>1, <3>2, <3>4, ItemInv DEF BInv, Event, Creating
    <2>8. CASE Ends(r, "rejected")
      <3>1. Moves(r) /\ run'[r] = EndOf(x, "rejected")
        BY <2>8, EndsIs DEF BInv, Statuses
      <3>2. run'[r].pc = "idle" /\ run'[r].db = x.db
        BY <1>2, <3>1 DEF Run, EndOf
      <3>3. RunOK(run'[r], ledger', calls')
        BY <1>1, <1>2, <2>6, <3>1, EndOK DEF Creating, Statuses
      <3>. QED
        BY <1>1, <2>2, <2>4, <2>5, <3>1, <3>2, <3>3, ItemInv DEF BInv, Event, Creating, Owning
    <2>. QED
      BY <1>4, <2>7, <2>8
  <1>. QED
    BY <1>2, <1>3, <1>4 DEF Claim

\* Invoke.
LEMMA InvokeInv == ASSUME BInv, NEW r \in Runners, Invoke(r) PROVE BInv'
  <1>. DEFINE x == run[r]  a == Item(x)  y == [x EXCEPT !.pc = "answer"]
  <1>1. x.pc = "invoke" /\ x.pc \in AtItem /\ UNCHANGED <<path, ledger, stale>>
    BY DEF Invoke, AtItem, Owning
  <1>2. /\ x \in Run /\ RestOK(x, ledger) /\ ClaimOK(x, ledger, calls) /\ x.db \in Ledgers
        /\ x.db # 0 /\ Valid(ledger[x.db]) /\ x.k \in DOMAIN x.selected /\ a \in Ids
        /\ a = Current(r) /\ calls[x.db][a] \in Nat
    BY <1>1, AtItemIs
  <1>3. /\ ledger[x.db].event[a].state = "CLAIMED" /\ ledger[x.db].event[a].digest = x.digest
        /\ calls[x.db][a] = 0
    BY <1>1, <1>2 DEF ClaimOK, Owning
  <1>4. calls' = [calls EXCEPT ![x.db][a] = @ + 1] /\ Goto(r, "answer")
    BY <1>2 DEF Invoke
  <1>5. /\ calls' \in [Ledgers -> [Ids -> Nat]] /\ calls'[x.db][a] = 1
        /\ \A g \in Ledgers, b \in Ids : g # x.db \/ b # a => calls'[g][b] = calls[g][b]
    BY <1>2, <1>3, <1>4 DEF BInv
  <1>6. a \in ledger[x.db].known
    BY <1>2, <1>3 DEF BInv, ClaimedLedgerIsValid
  <1>7. AtItemOnly(x, ledger, ledger', calls, calls')
    BY <1>1, <1>2, <1>3, <1>5, <1>6 DEF AtItemOnly
  <1>8. Moves(r) /\ run'[r] = y
    BY <1>4, GotoIs DEF BInv, Pcs, InBatch, AtItem, Owning
  <1>9. y.pc = "answer" /\ y.db = x.db /\ y.digest = x.digest /\ Item(y) = a
    BY <1>2 DEF Run, Item
  <1>. HIDE DEF y
  <1>10. ClaimOK(y, ledger', calls')
    BY <1>1, <1>3, <1>5, <1>9 DEF ClaimOK
  <1>11. RunOK(y, ledger', calls')
    BY <1>1, <1>2, <1>10, PcOK DEF y, Creating, Pcs, BeforeBatch, InBatch, AtItem, Owning
  <1>. QED
    BY <1>1, <1>5, <1>7, <1>8, <1>9, <1>11, ItemInv DEF BInv, Creating, Owning

\* A decision about the attempt that r has claimed.
LEMMA DecisionWritten ==
    ASSUME BInv, NEW r \in Runners, run[r].pc \in {"complete", "unknown"},
           NEW state \in {"COMPLETED", "UNKNOWN"}, NEW outcome \in Outcomes \cup {"none"},
           State(r, Current(r)) = "CLAIMED", Record(r, Current(r), state, outcome),
           UNCHANGED calls,
           state = "COMPLETED" => run[r].pc = "complete"
    PROVE  /\ ledger' \in [Ledgers -> Ledger]
           /\ AtItemOnly(run[r], ledger, ledger', calls, calls')
           /\ RestOK(run[r], ledger')
           /\ LET e == ledger'[run[r].db].event[Item(run[r])]
              IN  e.state = state /\ e.outcome = outcome /\ e.digest = run[r].digest
  <1>. DEFINE x == run[r]  a == Item(x)  old == ledger[x.db].event[a]
  <1>1. x.pc \in AtItem /\ x.pc \in Owning
    BY DEF AtItem, Owning
  <1>2. /\ x \in Run /\ RestOK(x, ledger) /\ ClaimOK(x, ledger, calls) /\ x.db \in Ledgers
        /\ Valid(ledger[x.db]) /\ a \in Ids /\ a = Current(r) /\ calls[x.db][a] \in Nat
        /\ old \in Attempt /\ ledger[x.db] \in Ledger
    BY <1>1, AtItemIs
  <1>3. old.state = "CLAIMED" /\ old.digest = x.digest
    BY <1>1, <1>2 DEF ClaimOK, State, Event
  <1>4. PICK e \in Attempt :
            /\ e.state = state /\ e.outcome = outcome /\ e.digest = x.digest
            /\ EventSet(ledger', ledger, x.db, a, e)
    <2>. DEFINE d == x.db
    <2>1. ledger' = Put(ledger, d, a, state, outcome)
      BY <1>2 DEF Record, Put
    <2>2. ledger \in [Ledgers -> Ledger] /\ d \in Ledgers /\ a \in Ids
      BY <1>2 DEF BInv
    <2>3. state \in {"PENDING", "CLAIMED", "COMPLETED", "UNKNOWN"}
      OBVIOUS
    <2>. HIDE DEF d, a
    <2>4. \E e \in Attempt :
              /\ e.state = state /\ e.outcome = outcome
              /\ e.digest = ledger[d].event[a].digest /\ EventSet(ledger', ledger, d, a, e)
      BY <2>1, <2>2, <2>3, RecordWritten
    <2>. QED
      BY <1>3, <2>4 DEF d, a
  <1>6. /\ ledger' \in [Ledgers -> Ledger] /\ ledger'[x.db].event[a] = e
        /\ \A g \in Ledgers :
                /\ ledger'[g].allowed = ledger[g].allowed
                /\ ledger'[g].known = ledger[g].known
                /\ g # run[r].db => ledger'[g] = ledger[g]
                /\ \A b \in Ids : g # x.db \/ b # a => ledger'[g].event[b] = ledger[g].event[b]
    BY <1>4 DEF EventSet
  <1>7. a \in ledger[x.db].known /\ calls[x.db][a] <= 1
    BY <1>2, <1>3 DEF BInv, ClaimedLedgerIsValid, CalledOnce
  <1>8. state = "COMPLETED" => calls[x.db][a] = 1
    BY <1>1, <1>2 DEF ClaimOK
  <1>9. AtItemOnly(x, ledger, ledger', calls, calls')
    BY <1>2, <1>3, <1>4, <1>6, <1>7, <1>8 DEF AtItemOnly
  <1>10. RestOK(x, ledger')
    <2>1. Grow(x, ledger, ledger')
      BY <1>9, ItemGrow DEF Creating
    <2>. QED
      BY <1>2, <1>6, <2>1, GrowOK DEF BInv
  <1>. QED
    BY <1>4, <1>6, <1>9, <1>10

\* The record of a command line whose attempt was completed with outcome o (Complete).
Finished(x, o) ==
    [x EXCEPT !.report[Item(x)] = "COMPLETED", !.answer = "none",
              !.pc = IF o = "failed" /\ ~x.continue_after_failed THEN "idle" ELSE "next",
              !.status = IF o = "failed" /\ ~x.continue_after_failed
                         THEN "stopped-failed" ELSE "none",
              !.k = @ + 1]

\* The loop goes on or stops after its attempt was completed.
LEMMA FinishedOK ==
    ASSUME NEW x \in Run, NEW L, NEW C, RestOK(x, L), x.pc = "complete", x.db # 0,
           x.k \in DOMAIN x.selected, x.k \in Nat, Item(x) \in Ids,
           x.answer \in Outcomes \cup {"none"},
           L[x.db].event[Item(x)].state = "COMPLETED",
           L[x.db].event[Item(x)].outcome = x.answer,
           L[x.db].event[Item(x)].digest = x.digest
    PROVE  /\ RunOK(Finished(x, x.answer), L, C)
           /\ Finished(x, x.answer).db = x.db
           /\ Finished(x, x.answer).pc \in {"idle", "next"}
  <1>. DEFINE o == x.answer  a == Item(x)  y == Finished(x, o)
              stop == o = "failed" /\ ~x.continue_after_failed
  <1>0. /\ x.report \in [Ids -> {"none", "CLAIMED", "COMPLETED", "UNKNOWN"}]
        /\ [x.report EXCEPT ![a] = "COMPLETED"]
              \in [Ids -> {"none", "CLAIMED", "COMPLETED", "UNKNOWN"}]
        /\ x.k + 1 \in Nat
    BY DEF Run
  <1>1. /\ y.pc = IF stop THEN "idle" ELSE "next"
        /\ y.db = x.db /\ y.selected = x.selected
        /\ y.digest = x.digest /\ y.continue_after_failed = x.continue_after_failed
        /\ y.completed = x.completed /\ y.k = x.k + 1
        /\ y.status = IF stop THEN "stopped-failed" ELSE "none"
        /\ y.report = [x.report EXCEPT ![a] = "COMPLETED"]
    BY DEF Finished, Run
  <1>2. y \in Run
    <2>1. (IF stop THEN "idle" ELSE "next") \in {"idle", "next"}
      OBVIOUS
    <2>2. (IF stop THEN "stopped-failed" ELSE "none") \in {"stopped-failed", "none"}
      OBVIOUS
    <2>. QED
      BY <1>0, <2>1, <2>2 DEF Finished, Run
  <1>. HIDE DEF y
  <1>3. FileOK(y, L)
    BY <1>1 DEF RestOK, FileOK, Creating
  <1>4. ReportOK(y, L)
    <2>1. \A b \in Ids \ {a} : y.report[b] = x.report[b]
      BY <1>0, <1>1
    <2>2. y.report[a] = "COMPLETED"
      BY <1>0, <1>1
    <2>3. y.status # "complete"
      BY <1>1
    <2>. QED
      BY <1>1, <2>1, <2>2, <2>3 DEF RestOK, ReportOK
  <1>5. BatchOK(y, L)
    <2>1. \A e : Good(x, e) <=> Good(y, e)
      BY <1>1 DEF Good
    <2>2. ~stop => Good(x, L[x.db].event[a])
      BY DEF Good
    <2>3. /\ \A i \in 1..(x.k - 1) :
                 i \in DOMAIN x.selected => Good(x, L[x.db].event[x.selected[i]])
          /\ \A b \in x.completed : Good(x, L[x.db].event[b])
      BY DEF RestOK, BatchOK, InBatch, AtItem, Owning
    <2>4. \A i \in 1..(y.k - 1) : i \in 1..(x.k - 1) \/ i = x.k
      BY <1>1
    <2>5. ~stop => \A i \in 1..(y.k - 1) :
              i \in DOMAIN y.selected => Good(y, L[y.db].event[y.selected[i]])
      BY <1>1, <2>1, <2>2, <2>3, <2>4 DEF Item
    <2>6. \A b \in y.completed : Good(y, L[y.db].event[b])
      BY <1>1, <2>1, <2>3
    <2>7. y.k # 0
      BY <1>1
    <2>8. y.pc \in InBatch => ~stop
      BY <1>1 DEF InBatch, AtItem, Owning
    <2>. HIDE DEF stop
    <2>9. y.pc \notin BeforeBatch /\ y.pc \notin AtItem
      BY <1>1 DEF BeforeBatch, AtItem, Owning
    <2>. QED
      BY <2>5, <2>6, <2>7, <2>8, <2>9 DEF BatchOK
  <1>6. ClaimOK(y, L, C)
    BY <1>1 DEF ClaimOK, Owning
  <1>7. RunOK(y, L, C) /\ y.db = x.db /\ y.pc \in {"idle", "next"}
    BY <1>1, <1>2, <1>3, <1>4, <1>5, <1>6 DEF RunOK, RestOK
  <1>. QED
    BY <1>7 DEF y

\* The record of a command line that reports its attempt and ends (MarkUnknown).
GivenUp(x, state) ==
    [x EXCEPT !.pc = "idle", !.status = "stopped-unknown", !.answer = "none",
              !.report[Item(x)] = state]

\* The report says what the ledger holds, or at least that the attempt was spent.
LEMMA GivenUpOK ==
    ASSUME NEW x \in Run, NEW L, NEW C, RestOK(x, L), x.db # 0, x.pc \notin Creating,
           Item(x) \in Ids, NEW state \in {"CLAIMED", "UNKNOWN"},
           L[x.db].event[Item(x)].state # "PENDING",
           state = "UNKNOWN" => L[x.db].event[Item(x)].state = "UNKNOWN"
    PROVE  /\ RunOK(GivenUp(x, state), L, C)
           /\ GivenUp(x, state).db = x.db /\ GivenUp(x, state).pc = "idle"
  <1>. DEFINE a == Item(x)  y == GivenUp(x, state)
  <1>0. /\ x.report \in [Ids -> {"none", "CLAIMED", "COMPLETED", "UNKNOWN"}]
        /\ [x.report EXCEPT ![a] = state]
              \in [Ids -> {"none", "CLAIMED", "COMPLETED", "UNKNOWN"}]
    BY DEF Run
  <1>1. /\ y.pc = "idle" /\ y.db = x.db /\ y.k = x.k
        /\ y.status = "stopped-unknown" /\ y.report = [x.report EXCEPT ![a] = state]
    BY DEF GivenUp, Run
  <1>2. y \in Run
    BY <1>0 DEF GivenUp, Run
  <1>. HIDE DEF y
  <1>3. FileOK(y, L)
    BY <1>1 DEF RestOK, FileOK, Creating
  <1>4. ReportOK(y, L)
    <2>1. \A b \in Ids \ {a} : y.report[b] = x.report[b]
      BY <1>0, <1>1
    <2>2. y.report[a] = state /\ state # "COMPLETED"
      BY <1>0, <1>1
    <2>. QED
      BY <1>1, <2>1, <2>2 DEF RestOK, ReportOK
  <1>5. BatchOK(y, L) /\ ClaimOK(y, L, C)
    BY <1>1 DEF RestOK, BatchOK, ClaimOK, BeforeBatch, InBatch, AtItem, Owning
  <1>6. RunOK(y, L, C) /\ y.db = x.db /\ y.pc = "idle"
    BY <1>1, <1>2, <1>3, <1>4, <1>5 DEF RunOK, RestOK
  <1>. QED
    BY <1>6 DEF y

\* Complete.
LEMMA CompleteInv == ASSUME BInv, NEW r \in Runners, Complete(r) PROVE BInv'
  <1>. DEFINE x == run[r]  a == Item(x)  o == x.answer
  <1>1. x.pc = "complete" /\ x.pc \in AtItem /\ UNCHANGED <<path, stale, calls>>
    BY DEF Complete, AtItem, Owning
  <1>2. /\ x \in Run /\ RestOK(x, ledger) /\ ClaimOK(x, ledger, calls) /\ x.db \in Ledgers
        /\ x.db # 0 /\ x.k \in DOMAIN x.selected /\ x.k \in Nat /\ a \in Ids /\ a = Current(r)
    BY <1>1, AtItemIs
  <1>3. o \in Outcomes \cup {"none"}
    BY <1>2 DEF Run
  <1>4. CASE Goto(r, "unknown") /\ UNCHANGED ledger
    BY <1>1, <1>2, <1>4, GotoInv DEF Creating, Pcs, BeforeBatch, InBatch, AtItem, Owning
  <1>5. CASE State(r, Current(r)) = "CLAIMED" /\ Record(r, Current(r), "COMPLETED", o)
    <2>. DEFINE e == ledger'[x.db].event[a]
    <2>1. /\ ledger' \in [Ledgers -> Ledger]
          /\ AtItemOnly(x, ledger, ledger', calls, calls')
          /\ RestOK(x, ledger')
          /\ e.state = "COMPLETED" /\ e.outcome = o /\ e.digest = x.digest
      BY <1>1, <1>3, <1>5, DecisionWritten
    <2>2. calls' \in [Ledgers -> [Ids -> Nat]]
      BY <1>1 DEF BInv
    <2>3. CASE Goto(r, "unknown")
      <3>. DEFINE y == [x EXCEPT !.pc = "unknown"]
      <3>1. Moves(r) /\ run'[r] = y
        BY <2>3, GotoIs DEF BInv, Pcs, InBatch, AtItem, Owning
      <3>2. y.pc = "unknown" /\ y.db = x.db /\ y.digest = x.digest /\ Item(y) = a
        BY <1>2 DEF Run, Item
      <3>. HIDE DEF y
      <3>3. ClaimOK(y, ledger', calls')
        BY <2>1, <3>2 DEF ClaimOK
      <3>4. RunOK(y, ledger', calls')
        BY <1>1, <1>2, <2>1, <3>3, PcOK
          DEF y, Creating, Pcs, BeforeBatch, InBatch, AtItem, Owning
      <3>. QED
        BY <1>1, <2>1, <2>2, <3>1, <3>2, <3>4, ItemInv DEF Creating, Owning
    <2>4. CASE run' = [run EXCEPT ![r] = Finished(x, o)]
      <3>. DEFINE y == Finished(x, o)
      <3>1. RunOK(y, ledger', calls') /\ y.db = x.db /\ y.pc \in {"idle", "next"}
        BY <1>1, <1>2, <1>3, <2>1, FinishedOK
      <3>. HIDE DEF y
      <3>2. y \in Run
        BY <3>1 DEF RunOK, RestOK
      <3>3. Moves(r) /\ run'[r] = y
        BY <2>4, <3>2 DEF Moves, BInv, y
      <3>. QED
        BY <1>1, <2>1, <2>2, <3>1, <3>3, ItemInv DEF Creating, Owning
    <2>5. \/ Goto(r, "unknown")
          \/ run' = [run EXCEPT ![r].report[a] = "COMPLETED", ![r].answer = "none",
                             ![r].pc = IF o = "failed" /\ ~run[r].continue_after_failed
                                       THEN "idle" ELSE "next",
                             ![r].status = IF o = "failed" /\ ~run[r].continue_after_failed
                                           THEN "stopped-failed" ELSE "none",
                             ![r].k = @ + 1]
      BY <1>2, <1>4 DEF Complete
    <2>. QED
      BY <2>3, <2>4, <2>5 DEF Finished
  <1>. QED
    BY <1>4, <1>5 DEF Complete

\* MarkUnknown.
LEMMA MarkUnknownInv == ASSUME BInv, NEW r \in Runners, MarkUnknown(r) PROVE BInv'
  <1>. DEFINE x == run[r]  a == Item(x)
  <1>1. x.pc = "unknown" /\ x.pc \in AtItem /\ UNCHANGED <<path, stale, calls>>
    BY DEF MarkUnknown, AtItem, Owning
  <1>2. /\ x \in Run /\ RestOK(x, ledger) /\ ClaimOK(x, ledger, calls) /\ x.db \in Ledgers
        /\ x.db # 0 /\ x.k \in DOMAIN x.selected /\ x.k \in Nat /\ a \in Ids /\ a = Current(r)
    BY <1>1, AtItemIs
  <1>3. ledger[x.db].event[a].state # "PENDING"
    BY <1>1, <1>2 DEF ClaimOK, Owning
  <1>4. \/ /\ State(r, Current(r)) = "CLAIMED" /\ Record(r, Current(r), "UNKNOWN", "none")
           /\ \/ \E state \in {"CLAIMED", "UNKNOWN"} :
                     run' = [run EXCEPT ![r] = GivenUp(x, state)]
              \/ Ends(r, "rejected")
        \/ run' = [run EXCEPT ![r] = GivenUp(x, "CLAIMED")] /\ UNCHANGED ledger
    BY <1>2 DEF MarkUnknown, GivenUp
  <1>5. ASSUME NEW state \in {"CLAIMED", "UNKNOWN"}, run' = [run EXCEPT ![r] = GivenUp(x, state)],
               NEW L, RestOK(x, L), L[x.db].event[a].state # "PENDING",
               state = "UNKNOWN" => L[x.db].event[a].state = "UNKNOWN"
        PROVE  /\ RunOK(run'[r], L, calls') /\ Moves(r)
               /\ run'[r].db = x.db /\ run'[r].pc = "idle"
    <2>. DEFINE y == GivenUp(x, state)
    <2>1. RunOK(y, L, calls') /\ y.db = x.db /\ y.pc = "idle"
      BY <1>1, <1>2, <1>5, GivenUpOK DEF Creating
    <2>. HIDE DEF y
    <2>2. y \in Run
      BY <2>1 DEF RunOK, RestOK
    <2>3. Moves(r) /\ run'[r] = y
      BY <1>5, <2>2 DEF Moves, BInv, y
    <2>. QED
      BY <2>1, <2>3
  <1>6. CASE run' = [run EXCEPT ![r] = GivenUp(x, "CLAIMED")] /\ UNCHANGED ledger
    BY <1>1, <1>2, <1>3, <1>5, <1>6, QuietInv DEF BInv, Creating, Owning
  <1>7. CASE State(r, Current(r)) = "CLAIMED" /\ Record(r, Current(r), "UNKNOWN", "none")
    <2>. DEFINE e == ledger'[x.db].event[a]
    <2>1. /\ ledger' \in [Ledgers -> Ledger]
          /\ AtItemOnly(x, ledger, ledger', calls, calls')
          /\ RestOK(x, ledger') /\ e.state = "UNKNOWN"
      BY <1>1, <1>7, DecisionWritten
    <2>2. calls' \in [Ledgers -> [Ids -> Nat]]
      BY <1>1 DEF BInv
    <2>3. ASSUME NEW state \in {"CLAIMED", "UNKNOWN"},
                 run' = [run EXCEPT ![r] = GivenUp(x, state)]
          PROVE  BInv'
      <3>1. /\ RunOK(run'[r], ledger', calls') /\ Moves(r)
            /\ run'[r].db = x.db /\ run'[r].pc = "idle"
        BY <1>5, <2>1, <2>3
      <3>. QED
        BY <1>1, <2>1, <2>2, <3>1, ItemInv DEF Creating, Owning
    <2>4. CASE Ends(r, "rejected")
      <3>1. Moves(r) /\ run'[r] = EndOf(x, "rejected")
        BY <2>4, EndsIs DEF BInv, Statuses
      <3>2. run'[r].pc = "idle" /\ run'[r].db = x.db
        BY <1>2, <3>1 DEF Run, EndOf
      <3>3. RunOK(run'[r], ledger', calls')
        BY <1>1, <1>2, <2>1, <3>1, EndOK DEF Creating, Statuses
      <3>. QED
        BY <1>1, <2>1, <2>2, <3>1, <3>2, <3>3, ItemInv DEF Creating, Owning
    <2>5. CASE run' = [run EXCEPT ![r] = GivenUp(x, "CLAIMED")]
      BY <2>3, <2>5
    <2>. QED
      BY <1>4, <2>3, <2>4, <2>5
  <1>. QED
    BY <1>4, <1>6, <1>7

----------------------------------------------------------------------------
(* Invariance                                                              *)

\* Nothing has been made yet.
LEMMA InitInv == Init => BInv
  <1>. SUFFICES ASSUME Init PROVE BInv
    OBVIOUS
  <1>1. /\ path = 0 /\ ledger = [g \in Ledgers |-> NoLedger] /\ stale = FALSE
        /\ run = [r \in Runners |-> IdleRun] /\ calls = [g \in Ledgers |-> [a \in Ids |-> 0]]
    BY DEF Init
  <1>2. NoLedger \in Ledger
    <2>1. Pending \in Attempt
      BY DEF Pending, Attempt
    <2>. QED
      BY <2>1 DEF NoLedger, Ledger
  <1>3. /\ IdleRun.pc = "idle" /\ IdleRun.db = 0 /\ IdleRun.k = 1 /\ IdleRun.status = "none"
        /\ IdleRun.report = NoReport
    BY DEF IdleRun
  <1>4. FileOK(IdleRun, ledger)
    BY <1>3 DEF FileOK, Creating
  <1>5. BatchOK(IdleRun, ledger) /\ ClaimOK(IdleRun, ledger, calls) /\ ReportOK(IdleRun, ledger)
    BY <1>3 DEF BatchOK, ClaimOK, ReportOK, NoReport, InBatch, AtItem, Owning
  <1>6. RunOK(IdleRun, ledger, calls)
    BY <1>4, <1>5, IdleIsRun DEF RunOK, RestOK
  <1>7. Apart(IdleRun, IdleRun)
    BY <1>3 DEF Apart, Creating, Owning
  <1>8. NumberingOK(run, ledger, path)
    <2>1. Made(ledger) = {} /\ \A r \in Runners : run[r].pc # "schema"
      BY <1>1, <1>3 DEF Made
    <2>2. 1..0 = {} /\ 0 \in Nat
      OBVIOUS
    <2>. QED
      BY <2>1, <2>2 DEF NumberingOK
  <1>9. \A g \in Ledgers, a \in Ids : ledger[g].event[a].state = "PENDING" /\ calls[g][a] = 0
    <2>1. \A a \in Ids : NoLedger.event[a].state = "PENDING"
      BY DEF NoLedger, Pending
    <2>. QED
      BY <1>1, <2>1
  <1>10. CalledOnce /\ ClaimedLedgerIsValid
    BY <1>9 DEF CalledOnce, ClaimedLedgerIsValid
  <1>11. calls \in [Ledgers -> [Ids -> Nat]]
    BY <1>1
  <1>. QED
    BY <1>1, <1>2, <1>6, <1>7, <1>8, <1>10, <1>11, IdleIsRun DEF BInv

\* Every step keeps BInv.
LEMMA NextInv == BInv /\ [Next]_vars => BInv'
  <1>. SUFFICES ASSUME BInv, [Next]_vars PROVE BInv'
    OBVIOUS
  <1>1. ASSUME NEW r \in Runners, Step(r)
        PROVE  BInv'
    BY <1>1, CreateSchemaInv, InsertAttemptInv, DeclineInv, UnlinkInv, ActivateInv, RecheckInv,
       StartBatchInv, NextItemInv, ClaimInv, InvokeInv, AnswerInv, CompleteInv, MarkUnknownInv,
       InterruptInv DEF Step
  <1>2. CASE UNCHANGED vars
    BY <1>2 DEF vars, BInv, CalledOnce, ClaimedLedgerIsValid
  <1>. QED
    BY <1>1, <1>2, CreateFileInv, OpenExistingInv, CrashInv, RecoverStageInv DEF Next

\* The inductive invariant of the ledger and its command lines holds in every behaviour.
THEOREM BatchInvariance == Spec => []BInv
  BY InitInv, NextInv, PTL DEF Spec

\* Type correctness: files and command lines have only the values of the schema's CHECKs
\* and of R5BatchResult.
THEOREM TypeCorrect == Spec => []TypeOK
  <1>1. BInv => TypeOK
    BY DEF BInv, TypeOK
  <1>. QED
    BY <1>1, BatchInvariance, PTL

\* No ledger hands an attempt to a worker twice, or before it was claimed.
THEOREM CalledOnceHolds == Spec => []CalledOnce
  <1>1. BInv => CalledOnce
    BY DEF BInv
  <1>. QED
    BY <1>1, BatchInvariance, PTL

\* Only ledgers whose creation was finished are claimed in, and they stay acceptable.
THEOREM ClaimedLedgerIsValidHolds == Spec => []ClaimedLedgerIsValid
  <1>1. BInv => ClaimedLedgerIsValid
    BY DEF BInv
  <1>. QED
    BY <1>1, BatchInvariance, PTL

\* While a worker runs, everything before its attempt is completed on the same input.
THEOREM OrderIsKeptHolds == Spec => []OrderIsKept
  <1>1. BInv => OrderIsKept
    <2>1. ASSUME BInv, NEW r \in Runners, run[r].pc \in {"answer", "complete"},
                 NEW i \in 1..(run[r].k - 1)
          PROVE  Good(run[r], Event(r, run[r].selected[i]))
      <3>1. /\ run[r].k \in DOMAIN run[r].selected /\ run[r].k \in Nat
            /\ run[r] \in Run /\ RestOK(run[r], ledger)
        BY <2>1, AtItemIs DEF AtItem, Owning
      <3>2. i \in DOMAIN run[r].selected
        BY <3>1 DEF Run
      <3>. QED
        BY <2>1, <3>1, <3>2 DEF RestOK, BatchOK, InBatch, AtItem, Owning, Event
    <2>. QED
      BY <2>1 DEF OrderIsKept, Good
  <1>. QED
    BY <1>1, BatchInvariance, PTL

\* A batch that says "complete" is, and no report makes an attempt look less spent.
THEOREM ReportIsTrueHolds == Spec => []ReportIsTrue
  <1>1. BInv => ReportIsTrue
    BY DEF BInv, RunOK, RestOK, ReportOK, ReportIsTrue, State, Event
  <1>. QED
    BY <1>1, BatchInvariance, PTL

----------------------------------------------------------------------------
(* What a step does to the attempts                                        *)

\* No attempt moves; a schedule may grow.
Grown ==
    /\ UNCHANGED calls
    /\ \A g \in Ledgers : /\ ledger'[g].event = ledger[g].event
                          /\ ledger[g].allowed \subseteq ledger'[g].allowed

\* Attempt a of file g, and nothing else, is claimed, called or decided.
AttemptStep(g, a) ==
    LET e == ledger[g].event[a]
        f == ledger'[g].event[a]
    IN  /\ \A h \in Ledgers : ledger'[h].allowed = ledger[h].allowed
        /\ \A h \in Ledgers, b \in Ids : h # g \/ b # a =>
               ledger'[h].event[b] = ledger[h].event[b] /\ calls'[h][b] = calls[h][b]
        /\ \/ /\ e.state = "PENDING" /\ calls[g][a] = 0
              /\ f.state = "CLAIMED" /\ calls'[g][a] = 0
           \/ /\ e.state = "CLAIMED" /\ calls[g][a] = 0
              /\ f = e /\ calls'[g][a] = 1
           \/ /\ e.state = "CLAIMED"
              /\ f.state \in {"COMPLETED", "UNKNOWN"} /\ f.digest = e.digest
              /\ calls'[g][a] = calls[g][a]

\* Claim, as the attempts see it.
LEMMA ClaimShape ==
    ASSUME BInv, NEW r \in Runners, Claim(r)
    PROVE  Grown \/ \E g \in Ledgers, a \in Ids : AttemptStep(g, a)
  <1>. DEFINE x == run[r]  a == Item(x)
              e == [state |-> "CLAIMED", digest |-> x.digest, outcome |-> "none"]
  <1>1. x.pc \in AtItem /\ UNCHANGED calls
    BY DEF Claim, AtItem
  <1>2. /\ x \in Run /\ x.db \in Ledgers /\ a \in Ids /\ a = Current(r)
        /\ calls[x.db][a] \in Nat
    BY <1>1, AtItemIs
  <1>3. CASE UNCHANGED ledger
    BY <1>1, <1>3 DEF Grown
  <1>4. CASE /\ Claimable(r, a)
             /\ ledger' = [ledger EXCEPT ![x.db].event[a] = e]
    <2>1. e \in Attempt /\ e.state = "CLAIMED"
      BY <1>2 DEF Attempt, Run
    <2>2. ledger[x.db].event[a].state = "PENDING"
      BY <1>4 DEF Claimable, State, Event
    <2>3. calls[x.db][a] <= 1 /\ calls[x.db][a] # 1
      BY <1>2, <2>2 DEF BInv, CalledOnce
    <2>. HIDE DEF e
    <2>4. EventSet(ledger', ledger, x.db, a, e)
      BY <1>2, <1>4, <2>1, EventWritten DEF BInv
    <2>5. AttemptStep(x.db, a)
      BY <1>1, <1>2, <2>1, <2>2, <2>3, <2>4 DEF AttemptStep, EventSet
    <2>. QED
      BY <1>2, <2>5
  <1>. QED
    BY <1>2, <1>3, <1>4 DEF Claim

\* Invoke, as the attempts see it.
LEMMA InvokeShape ==
    ASSUME BInv, NEW r \in Runners, Invoke(r)
    PROVE  \E g \in Ledgers, a \in Ids : AttemptStep(g, a)
  <1>. DEFINE x == run[r]  a == Item(x)
  <1>1. x.pc = "invoke" /\ x.pc \in AtItem /\ UNCHANGED ledger
    BY DEF Invoke, AtItem, Owning
  <1>2. /\ ClaimOK(x, ledger, calls) /\ x.db \in Ledgers /\ a \in Ids /\ a = Current(r)
    BY <1>1, AtItemIs
  <1>3. ledger[x.db].event[a].state = "CLAIMED" /\ calls[x.db][a] = 0
    BY <1>1, <1>2 DEF ClaimOK, Owning
  <1>4. calls' = [calls EXCEPT ![x.db][a] = @ + 1]
    BY <1>2 DEF Invoke
  <1>5. /\ calls'[x.db][a] = 1
        /\ \A g \in Ledgers, b \in Ids : g # x.db \/ b # a => calls'[g][b] = calls[g][b]
    BY <1>2, <1>3, <1>4 DEF BInv
  <1>6. AttemptStep(x.db, a)
    BY <1>1, <1>3, <1>5 DEF AttemptStep
  <1>. QED
    BY <1>2, <1>6

\* Complete and MarkUnknown, as the attempts see them.
LEMMA DecideShape ==
    ASSUME BInv, NEW r \in Runners, Complete(r) \/ MarkUnknown(r)
    PROVE  Grown \/ \E g \in Ledgers, a \in Ids : AttemptStep(g, a)
  <1>. DEFINE x == run[r]  a == Item(x)
  <1>1. x.pc \in {"complete", "unknown"} /\ x.pc \in AtItem /\ UNCHANGED calls
    BY DEF Complete, MarkUnknown, AtItem, Owning
  <1>2. /\ x \in Run /\ ClaimOK(x, ledger, calls) /\ x.db \in Ledgers /\ a \in Ids
        /\ a = Current(r)
    BY <1>1, AtItemIs
  <1>3. x.answer \in Outcomes \cup {"none"}
    BY <1>2 DEF Run
  <1>4. CASE UNCHANGED ledger
    BY <1>1, <1>4 DEF Grown
  <1>5. ASSUME NEW state \in {"COMPLETED", "UNKNOWN"}, NEW outcome \in Outcomes \cup {"none"},
               State(r, Current(r)) = "CLAIMED", Record(r, Current(r), state, outcome),
               state = "COMPLETED" => x.pc = "complete"
        PROVE  AttemptStep(x.db, a)
    <2>1. /\ AtItemOnly(x, ledger, ledger', calls, calls')
          /\ ledger'[x.db].event[a].state = state
          /\ ledger'[x.db].event[a].digest = x.digest
      BY <1>1, <1>5, DecisionWritten
    <2>2. ledger[x.db].event[a].digest = x.digest
      BY <1>1, <1>2 DEF ClaimOK, Owning
    <2>3. ledger[x.db].event[a].state = "CLAIMED"
      BY <1>2, <1>5 DEF State, Event
    <2>4. calls'[x.db][a] = calls[x.db][a]
      BY <1>1
    <2>. QED
      BY <2>1, <2>2, <2>3, <2>4 DEF AttemptStep, AtItemOnly
  <1>6. \/ UNCHANGED ledger
        \/ /\ State(r, Current(r)) = "CLAIMED" /\ x.pc = "complete"
           /\ Record(r, Current(r), "COMPLETED", x.answer)
        \/ State(r, Current(r)) = "CLAIMED" /\ Record(r, Current(r), "UNKNOWN", "none")
    BY DEF Complete, MarkUnknown
  <1>7. CASE /\ State(r, Current(r)) = "CLAIMED" /\ x.pc = "complete"
             /\ Record(r, Current(r), "COMPLETED", x.answer)
    BY <1>2, <1>3, <1>5, <1>7
  <1>8. CASE State(r, Current(r)) = "CLAIMED" /\ Record(r, Current(r), "UNKNOWN", "none")
    BY <1>2, <1>5, <1>8
  <1>. QED
    BY <1>4, <1>6, <1>7, <1>8

\* CreateSchema, InsertAttempt and Activate, as the attempts see them.
LEMMA GrowShape ==
    ASSUME BInv, NEW r \in Runners, CreateSchema(r) \/ InsertAttempt(r) \/ Activate(r)
    PROVE  Grown
  <1>. DEFINE x == run[r]
  <1>1. /\ x \in Run /\ RestOK(x, ledger) /\ x.db \in Ledgers /\ UNCHANGED calls
        /\ ledger[x.db] \in Ledger /\ ledger \in [Ledgers -> Ledger]
    BY DEF BInv, RunOK, RestOK, FileOK, Run, CreateSchema, InsertAttempt, Activate
  <1>2. CASE UNCHANGED ledger
    BY <1>1, <1>2 DEF Grown
  <1>3. ASSUME NEW l, ledger' = [ledger EXCEPT ![x.db] = l], l.event = ledger[x.db].event,
               ledger[x.db].allowed \subseteq l.allowed
        PROVE  Grown
    BY <1>1, <1>3 DEF Grown
  <1>4. CASE CreateSchema(r)
    <2>. DEFINE l == [ledger[x.db] EXCEPT !.allowed = 1..F]
    <2>1. ledger' = [ledger EXCEPT ![x.db] = l]
      BY <1>4 DEF CreateSchema
    <2>2. ledger[x.db].allowed = {}
      BY <1>1, <1>4 DEF CreateSchema, RestOK, FileOK, NoLedger
    <2>3. l.event = ledger[x.db].event /\ ledger[x.db].allowed \subseteq l.allowed
      BY <1>1, <2>2 DEF Ledger
    <2>. HIDE DEF l
    <2>. QED
      BY <1>3, <2>1, <2>3
  <1>5. CASE InsertAttempt(r)
    <2>. DEFINE l == [ledger[x.db] EXCEPT !.known = ledger[x.db].known
                          \cup {Cardinality(ledger[x.db].known) + 1}]
    <2>1. ledger' = [ledger EXCEPT ![x.db] = l]
      BY <1>5 DEF InsertAttempt
    <2>2. l.event = ledger[x.db].event /\ ledger[x.db].allowed \subseteq l.allowed
      BY <1>1 DEF Ledger
    <2>. HIDE DEF l
    <2>. QED
      BY <1>3, <2>1, <2>2
  <1>6. CASE /\ Activate(r)
             /\ ledger' = [ledger EXCEPT ![x.db].allowed = @ \cup x.extension,
                                         ![x.db].known = @ \cup x.extension]
    <2>. DEFINE l == [ledger[x.db] EXCEPT !.allowed = @ \cup x.extension,
                                          !.known = @ \cup x.extension]
    <2>1. ledger' = [ledger EXCEPT ![x.db] = l]
      BY <1>1, <1>6
    <2>2. l.event = ledger[x.db].event /\ ledger[x.db].allowed \subseteq l.allowed
      BY <1>1 DEF Ledger
    <2>. HIDE DEF l
    <2>. QED
      BY <1>3, <2>1, <2>2
  <1>. QED
    BY <1>2, <1>4, <1>5, <1>6 DEF Activate

\* Every step.
LEMMA StepShape ==
    ASSUME BInv, [Next]_vars
    PROVE  Grown \/ \E g \in Ledgers, a \in Ids : AttemptStep(g, a)
  <1>1. CASE UNCHANGED <<ledger, calls>>
    BY <1>1 DEF Grown
  <1>2. ASSUME NEW r \in Runners, Step(r)
        PROVE  \/ UNCHANGED <<ledger, calls>> \/ Grown
               \/ \E g \in Ledgers, a \in Ids : AttemptStep(g, a)
    <2>1. CASE Decline(r) \/ Unlink(r) \/ Recheck(r) \/ StartBatch(r) \/ NextItem(r)
      BY <2>1 DEF Decline, Unlink, Recheck, StartBatch, NextItem
    <2>2. CASE Answer(r) \/ Interrupt(r)
      BY <2>2 DEF Answer, Interrupt
    <2>. QED
      BY <1>2, <2>1, <2>2, ClaimShape, InvokeShape, DecideShape, GrowShape DEF Step
  <1>3. ASSUME NEW r \in Runners, Crash(r)
        PROVE  UNCHANGED <<ledger, calls>>
    BY <1>3 DEF Crash
  <1>4. ASSUME NEW r \in Runners, NEW d \in Digests, CreateFile(r, d)
        PROVE  UNCHANGED <<ledger, calls>>
    BY <1>4 DEF CreateFile
  <1>5. ASSUME NEW r \in Runners, NEW s, NEW d, NEW c, OpenExisting(r, s, d, c)
        PROVE  UNCHANGED <<ledger, calls>>
    BY <1>5 DEF OpenExisting
  <1>. QED
    BY <1>1, <1>2, <1>3, <1>4, <1>5 DEF Next, vars, RecoverStage

\* No decision is taken back, and the schedule of a ledger only grows.
THEOREM EvidenceOnlyGrowsHolds == Spec => EvidenceOnlyGrows
  <1>. DEFINE A == \A g \in Ledgers :
                /\ ledger[g].allowed \subseteq ledger'[g].allowed
                /\ \A a \in Ids :
                    LET e == ledger[g].event[a]
                        f == ledger'[g].event[a]
                    IN  /\ e.state # "PENDING" => f.state # "PENDING" /\ f.digest = e.digest
                        /\ e.state \in {"COMPLETED", "UNKNOWN"} => f = e
  <1>1. BInv /\ [Next]_vars => A
    <2>1. CASE Grown
      BY <2>1 DEF Grown
    <2>2. ASSUME NEW g \in Ledgers, NEW a \in Ids, AttemptStep(g, a)
          PROVE  A
      <3>1. ASSUME NEW h \in Ledgers, NEW b \in Ids
            PROVE  LET e == ledger[h].event[b]
                       f == ledger'[h].event[b]
                   IN  /\ e.state # "PENDING" => f.state # "PENDING" /\ f.digest = e.digest
                       /\ e.state \in {"COMPLETED", "UNKNOWN"} => f = e
        <4>1. CASE h # g \/ b # a
          BY <2>2, <4>1 DEF AttemptStep
        <4>2. CASE h = g /\ b = a
          BY <2>2, <4>2 DEF AttemptStep
        <4>. QED
          BY <4>1, <4>2
      <3>. QED
        BY <2>2, <3>1 DEF AttemptStep
    <2>. QED
      BY <2>1, <2>2, StepShape
  <1>2. BInv /\ [Next]_vars => [A]_vars
    BY <1>1
  <1>. QED
    BY <1>2, BatchInvariance, PTL DEF Spec, EvidenceOnlyGrows

\* The ledger keeps the promise of OneShot: each attempt of each file is spent before
\* its worker is called, called at most once, and left alone once it is decided, although
\* claiming, calling and deciding are transactions of different command lines.
THEOREM BatchRefinement == Spec => Implements
  <1>. DEFINE phase == [x \in Ledgers \X Ids |-> Phase(x[1], x[2])]
  <1>1. Init => Promise!OneShotInit
    <2>1. NoLedger.event = [a \in Ids |-> Pending] /\ Pending.state = "PENDING"
      BY DEF NoLedger, Pending
    <2>2. Init => \A g \in Ledgers, a \in Ids : Phase(g, a) = "pending"
      BY <2>1 DEF Init, Phase
    <2>. QED
      BY <2>2 DEF Promise!OneShotInit
  <1>2. ASSUME BInv, BInv', [Next]_vars
        PROVE  [Promise!OneShotNext]_phase
    <2>1. CASE Grown
      <3>1. \A g \in Ledgers, a \in Ids : Phase(g, a)' = Phase(g, a)
        BY <2>1 DEF Grown, Phase
      <3>2. phase' = phase
        BY <3>1
      <3>. QED
        BY <3>2
    <2>2. ASSUME NEW g \in Ledgers, NEW a \in Ids, AttemptStep(g, a)
          PROVE  Promise!OneShotNext
      <3>. DEFINE x == <<g, a>>
      <3>1. \A h \in Ledgers, b \in Ids : h # g \/ b # a => Phase(h, b)' = Phase(h, b)
        BY <2>2 DEF AttemptStep, Phase
      <3>2. phase' = [phase EXCEPT ![x] = Phase(g, a)']
        <4>1. \A y \in Ledgers \X Ids : /\ y[1] \in Ledgers /\ y[2] \in Ids
                                        /\ y # x => y[1] # g \/ y[2] # a
          OBVIOUS
        <4>2. \A y \in Ledgers \X Ids :
                  Phase(y[1], y[2])' = IF y = x THEN Phase(g, a)' ELSE Phase(y[1], y[2])
          BY <3>1, <4>1
        <4>. QED
          BY <4>2
      <3>3. phase[x] = Phase(g, a) /\ x \in Ledgers \X Ids
        OBVIOUS
      <3>4. calls[g][a] \in Nat /\ calls'[g][a] \in Nat
        BY <1>2 DEF BInv
      <3>5. \/ Phase(g, a) = "pending" /\ Phase(g, a)' = "spent"
            \/ Phase(g, a) = "spent" /\ Phase(g, a)' = "called"
            \/ Phase(g, a) \in {"spent", "called"} /\ Phase(g, a)' = "decided"
        BY <2>2, <3>4 DEF AttemptStep, Phase
      <3>6. Promise!Spend(x) \/ Promise!Call(x) \/ Promise!Decide(x)
        <4>. HIDE DEF phase, x
        <4>1. \/ Promise!Becomes(x, {"pending"}, "spent")
              \/ Promise!Becomes(x, {"spent"}, "called")
              \/ Promise!Becomes(x, {"spent", "called"}, "decided")
          BY <3>2, <3>3, <3>5 DEF Promise!Becomes, phase
        <4>. QED
          BY <4>1 DEF Promise!Spend, Promise!Call, Promise!Decide
      <3>. QED
        BY <3>3, <3>6 DEF Promise!OneShotNext
    <2>. QED
      BY <1>2, <2>1, <2>2, StepShape
  <1>. QED
    BY <1>1, <1>2, BatchInvariance, PTL DEF Spec, Implements, Promise!OneShotSpec
====
