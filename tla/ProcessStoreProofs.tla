-------------------------- MODULE ProcessStoreProofs --------------------------
(***************************************************************************)
(* The process store for any number of clients, processes and transitions. *)
(***************************************************************************)
EXTENDS ProcessStore, TLAPS

\* The states a process can be in only after it was authorized.
PostAuth == {"authorized", "executing", "verifying", "staged", "waiting_approval",
             "quarantined"}

\* What the workflow graph says of its edges.
LEMMA Edges ==
    ASSUME NEW s \in States, NEW t, NEW e, Transition(s, t, e)
    PROVE  /\ t \in States
           /\ t = "staged" => s = "verifying" /\ "verification_passed" \in e
           /\ t = "waiting_approval" => s = "staged"
           /\ t = "applying" => s = "waiting_approval" /\ "approval_valid" \in e
           /\ t = "authorized" => "policy_allowed" \in e
           /\ t \in PostAuth \ {"authorized"} => s \in PostAuth
  <1>1. /\ Required("verifying", "staged") = {"verification_passed", "staged_digest"}
        /\ Required("waiting_approval", "applying") = {"approval_valid", "staged_digest"}
        /\ Required("specified", "authorized") = {"policy_allowed"}
    BY DEF Required
  <1>2. t \in Normal[s] /\ Required(s, t) \subseteq e
    BY DEF Transition
  <1>3. /\ t \in States
        /\ t = "staged" => s = "verifying"
        /\ t = "waiting_approval" => s = "staged"
        /\ t = "applying" => s = "waiting_approval"
        /\ t = "authorized" => s = "specified"
        /\ t \in PostAuth \ {"authorized"} => s \in PostAuth
    BY <1>2 DEF Normal, States, PostAuth
  <1>. QED
    BY <1>1, <1>2, <1>3

----------------------------------------------------------------------------
(* The inductive invariant                                                  *)

\* A caller's version is of an existing process and not ahead of it; what it checked
\* still holds as long as its version is current.
CallOK(c) ==
    /\ call[c].step # "idle" =>
            Exists(call[c].process) /\ call[c].version <= rows[call[c].process].version
    /\ call[c].step = "write" =>
            /\ Transition(call[c].from, call[c].to, call[c].evidence)
            /\ call[c].version = rows[call[c].process].version
                    => call[c].from = rows[call[c].process].state

\* The events of p that are at or below version n.
At(e, p, n) == e.process = p /\ e.sequence = n

Chain(p) ==
    /\ \A n \in 0..rows[p].version : \E d \in events : At(d, p, n)
    /\ \A d, e \in events : d.process = p /\ e.process = p =>
            /\ d.sequence <= rows[p].version
            /\ d.sequence = e.sequence => d = e
            /\ e.sequence = d.sequence + 1 => e.previous = d.state
            /\ d.sequence = rows[p].version => d.state = rows[p].state

\* A passed verification that p has not executed after.
Verified(p) ==
    \E d \in events :
        /\ d.process = p /\ d.state = "staged" /\ "verification_passed" \in d.evidence
        /\ \A m \in events : m.process = p /\ d.sequence < m.sequence => m.state # "executing"

Allowed(p) ==
    \E d \in events : d.process = p /\ d.state = "authorized" /\ "policy_allowed" \in d.evidence

ProcessOK(p) ==
    /\ ~Exists(p) => \A d \in events : d.process # p
    /\ Exists(p) => Chain(p)
    /\ rows[p].state \in {"staged", "waiting_approval"} => Verified(p)
    /\ rows[p].state \in PostAuth => Allowed(p)

SInv ==
    /\ TypeOK
    /\ \A c \in Clients : CallOK(c)
    /\ \A p \in Processes : ProcessOK(p)
    /\ AppliedWasVerified
    /\ ExecutedWasAllowed

LEMMA StoreInit == Init => SInv
  <1> SUFFICES ASSUME Init PROVE SInv
    OBVIOUS
  <1>. USE DEF Init
  <1>1. NoRow \in Row /\ NoRow.state = "none"
    BY DEF NoRow, Row
  <1>2. call \in [Clients -> Call] /\ \A c \in Clients : call[c].step = "idle"
    BY DEF Call, States
  <1>3. TypeOK
    BY <1>1, <1>2 DEF TypeOK
  <1>4. \A c \in Clients : CallOK(c)
    BY <1>2 DEF CallOK
  <1>5. \A p \in Processes : ProcessOK(p)
    BY <1>1 DEF ProcessOK, Exists, PostAuth
  <1>6. AppliedWasVerified /\ ExecutedWasAllowed
    BY DEF AppliedWasVerified, ExecutedWasAllowed
  <1>. QED
    BY <1>3, <1>4, <1>5, <1>6 DEF SInv

\* A step that leaves the tables alone owes only its own call.
LEMMA CallStep ==
    ASSUME SInv, UNCHANGED <<rows, events>>, audits' \in [Processes -> Nat],
           call' \in [Clients -> Call],
           \A c \in Clients : CallOK(c)'
    PROVE  SInv'
  <1>1. TypeOK'
    BY DEF SInv, TypeOK
  <1>2. ASSUME NEW p \in Processes PROVE ProcessOK(p)'
    <2>1. ProcessOK(p)
      BY DEF SInv
    <2>. QED
      BY <2>1 DEF ProcessOK, Exists, Chain, Verified, Allowed, At
  <1>3. AppliedWasVerified' /\ ExecutedWasAllowed'
    BY DEF SInv, AppliedWasVerified, ExecutedWasAllowed
  <1>. QED
    BY <1>1, <1>2, <1>3 DEF SInv

\* Reads, audit events and aborted calls.
LEMMA ReadsInv ==
    ASSUME SInv, NEW c \in Clients,
           \/ \E p \in Processes : Get(c, p) \/ AppendAuditEvent(c, p)
           \/ \E t \in States, e \in Evidence : AdvanceReads(c, t, e)
           \/ Reread(c) \/ Abort(c)
    PROVE  SInv'
  <1>1. /\ UNCHANGED <<rows, events>> /\ audits' \in [Processes -> Nat]
    <2>1. audits \in [Processes -> Nat]
      BY DEF SInv, TypeOK
    <2>2. ASSUME NEW p \in Processes, Get(c, p) \/ AppendAuditEvent(c, p) PROVE <1>1!:
      <3>1. /\ UNCHANGED <<rows, events>>
            /\ audits' = audits \/ audits' = [audits EXCEPT ![p] = @ + 1]
        BY <2>2 DEF Get, AppendAuditEvent
      <3>. QED
        BY <2>1, <3>1
    <2>3. ASSUME NEW t, NEW e, AdvanceReads(c, t, e) PROVE <1>1!:
      BY <2>1, <2>3 DEF AdvanceReads
    <2>4. CASE Reread(c) \/ Abort(c)
      BY <2>1, <2>4 DEF Reread, Abort
    <2>. QED
      BY <2>2, <2>3, <2>4
  <1>2. /\ call \in [Clients -> Call] /\ call[c] \in Call /\ CallOK(c)
        /\ rows \in [Processes -> Row]
    BY DEF SInv, TypeOK
  <1>3. call' \in [Clients -> Call] /\ CallOK(c)' /\ \A b \in Clients : b # c => call'[b] = call[b]
    <2>1. CASE \E p \in Processes : AppendAuditEvent(c, p)
      BY <1>1, <1>2, <2>1 DEF AppendAuditEvent, CallOK, Exists
    <2>2. ASSUME NEW p \in Processes, Get(c, p) PROVE <1>3!:
      <3>1. rows[p].version \in Nat /\ Exists(p)
        BY <1>2, <2>2 DEF Row, Get
      <3>2. /\ call' \in [Clients -> Call] /\ \A b \in Clients : b # c => call'[b] = call[b]
            /\ call'[c].step = "versioned" /\ call'[c].process = p
            /\ call'[c].version = rows[p].version
        BY <1>2, <2>2, <3>1 DEF Get, Call
      <3>. QED
        BY <1>1, <3>1, <3>2 DEF CallOK, Exists
    <2>3. CASE Idle(c)
      <3>1. /\ call' \in [Clients -> Call] /\ \A b \in Clients : b # c => call'[b] = call[b]
            /\ call'[c].step = "idle"
        BY <1>2, <2>3 DEF Idle, Return, Call, States
      <3>. QED
        BY <3>1 DEF CallOK
    <2>4. ASSUME NEW t \in States, NEW e \in Evidence, AdvanceReads(c, t, e), ~Idle(c)
          PROVE  <1>3!:
      <3> DEFINE p == call[c].process
      <3>1. /\ p \in Processes /\ rows[p] \in Row /\ e \in SUBSET Flags
            /\ call[c].step = "versioned" /\ Exists(p) /\ call[c].version <= rows[p].version
            /\ rows[p].state \in States
        <4>1. call[c].step = "versioned"
          BY <2>4 DEF AdvanceReads
        <4>2. p \in Processes /\ Exists(p) /\ call[c].version <= rows[p].version
          BY <1>2, <4>1 DEF Call, CallOK
        <4>3. rows[p] \in Row /\ rows[p].state \in States
          BY <1>2, <4>2 DEF Row, Exists
        <4>4. e \in SUBSET Flags
          BY <2>4, StoreAssumption
        <4>. QED
          BY <4>1, <4>2, <4>3, <4>4
      <3>2. /\ Transition(rows[p].state, t, e)
            /\ call' = [call EXCEPT ![c].step = "write", ![c].from = rows[p].state,
                                    ![c].to = t, ![c].evidence = e]
        BY <2>4 DEF AdvanceReads
      <3>3. /\ call' \in [Clients -> Call] /\ \A b \in Clients : b # c => call'[b] = call[b]
            /\ call'[c].step = "write" /\ call'[c].process = p
            /\ call'[c].version = call[c].version /\ call'[c].from = rows[p].state
            /\ call'[c].to = t /\ call'[c].evidence = e
        BY <1>2, <3>1, <3>2 DEF Call
      <3>. QED
        BY <1>1, <3>1, <3>2, <3>3 DEF CallOK, Exists
    <2>5. Abort(c) => Idle(c)
      BY DEF Abort
    <2>6. CASE Reread(c)
      <3>1. /\ call[c].step = "reread" /\ call[c].process \in Processes
            /\ call' = [call EXCEPT ![c].step = "versioned",
                                    ![c].version = rows[call[c].process].version]
        BY <1>2, <2>6 DEF Reread, Call
      <3>2. rows[call[c].process].version \in Nat /\ Exists(call[c].process)
        BY <1>2, <3>1 DEF CallOK, Row
      <3>3. /\ call' \in [Clients -> Call] /\ \A b \in Clients : b # c => call'[b] = call[b]
            /\ call'[c].step = "versioned" /\ call'[c].process = call[c].process
            /\ call'[c].version = rows[call[c].process].version
        BY <1>2, <3>1, <3>2 DEF Call
      <3>. QED
        BY <1>1, <3>2, <3>3 DEF CallOK, Exists
    <2>. QED
      BY <2>1, <2>2, <2>3, <2>4, <2>5, <2>6
  <1>4. ASSUME NEW b \in Clients PROVE CallOK(b)'
    <2>1. CallOK(b)
      BY DEF SInv
    <2>. QED
      BY <1>1, <1>3, <2>1 DEF CallOK, Exists
  <1>. QED
    BY <1>1, <1>3, <1>4, CallStep

\* What writing the event x of process p, at the next version, does.
Appends(p, x) ==
    /\ events' = events \cup {x}
    /\ x \in Event /\ x.process = p
    /\ rows' = [rows EXCEPT ![p] = [state |-> x.state, version |-> x.sequence]]
    /\ \A d \in events : d.process = p => d.sequence < x.sequence
    /\ IF Exists(p)
       THEN /\ x.sequence = rows[p].version + 1
            /\ x.previous = rows[p].state
            /\ Transition(x.previous, x.state, x.evidence)
       ELSE x.sequence = 0 /\ x.state = "received"

\* An appended event keeps the chain and the two histories.
LEMMA AppendStep ==
    ASSUME SInv, NEW p \in Processes, NEW x, Appends(p, x),
           call' \in [Clients -> Call], UNCHANGED audits,
           \A c \in Clients : CallOK(c)'
    PROVE  SInv'
  <1>1. /\ rows \in [Processes -> Row] /\ events \subseteq Event /\ rows[p] \in Row
        /\ \A d \in events : d \in Event /\ d.sequence \in Nat
        /\ x \in Event /\ x.sequence \in Nat /\ x.state \in States /\ x.process = p
        /\ "none" \notin States
    BY DEF SInv, TypeOK, Appends, Event, States
  <1>2. /\ rows' \in [Processes -> Row] /\ rows'[p].state = x.state
        /\ rows'[p].version = x.sequence /\ Exists(p)'
        /\ \A q \in Processes : q # p => rows'[q] = rows[q]
    BY <1>1 DEF Appends, Row, Exists
  <1>3. /\ events' = events \cup {x}
        /\ \A d \in events : d.process = p => d.sequence < x.sequence
    BY DEF Appends
  <1>4. TypeOK'
    BY <1>1, <1>2, <1>3 DEF SInv, TypeOK
  <1>5. ASSUME NEW q \in Processes, q # p PROVE ProcessOK(q)'
    <2>1. ProcessOK(q) /\ rows'[q] = rows[q]
      BY <1>2, <1>5 DEF SInv
    <2>2. \A d \in events' : d.process = q <=> d \in events /\ d.process = q
      BY <1>1, <1>3, <1>5
    <2>3. Exists(q)' = Exists(q) /\ (Exists(q) => Chain(q)')
      <3>1. Exists(q)' = Exists(q)
        BY <2>1 DEF Exists
      <3>2. Exists(q) => Chain(q)
        BY <2>1 DEF ProcessOK
      <3>3. Chain(q) => Chain(q)'
        BY <1>3, <2>1, <2>2 DEF Chain, At
      <3>. QED
        BY <3>1, <3>2, <3>3
    <2>4. (Verified(q) => Verified(q)') /\ (Allowed(q) => Allowed(q)')
      BY <1>3, <2>2 DEF Verified, Allowed
    <2>. QED
      BY <2>1, <2>2, <2>3, <2>4 DEF ProcessOK
  <1>6. Exists(p) => /\ ProcessOK(p) /\ Chain(p)
                     /\ x.sequence = rows[p].version + 1 /\ x.previous = rows[p].state
                     /\ Transition(x.previous, x.state, x.evidence)
                     /\ rows[p].state \in States /\ rows[p].version \in Nat
    BY <1>1 DEF SInv, ProcessOK, Appends, Row, Exists
  <1>7. ~Exists(p) => /\ x.sequence = 0 /\ x.state = "received"
                      /\ \A d \in events : d.process # p
    BY DEF SInv, ProcessOK, Appends
  <1>8. Chain(p)'
    <2>1. CASE ~Exists(p)
      BY <1>1, <1>2, <1>3, <1>7, <2>1 DEF Chain, At
    <2>2. CASE Exists(p)
      <3>1. ASSUME NEW n \in 0..x.sequence PROVE \E d \in events' : At(d, p, n)
        <4>1. CASE n = x.sequence
          BY <1>1, <1>3, <4>1 DEF At
        <4>2. CASE n # x.sequence
          BY <1>1, <1>3, <1>6, <2>2, <4>2 DEF Chain
        <4>. QED
          BY <4>1, <4>2
      <3>2. ASSUME NEW d \in events', NEW e \in events', d.process = p, e.process = p
            PROVE  /\ d.sequence <= x.sequence
                   /\ d.sequence = e.sequence => d = e
                   /\ e.sequence = d.sequence + 1 => e.previous = d.state
                   /\ d.sequence = x.sequence => d.state = x.state
        <4>1. CASE d \in events /\ e \in events
          BY <1>1, <1>3, <1>6, <2>2, <3>2, <4>1 DEF Chain
        <4>2. CASE d = x /\ e = x
          BY <1>1, <4>2
        <4>3. CASE d \in events /\ e = x
          BY <1>1, <1>3, <1>6, <2>2, <3>2, <4>3 DEF Chain
        <4>4. CASE d = x /\ e \in events
          BY <1>1, <1>3, <1>6, <2>2, <3>2, <4>4 DEF Chain
        <4>. QED
          BY <1>3, <4>1, <4>2, <4>3, <4>4
      <3>. QED
        BY <1>2, <3>1, <3>2 DEF Chain, At
    <2>. QED
      BY <2>1, <2>2
  <1>9. /\ x.state \in {"staged", "waiting_approval"} => Verified(p)'
        /\ x.state \in PostAuth => Allowed(p)'
        /\ x.state = "executing" => Exists(p) /\ Allowed(p)
        /\ x.state = "applying" => Exists(p) /\ Verified(p) /\ "approval_valid" \in x.evidence
    <2>1. CASE ~Exists(p)
      BY <1>7, <2>1 DEF PostAuth
    <2>2. CASE Exists(p)
      <3>1. /\ x.state = "staged" => "verification_passed" \in x.evidence
            /\ x.state = "waiting_approval" => rows[p].state = "staged"
            /\ x.state = "applying" =>
                    rows[p].state = "waiting_approval" /\ "approval_valid" \in x.evidence
            /\ x.state = "authorized" => "policy_allowed" \in x.evidence
            /\ x.state \in PostAuth \ {"authorized"} => rows[p].state \in PostAuth
        BY <1>6, <2>2, Edges
      <3>2. /\ rows[p].state \in {"staged", "waiting_approval"} => Verified(p)
            /\ rows[p].state \in PostAuth => Allowed(p)
        BY <1>6, <2>2 DEF ProcessOK
      <3>3. x.state = "staged" => Verified(p)'
        BY <1>1, <1>3, <3>1 DEF Verified
      <3>4. x.state # "executing" /\ Verified(p) => Verified(p)'
        BY <1>3 DEF Verified
      <3>5. Allowed(p) => Allowed(p)'
        BY <1>3 DEF Allowed
      <3>6. x.state = "authorized" => Allowed(p)'
        BY <1>1, <1>3, <3>1 DEF Allowed
      <3>. QED
        BY <2>2, <3>1, <3>2, <3>3, <3>4, <3>5, <3>6 DEF PostAuth
    <2>. QED
      BY <2>1, <2>2
  <1>10. ProcessOK(p)'
    BY <1>2, <1>8, <1>9 DEF ProcessOK
  <1>11. AppliedWasVerified'
    <2> SUFFICES ASSUME NEW e \in events', e.state = "applying"
                 PROVE  /\ "approval_valid" \in e.evidence
                        /\ \E d \in events' :
                            /\ d.process = e.process /\ d.sequence < e.sequence
                            /\ d.state = "staged" /\ "verification_passed" \in d.evidence
                            /\ \A m \in events' :
                                m.process = e.process /\ d.sequence < m.sequence
                                    /\ m.sequence < e.sequence => m.state # "executing"
      BY DEF AppliedWasVerified
    <2>1. CASE e = x
      BY <1>1, <1>3, <1>9, <2>1 DEF Verified
    <2>2. CASE e \in events
      <3>1. PICK d \in events :
                /\ d.process = e.process /\ d.sequence < e.sequence
                /\ d.state = "staged" /\ "verification_passed" \in d.evidence
                /\ \A m \in events :
                    m.process = e.process /\ d.sequence < m.sequence
                        /\ m.sequence < e.sequence => m.state # "executing"
        BY <2>2 DEF SInv, AppliedWasVerified
      <3>2. "approval_valid" \in e.evidence
        BY <2>2 DEF SInv, AppliedWasVerified
      <3>3. e.process = p => e.sequence < x.sequence
        BY <1>3, <2>2
      <3>4. e.sequence \in Nat
        BY <1>1, <2>2
      <3>. QED
        BY <1>1, <1>3, <3>1, <3>2, <3>3, <3>4
    <2>. QED
      BY <1>3, <2>1, <2>2
  <1>12. ExecutedWasAllowed'
    BY <1>1, <1>3, <1>9 DEF SInv, ExecutedWasAllowed, Allowed
  <1>. QED
    BY <1>4, <1>5, <1>10, <1>11, <1>12 DEF SInv

\* create: the row and its first event.
LEMMA CreateInv ==
    ASSUME SInv, NEW c \in Clients, NEW p \in Processes, Create(c, p)
    PROVE  SInv'
  <1> DEFINE x == [process |-> p, sequence |-> 0, previous |-> "none",
                   state |-> "received", evidence |-> {}]
  <1>1. x \in Event /\ x.process = p /\ x.sequence = 0 /\ x.state = "received"
    BY DEF Event, States
  <1>2. /\ ~Exists(p) /\ events' = events \cup {x} /\ UNCHANGED audits
        /\ rows' = [rows EXCEPT ![p] = [state |-> "received", version |-> 0]]
        /\ call' = [call EXCEPT ![c].step = "reread", ![c].process = p, ![c].version = 0]
    BY DEF Create
  <1> HIDE DEF x
  <1>3. \A d \in events : d.process # p
    BY <1>2 DEF SInv, ProcessOK
  <1>4. Appends(p, x)
    BY <1>1, <1>2, <1>3 DEF Appends
  <1>5. /\ call \in [Clients -> Call] /\ call[c] \in Call /\ rows \in [Processes -> Row]
    BY DEF SInv, TypeOK
  <1>6. /\ call' \in [Clients -> Call] /\ \A b \in Clients : b # c => call'[b] = call[b]
        /\ call'[c].step = "reread" /\ call'[c].process = p /\ call'[c].version = 0
    BY <1>2, <1>5 DEF Call
  <1>7. /\ rows'[p].state = "received" /\ rows'[p].version = 0
        /\ \A q \in Processes : q # p => rows'[q] = rows[q]
    BY <1>2, <1>5
  <1>8. ASSUME NEW b \in Clients PROVE CallOK(b)'
    <2>1. CASE b = c
      BY <1>6, <1>7, <2>1 DEF CallOK, Exists
    <2>2. CASE b # c
      <3>1. CallOK(b) /\ call'[b] = call[b] /\ call[b] \in Call
        BY <1>5, <1>6, <2>2 DEF SInv
      <3>2. call[b].step # "idle" => call[b].process # p
        BY <1>2, <3>1 DEF CallOK
      <3>. QED
        BY <1>7, <3>1, <3>2 DEF CallOK, Exists, Call
    <2>. QED
      BY <2>1, <2>2
  <1>. QED
    BY <1>2, <1>4, <1>6, <1>8, AppendStep

\* The write of advance: the transition was checked against the state the row still has.
LEMMA AdvanceWritesInv ==
    ASSUME SInv, NEW c \in Clients, AdvanceWrites(c)
    PROVE  SInv'
  <1> DEFINE p == call[c].process
             v == call[c].version
             x == Logged(c, v)
  <1>1. /\ call \in [Clients -> Call] /\ call[c] \in Call /\ CallOK(c)
        /\ rows \in [Processes -> Row] /\ p \in Processes /\ v \in Nat
        /\ call[c].step = "write"
    BY DEF SInv, TypeOK, Call, AdvanceWrites
  <1>2. /\ Exists(p) /\ rows[p].version \in Nat /\ v <= rows[p].version
        /\ Transition(call[c].from, call[c].to, call[c].evidence)
        /\ v = rows[p].version => call[c].from = rows[p].state
        /\ rows[p].state \in States
    BY <1>1 DEF CallOK, Row, Exists
  <1>3. CASE ~Writable(p, v) /\ Idle(c) /\ UNCHANGED <<rows, events, audits>>
    <2>1. /\ call' \in [Clients -> Call] /\ call'[c].step = "idle"
          /\ \A b \in Clients : b # c => call'[b] = call[b]
      BY <1>1, <1>3 DEF Idle, Return, Call, States
    <2>2. ASSUME NEW b \in Clients PROVE CallOK(b)'
      <3>1. CallOK(b)
        BY DEF SInv
      <3>. QED
        BY <1>3, <2>1, <3>1 DEF CallOK, Exists
    <2>3. audits' \in [Processes -> Nat]
      BY <1>3 DEF SInv, TypeOK
    <2>. QED
      BY <1>3, <2>1, <2>2, <2>3, CallStep
  <1>4. CASE /\ Writable(p, v)
             /\ rows' = [rows EXCEPT ![p] = [state |-> call[c].to, version |-> v + 1]]
             /\ events' = events \cup {x}
             /\ Return(c, "reread", v + 1)
             /\ UNCHANGED audits
    <2>1. rows[p].version = v /\ call[c].from = rows[p].state
      BY <1>2, <1>4 DEF Writable
    <2>2. /\ x \in Event /\ x.process = p /\ x.sequence = v + 1 /\ x.previous = call[c].from
          /\ x.state = call[c].to /\ x.evidence = call[c].evidence
      BY <1>1 DEF Logged, Event, Call
    <2>3. \A d \in events : d.process = p => d.sequence < v + 1
      <3>1. Chain(p) /\ \A d \in events : d.sequence \in Nat
        BY <1>1, <1>2 DEF SInv, ProcessOK, TypeOK, Event
      <3>. QED
        BY <1>1, <2>1, <3>1 DEF Chain
    <2> HIDE DEF x
    <2>4. Appends(p, x)
      BY <1>2, <1>4, <2>1, <2>2, <2>3 DEF Appends
    <2>5. /\ call' \in [Clients -> Call] /\ \A b \in Clients : b # c => call'[b] = call[b]
          /\ call'[c].step = "reread" /\ call'[c].process = p /\ call'[c].version = v + 1
      BY <1>1, <1>4 DEF Return, Call, States
    <2>6. /\ rows'[p].state = call[c].to /\ rows'[p].version = v + 1
          /\ \A q \in Processes : q # p => rows'[q] = rows[q]
      BY <1>1, <1>4
    <2>7. call[c].to # "none"
      BY <1>1 DEF Call, States
    <2>8. ASSUME NEW b \in Clients PROVE CallOK(b)'
      <3>1. CASE b = c
        BY <1>1, <2>5, <2>6, <2>7, <3>1 DEF CallOK, Exists
      <3>2. CASE b # c
        <4>1. CallOK(b) /\ call'[b] = call[b] /\ call[b] \in Call
          BY <1>1, <2>5, <3>2 DEF SInv
        <4>2. call[b].process \in Processes /\ call[b].version \in Nat
          BY <4>1 DEF Call
        <4>3. CASE call[b].process = p
          <5> HIDE DEF p, v
          <5>. QED
            BY <1>1, <1>2, <2>1, <2>6, <2>7, <4>1, <4>2, <4>3 DEF CallOK, Exists
        <4>4. CASE call[b].process # p
          BY <2>6, <4>1, <4>2, <4>4 DEF CallOK, Exists
        <4>. QED
          BY <4>3, <4>4
      <3>. QED
        BY <3>1, <3>2
    <2>. QED
      BY <1>1, <1>4, <2>4, <2>5, <2>8, AppendStep
  <1>. QED
    BY <1>3, <1>4 DEF AdvanceWrites

----------------------------------------------------------------------------
(* The theorems                                                             *)

\* Every step, and every stutter, keeps the invariant.
LEMMA NextInv ==
    ASSUME SInv, [Next]_vars
    PROVE  SInv'
  <1>1. CASE Next
    <2>1. PICK c \in Clients :
            \/ \E p \in Processes : Create(c, p) \/ Get(c, p) \/ AppendAuditEvent(c, p)
            \/ \E t \in States, e \in Evidence : AdvanceReads(c, t, e)
            \/ AdvanceWrites(c)
            \/ Reread(c)
            \/ Abort(c)
      BY <1>1 DEF Next
    <2>2. CASE \E p \in Processes : Create(c, p)
      BY <2>2, CreateInv
    <2>3. CASE \/ \E p \in Processes : Get(c, p) \/ AppendAuditEvent(c, p)
               \/ \E t \in States, e \in Evidence : AdvanceReads(c, t, e)
               \/ Reread(c) \/ Abort(c)
      BY <2>3, ReadsInv
    <2>4. CASE AdvanceWrites(c)
      BY <2>4, AdvanceWritesInv
    <2>. QED
      BY <2>1, <2>2, <2>3, <2>4
  <1>2. CASE UNCHANGED vars
    <2>1. /\ UNCHANGED <<rows, events>> /\ audits' \in [Processes -> Nat]
          /\ call' \in [Clients -> Call]
      BY <1>2 DEF vars, SInv, TypeOK
    <2>2. ASSUME NEW c \in Clients PROVE CallOK(c)'
      <3>1. CallOK(c)
        BY DEF SInv
      <3>. QED
        BY <1>2, <3>1 DEF vars, CallOK, Exists
    <2>. QED
      BY <2>1, <2>2, CallStep
  <1>. QED
    BY <1>1, <1>2

\* The strengthened invariant of the store (runtime_store.py): the tables, what each
\* open call of advance checked, and the two histories.
THEOREM StoreInvariance == Spec => []SInv
  BY StoreInit, NextInv, PTL DEF Spec

\* The tables and the calls keep their types (ProcessRecord, the schema's columns).
THEOREM StoreTypeCorrect == Spec => []TypeOK
  <1>1. SInv => TypeOK
    BY DEF SInv
  <1>. QED
    BY <1>1, StoreInvariance, PTL

\* The event log of every process is one gapless chain that ends at its row, for any
\* number of clients that race between the read and the write of advance.
THEOREM LogIsChain == Spec => []HistoryIsChain
  <1>1. SInv => HistoryIsChain
    <2>1. ASSUME SInv, NEW p \in Processes, Exists(p) PROVE Chain(p)
      BY <2>1 DEF SInv, ProcessOK
    <2>. QED
      BY <2>1 DEF HistoryIsChain, Chain, At
  <1>. QED
    BY <1>1, StoreInvariance, PTL

\* What advance applied, it had staged with a passed verification and not executed again.
THEOREM AppliedVerified == Spec => []AppliedWasVerified
  <1>1. SInv => AppliedWasVerified
    BY DEF SInv
  <1>. QED
    BY <1>1, StoreInvariance, PTL

\* What advance executed, a policy decision had allowed.
THEOREM ExecutedAllowed == Spec => []ExecutedWasAllowed
  <1>1. SInv => ExecutedWasAllowed
    BY DEF SInv
  <1>. QED
    BY <1>1, StoreInvariance, PTL

\* How a step changes the tables: not at all, or by admitting a process, or by the
\* transition that the row's own state allows.
LEMMA TableStep ==
    ASSUME SInv, [Next]_vars
    PROVE  \/ UNCHANGED <<rows, events>>
           \/ /\ events \subseteq events'
              /\ \E p \in Processes : /\ ~Exists(p)
                    /\ rows' = [rows EXCEPT ![p] = [state |-> "received", version |-> 0]]
           \/ /\ events \subseteq events'
              /\ \E p \in Processes, t \in States :
                    /\ Exists(p) /\ rows[p].state \notin Terminal /\ t \in Normal[rows[p].state]
                    /\ rows' = [rows EXCEPT ![p] = [state |-> t, version |-> rows[p].version + 1]]
  <1> DEFINE Goal == \/ UNCHANGED <<rows, events>>
                     \/ /\ events \subseteq events'
                        /\ \E p \in Processes : /\ ~Exists(p)
                              /\ rows' = [rows EXCEPT ![p] = [state |-> "received", version |-> 0]]
                     \/ /\ events \subseteq events'
                        /\ \E p \in Processes, t \in States :
                              /\ Exists(p) /\ rows[p].state \notin Terminal
                              /\ t \in Normal[rows[p].state]
                              /\ rows' = [rows EXCEPT ![p] =
                                            [state |-> t, version |-> rows[p].version + 1]]
  <1>1. UNCHANGED vars => Goal
    BY DEF vars
  <1>2. ASSUME NEW c \in Clients, NEW p \in Processes, Create(c, p) PROVE Goal
    BY <1>2 DEF Create
  <1>3. ASSUME NEW c \in Clients, NEW p \in Processes, Get(c, p) \/ AppendAuditEvent(c, p)
        PROVE  Goal
    BY <1>3 DEF Get, AppendAuditEvent
  <1>4. ASSUME NEW c \in Clients, NEW t, NEW e, AdvanceReads(c, t, e) PROVE Goal
    BY <1>4 DEF AdvanceReads
  <1>5. ASSUME NEW c \in Clients, Reread(c) \/ Abort(c) PROVE Goal
    BY <1>5 DEF Reread, Abort
  <1>6. ASSUME NEW c \in Clients, AdvanceWrites(c) PROVE Goal
    <2> DEFINE p == call[c].process
               t == call[c].to
    <2>1. p \in Processes /\ t \in States /\ call[c].step = "write" /\ CallOK(c)
      BY <1>6 DEF SInv, TypeOK, Call, AdvanceWrites
    <2>2. CASE UNCHANGED <<rows, events>>
      BY <2>2
    <2>3. CASE /\ Writable(p, call[c].version)
               /\ rows' = [rows EXCEPT ![p] = [state |-> t, version |-> call[c].version + 1]]
               /\ events' = events \cup {Logged(c, call[c].version)}
      <3>1. call[c].version = rows[p].version /\ call[c].from = rows[p].state /\ Exists(p)
        BY <2>1, <2>3 DEF Writable, CallOK
      <3>2. rows[p].state \notin Terminal /\ t \in Normal[rows[p].state]
        BY <2>1, <3>1 DEF CallOK, Transition
      <3>3. rows' = [rows EXCEPT ![p] = [state |-> t, version |-> rows[p].version + 1]]
        BY <2>3, <3>1
      <3>4. events \subseteq events'
        BY <2>3
      <3> HIDE DEF p, t
      <3>. QED
        BY <2>1, <3>1, <3>2, <3>3, <3>4
    <2>. QED
      BY <1>6, <2>2, <2>3 DEF AdvanceWrites
  <1> HIDE DEF Goal
  <1>7. Goal
    BY <1>1, <1>2, <1>3, <1>4, <1>5, <1>6 DEF Next
  <1>. QED
    BY <1>7 DEF Goal

\* No step of any client skips a version, leaves a decided state or rewrites the log.
THEOREM StoreForward == Spec => StoreOnlyMovesForward
  <1>1. ASSUME SInv, [Next]_vars
        PROVE  [/\ events \subseteq events'
                /\ \A p \in Processes : Exists(p) =>
                    /\ rows'[p] # rows[p] => rows'[p].version = rows[p].version + 1
                    /\ rows[p].state \in Terminal => rows'[p] = rows[p]]_vars
    <2>1. rows \in [Processes -> Row]
      BY <1>1 DEF SInv, TypeOK
    <2>2. CASE UNCHANGED <<rows, events>>
      BY <2>2
    <2>3. ASSUME NEW q \in Processes, events \subseteq events', ~Exists(q),
                 rows' = [rows EXCEPT ![q] = [state |-> "received", version |-> 0]]
          PROVE  <1>1!3
      <3>1. \A p \in Processes : p # q => rows'[p] = rows[p]
        BY <2>1, <2>3
      <3>. QED
        BY <2>3, <3>1
    <2>4. ASSUME NEW q \in Processes, NEW t \in States, events \subseteq events',
                 rows[q].state \notin Terminal,
                 rows' = [rows EXCEPT ![q] = [state |-> t, version |-> rows[q].version + 1]]
          PROVE  <1>1!3
      <3>1. /\ \A p \in Processes : p # q => rows'[p] = rows[p]
            /\ rows'[q].version = rows[q].version + 1
        BY <2>1, <2>4
      <3>. QED
        BY <2>4, <3>1
    <2>. QED
      BY <1>1, <2>2, <2>3, <2>4, TableStep
  <1>. QED
    BY <1>1, StoreInvariance, PTL DEF Spec, StoreOnlyMovesForward

\* The store implements the workflow graph: although advance checks in one transaction
\* and writes in another, each process moves as if advance were atomic.
THEOREM StoreRefinement == Spec => Implements
  <1> DEFINE state == [p \in Processes |-> rows[p].state]
  <1>1. Init => Workflow!WorkflowInit
    BY DEF Init, Workflow!WorkflowInit, NoRow
  <1>2. ASSUME SInv, [Next]_vars PROVE [Workflow!WorkflowNext]_state
    <2>1. rows \in [Processes -> Row]
      BY <1>2 DEF SInv, TypeOK
    <2>2. CASE UNCHANGED <<rows, events>>
      BY <2>2
    <2>3. ASSUME NEW q \in Processes, ~Exists(q),
                 rows' = [rows EXCEPT ![q] = [state |-> "received", version |-> 0]]
          PROVE  Workflow!WorkflowNext
      <3>1. state' = [state EXCEPT ![q] = "received"]
        BY <2>1, <2>3
      <3>2. Workflow!Admit(q)
        BY <2>3, <3>1 DEF Workflow!Admit, Exists
      <3>. QED
        BY <3>2 DEF Workflow!WorkflowNext
    <2>4. ASSUME NEW q \in Processes, NEW t \in States, Exists(q),
                 rows[q].state \notin Terminal, t \in Normal[rows[q].state],
                 rows' = [rows EXCEPT ![q] = [state |-> t, version |-> rows[q].version + 1]]
          PROVE  Workflow!WorkflowNext
      <3>1. state' = [state EXCEPT ![q] = t]
        BY <2>1, <2>4
      <3>2. state[q] = rows[q].state /\ rows[q].state \in States
        BY <2>1, <2>4 DEF Row, Exists
      <3>3. Workflow!Move(q, t)
        BY <2>4, <3>1, <3>2 DEF Workflow!Move
      <3>. QED
        BY <3>3 DEF Workflow!WorkflowNext
    <2>. QED
      BY <1>2, <2>2, <2>3, <2>4, TableStep
  <1>. QED
    BY <1>1, <1>2, StoreInvariance, PTL DEF Spec, Implements, Workflow!WorkflowSpec
===============================================================================
