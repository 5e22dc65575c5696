-------------------------- MODULE AgentRunsProofs --------------------------
(***************************************************************************)
(* Theorems about AgentRuns and about Copilot, for every set of runs, of   *)
(* reviewers with requests at once, and of turns.                          *)
(***************************************************************************)
EXTENDS Copilot, TLAPS

Starting(p) == requests[p].step \in {"running", "stopped"}

Resolving(p) == requests[p].step \in {"checked", "recorded", "resuming"}

LEMMA RequestKinds ==
    ASSUME TypeOK, NEW p \in Reviewer
    PROVE  /\ Starting(p) => requests[p] \in StartRequest
           /\ Resolving(p) => requests[p] \in ResolveRequest
           /\ requests[p] = Idle \/ Starting(p) \/ Resolving(p)
           /\ requests[p] = Idle => ~ Starting(p) /\ ~ Resolving(p)
  BY DEF TypeOK, Idle, StartRequest, ResolveRequest, Starting, Resolving

(***************************************************************************)
(* The inductive invariant of AgentRuns                                    *)
(***************************************************************************)
Undecided(row) == row.decision = None

\* An interrupt has a decision and a reviewer, or neither.
WellDecided(row) == Undecided(row) <=> row.reviewer_id = None

\* A run that starts has no row yet, and its checkpoint once the graph stopped;
\* a resolution has loaded its interrupt, at a time when it was no more decided
\* than it is now.
RequestFits(p) ==
    LET q == requests[p]
    IN  /\ Starting(p) => runs[q.run] = None
        /\ q.step = "stopped" => q.status # None /\ threads[q.run] # None
        /\ Resolving(p) => /\ interrupts[q.run] # None
                           /\ WellDecided(q.row)
                           /\ Undecided(interrupts[q.run]) => Undecided(q.row)
        /\ q.step = "resuming" => q.position # None

\* No two requests start the same run.
StartsApart ==
    \A p, o \in Reviewer :
        p # o /\ Starting(p) /\ Starting(o) => requests[p].run # requests[o].run

RunsInv ==
    /\ TypeOK
    /\ \A p \in Reviewer : RequestFits(p)
    /\ StartsApart
    /\ \A r \in Run : interrupts[r] # None => runs[r] # None
    /\ AwaitingIffOpen
    /\ PausedRunResumable

\* An interrupt is open when it is undecided.
LEMMA OpenIsUndecided ==
    ASSUME TypeOK, AwaitingIffOpen, NEW r \in Run
    PROVE  OpenFor(r) <=> interrupts[r] # None /\ Undecided(interrupts[r])
  BY NoneAssumption
  DEF TypeOK, AwaitingIffOpen, OpenFor, OpenInterrupt, HitlInterrupt, Undecided

(***************************************************************************)
(* What the steps of a request do                                          *)
(***************************************************************************)
\* The others' requests are left alone.
Others(p) == \A o \in Reviewer : o # p => requests'[o] = requests[o]

LEMMA EndsRequest ==
    ASSUME TypeOK, NEW p \in Reviewer, requests' = [requests EXCEPT ![p] = Idle]
    PROVE  requests'[p] = Idle /\ Others(p)
  BY DEF TypeOK, Others

LEMMA StopEffect ==
    ASSUME TypeOK, NEW p \in Reviewer, PauseRun(p) \/ EndRun(p)
    PROVE  /\ Starting(p) /\ requests'[p] \in StartRequest
           /\ requests'[p].step = "stopped"
           /\ requests'[p].run = requests[p].run
           /\ requests'[p].chat = requests[p].chat
           /\ requests'[p].status \in RunStatus
           /\ threads'[requests[p].run] \in Position
           /\ \A r \in Run : r # requests[p].run => threads'[r] = threads[r]
           /\ threads' \in [Run -> Position \cup {None}]
           /\ Others(p)
           /\ UNCHANGED <<runs, interrupts, messages, lost>>
  <1>1. Starting(p) /\ requests[p] \in StartRequest
    BY RequestKinds DEF PauseRun, EndRun, Starting
  <1>2. PICK status \in RunStatus :
            requests' = [requests EXCEPT ![p].step = "stopped", ![p].status = status]
    BY DEF PauseRun, EndRun, RunStatus
  <1> DEFINE q == [requests[p] EXCEPT !.step = "stopped", !.status = status]
  <1>3. /\ q \in StartRequest /\ q.step = "stopped" /\ q.run = requests[p].run
        /\ q.chat = requests[p].chat /\ q.status = status
    BY <1>1 DEF StartRequest
  <1>4. requests' = [requests EXCEPT ![p] = q]
    BY <1>1, <1>2 DEF TypeOK, StartRequest
  <1> HIDE DEF q
  <1>5. requests'[p] = q /\ Others(p)
    BY <1>4 DEF TypeOK, Others
  <1>6. PICK position \in Position : threads' = [threads EXCEPT ![requests[p].run] = position]
    BY DEF PauseRun, EndRun, Position
  <1>7. requests[p].run \in Run
    BY <1>1 DEF StartRequest
  <1>8. /\ threads'[requests[p].run] \in Position
        /\ \A r \in Run : r # requests[p].run => threads'[r] = threads[r]
        /\ threads' \in [Run -> Position \cup {None}]
    BY <1>6, <1>7 DEF TypeOK
  <1> QED BY <1>1, <1>3, <1>5, <1>8 DEF PauseRun, EndRun

\* The request that has loaded the interrupt, to check it or to resolve it.
Loaded(r, chat, d) ==
    {Recorded(r, chat, d), [Recorded(r, chat, d) EXCEPT !.step = "checked"]}

\* Loading the interrupt, by the endpoint, by the chat's check, and again by the
\* resolution.
LEMMA LoadEffect ==
    ASSUME TypeOK, NEW p \in Reviewer, NEW r \in Run, NEW d \in HitlDecision,
           interrupts[r] # None, NEW chat \in BOOLEAN,
           NEW q \in Loaded(r, chat, d),
           requests' = [requests EXCEPT ![p] = q]
    PROVE  /\ requests'[p] \in ResolveRequest
           /\ requests'[p].step \in {"checked", "recorded"}
           /\ requests'[p].run = r
           /\ requests'[p].chat = chat
           /\ requests'[p].row = interrupts[r]
           /\ Others(p)
  <1>1. /\ q \in ResolveRequest /\ q.step \in {"checked", "recorded"}
        /\ q.run = r /\ q.chat = chat /\ q.row = interrupts[r]
    BY DEF Loaded, Recorded, ResolveRequest, TypeOK
  <1> QED BY <1>1 DEF TypeOK, Others

LEMMA ResumeEffect ==
    ASSUME TypeOK, NEW p \in Reviewer, ResumeThread(p) \/ RunHitl(p) \/ RunReport(p)
    PROVE  /\ Resolving(p) /\ requests'[p] \in ResolveRequest
           /\ requests'[p].step = "resuming"
           /\ requests'[p].run = requests[p].run
           /\ requests'[p].chat = requests[p].chat
           /\ requests'[p].row = requests[p].row
           /\ requests'[p].position \in Position
           /\ threads' \in [Run -> Position \cup {None}]
           /\ \A r \in Run : threads[r] # None => threads'[r] # None
           /\ Others(p)
           /\ UNCHANGED <<runs, interrupts, messages, lost>>
  <1>1. /\ Resolving(p)
        /\ requests[p] \in ResolveRequest
        /\ requests[p].run \in Run
    BY RequestKinds DEF ResumeThread, RunHitl, RunReport, Resolving, ResolveRequest
  <1>2. PICK position \in Position :
            /\ requests' = [requests EXCEPT ![p].step = "resuming", ![p].position = position]
            /\ \/ UNCHANGED threads
               \/ threads' = [threads EXCEPT ![requests[p].run] = position]
    <2>1. CASE ResumeThread(p)
      BY <1>1, <2>1 DEF ResumeThread, TypeOK
    <2>2. ASSUME NEW position \in Position, Checkpoint(p, position),
                 requests[p].step = "resuming"
          PROVE  requests' = [requests EXCEPT ![p].step = "resuming", ![p].position = position]
      BY <1>1, <2>2 DEF Checkpoint, TypeOK, ResolveRequest
    <2>3. CASE RunHitl(p)
      BY <2>2, <2>3 DEF RunHitl, Checkpoint, Position
    <2>4. CASE RunReport(p)
      BY <2>2, <2>4 DEF RunReport, Checkpoint, Position
    <2> QED BY <2>1, <2>3, <2>4
  <1> DEFINE q == [requests[p] EXCEPT !.step = "resuming", !.position = position]
  <1>3. /\ q \in ResolveRequest /\ q.step = "resuming" /\ q.run = requests[p].run
        /\ q.chat = requests[p].chat /\ q.row = requests[p].row /\ q.position = position
    BY <1>1 DEF ResolveRequest
  <1>4. requests' = [requests EXCEPT ![p] = q]
    BY <1>1, <1>2 DEF TypeOK, ResolveRequest
  <1> HIDE DEF q
  <1>5. requests'[p] = q /\ Others(p)
    BY <1>4 DEF TypeOK, Others
  <1>6. /\ threads' \in [Run -> Position \cup {None}]
        /\ \A r \in Run : threads[r] # None => threads'[r] # None
    BY <1>1, <1>2, NoneAssumption DEF TypeOK
  <1> QED BY <1>1, <1>3, <1>5, <1>6 DEF ResumeThread, RunHitl, RunReport, Checkpoint

LEMMA CommitEffect ==
    ASSUME TypeOK, NEW p \in Reviewer, RequestFits(p), CommitRun(p)
    PROVE  LET r == requests[p].run
           IN  /\ Starting(p) /\ r \in Run /\ requests[p].chat \in BOOLEAN
               /\ runs[r] = None /\ runs'[r] = requests[p].status
               /\ requests[p].status \in RunStatus
               /\ interrupts'[r] = IF requests[p].status = "awaiting_human_review"
                                   THEN OpenInterrupt ELSE interrupts[r]
               /\ \A s \in Run : s # r => runs'[s] = runs[s] /\ interrupts'[s] = interrupts[s]
               /\ threads[r] # None
               /\ requests'[p] = Idle /\ Others(p)
               /\ UNCHANGED <<threads, lost>>
  <1> DEFINE r == requests[p].run
  <1>1. Starting(p) /\ requests[p].step = "stopped" /\ requests[p] \in StartRequest
    BY RequestKinds DEF CommitRun, Starting
  <1>2. /\ r \in Run /\ requests[p].chat \in BOOLEAN
        /\ requests[p].status \in RunStatus /\ runs[r] = None /\ threads[r] # None
    BY <1>1 DEF RequestFits, StartRequest
  <1>3. /\ runs' = [runs EXCEPT ![r] = requests[p].status]
        /\ interrupts' = IF requests[p].status = "awaiting_human_review"
                         THEN [interrupts EXCEPT ![r] = OpenInterrupt] ELSE interrupts
        /\ requests' = [requests EXCEPT ![p] = Idle]
        /\ UNCHANGED <<threads, lost>>
    BY DEF CommitRun
  <1> HIDE DEF r
  <1>4. /\ runs'[r] = requests[p].status
        /\ interrupts'[r] = IF requests[p].status = "awaiting_human_review"
                            THEN OpenInterrupt ELSE interrupts[r]
        /\ \A s \in Run : s # r => runs'[s] = runs[s] /\ interrupts'[s] = interrupts[s]
    BY <1>2, <1>3 DEF TypeOK
  <1> QED BY <1>1, <1>2, <1>3, <1>4, EndsRequest DEF r

\* A resolution decides its interrupt: its own decision, or the equal one that was
\* there when it loaded the row.
LEMMA ResolveEffect ==
    ASSUME TypeOK, AwaitingIffOpen, NEW p \in Reviewer, RequestFits(p), FinishResolve(p)
    PROVE  LET r == requests[p].run
           IN  /\ Resolving(p) /\ r \in Run /\ interrupts[r] # None
               /\ interrupts'[r] \in HitlInterrupt
               /\ ~ Undecided(interrupts'[r]) /\ WellDecided(interrupts'[r])
               /\ runs'[r] \in {"completed", "halted"}
               /\ \A s \in Run : s # r => runs'[s] = runs[s] /\ interrupts'[s] = interrupts[s]
               /\ requests'[p] = Idle /\ Others(p)
               /\ UNCHANGED <<threads, lost>>
  <1> DEFINE r == requests[p].run
             q == requests[p]
             row == interrupts[r]
             decision == Flushed(q.row.decision, q.decision, row.decision)
  <1>1. Resolving(p) /\ q \in ResolveRequest
    BY RequestKinds DEF FinishResolve, Resolving
  <1>2. /\ r \in Run /\ row # None /\ row \in HitlInterrupt
        /\ q.decision \in HitlDecision /\ q.row \in HitlInterrupt
    BY <1>1 DEF ResolveRequest, RequestFits, TypeOK
  <1>3. WellDecided(q.row) /\ WellDecided(row) /\ (Undecided(row) => Undecided(q.row))
    BY <1>1, <1>2 DEF RequestFits, AwaitingIffOpen, WellDecided, Undecided
  <1>4. decision \in HitlDecision
    BY <1>2, <1>3, NoneAssumption DEF Flushed, HitlInterrupt, WellDecided, Undecided
  <1>5. ResolvedInterrupt(p) = [row EXCEPT !.decision = decision, !.reviewer_id = p]
    BY DEF ResolvedInterrupt
  <1>6. /\ interrupts' = [interrupts EXCEPT ![r] = ResolvedInterrupt(p)]
        /\ runs' = [runs EXCEPT ![r] = ResumeStatus(q.decision)]
        /\ requests' = [requests EXCEPT ![p] = Idle]
        /\ UNCHANGED <<threads, lost>>
    BY DEF FinishResolve
  <1>7. ResumeStatus(q.decision) \in {"completed", "halted"}
    BY DEF ResumeStatus
  <1> HIDE DEF decision
  <1>8. /\ ResolvedInterrupt(p) \in HitlInterrupt
        /\ ~ Undecided(ResolvedInterrupt(p)) /\ WellDecided(ResolvedInterrupt(p))
    BY <1>2, <1>4, <1>5, NoneAssumption DEF HitlInterrupt, Undecided, WellDecided
  <1> HIDE DEF r
  <1>9. /\ interrupts'[r] = ResolvedInterrupt(p)
        /\ runs'[r] \in {"completed", "halted"}
        /\ \A s \in Run : s # r => runs'[s] = runs[s] /\ interrupts'[s] = interrupts[s]
    BY <1>2, <1>6, <1>7 DEF TypeOK
  <1> QED BY <1>1, <1>2, <1>6, <1>8, <1>9, EndsRequest DEF r

(***************************************************************************)
(* A step keeps the invariant                                              *)
(***************************************************************************)
\* A step that leaves the tables alone, and the checkpoints but for new ones, and
\* after which each request still fits.
LEMMA TablesUnchanged ==
    ASSUME RunsInv, UNCHANGED <<runs, interrupts, messages, lost>>,
           threads' \in [Run -> Position \cup {None}],
           \A r \in Run : threads[r] # None => threads'[r] # None,
           NEW p \in Reviewer, Others(p),
           requests' \in [Reviewer -> {Idle} \cup StartRequest \cup ResolveRequest],
           RequestFits(p)',
           Starting(p)' => \A o \in Reviewer : o # p /\ Starting(o) =>
                              requests'[p].run # requests[o].run
    PROVE  RunsInv'
  <1>1. TypeOK'
    BY DEF RunsInv, TypeOK
  <1>2. ASSUME NEW o \in Reviewer PROVE RequestFits(o)'
    <2>1. CASE o = p
      BY <2>1
    <2>2. CASE o # p
      <3>1. requests'[o] = requests[o] /\ RequestFits(o)
        BY <2>2 DEF Others, RunsInv
      <3>2. Starting(o)' = Starting(o) /\ Resolving(o)' = Resolving(o)
        BY <3>1 DEF Starting, Resolving
      <3>3. requests[o].step = "stopped" => requests[o].run \in Run
        BY RequestKinds DEF RunsInv, Starting, StartRequest
      <3> QED BY <3>1, <3>2, <3>3 DEF RequestFits
    <2> QED BY <2>1, <2>2
  <1>3. StartsApart'
    BY DEF RunsInv, StartsApart, Others, Starting
  <1>4. AwaitingIffOpen' /\ PausedRunResumable'
    BY DEF RunsInv, AwaitingIffOpen, OpenFor, PausedRunResumable
  <1> QED BY <1>1, <1>2, <1>3, <1>4 DEF RunsInv

\* A step that ends request p and writes the rows of one run, which no other
\* request starts and whose interrupt, once decided, stays decided.
LEMMA RowsWritten ==
    ASSUME RunsInv, TypeOK', UNCHANGED <<threads, lost>>,
           NEW p \in Reviewer, requests'[p] = Idle, Others(p),
           NEW r \in Run,
           \A s \in Run : s # r => runs'[s] = runs[s] /\ interrupts'[s] = interrupts[s],
           \A o \in Reviewer : o # p /\ Starting(o) => requests[o].run # r,
           interrupts[r] # None =>
              interrupts'[r] # None /\ (Undecided(interrupts'[r]) => Undecided(interrupts[r])),
           runs'[r] # None,
           runs'[r] = "awaiting_human_review" <=> OpenFor(r)',
           interrupts'[r] # None => WellDecided(interrupts'[r]),
           runs'[r] = "awaiting_human_review" => threads[r] # None \/ r \in lost
    PROVE  RunsInv'
  <1>1. ASSUME NEW o \in Reviewer PROVE RequestFits(o)'
    <2>1. CASE o = p
      BY <2>1 DEF RequestFits, Starting, Resolving, Idle
    <2>2. CASE o # p
      <3>1. requests'[o] = requests[o] /\ RequestFits(o)
        BY <2>2 DEF Others, RunsInv
      <3>2. Starting(o)' = Starting(o) /\ Resolving(o)' = Resolving(o)
        BY <3>1 DEF Starting, Resolving
      <3>3. Starting(o) \/ Resolving(o) => requests[o].run \in Run
        BY RequestKinds DEF RunsInv, StartRequest, ResolveRequest
      <3>4. Starting(o) => runs'[requests[o].run] = None
        BY <2>2, <3>1, <3>3 DEF RequestFits
      <3>5. Resolving(o) =>
              /\ interrupts'[requests[o].run] # None
              /\ Undecided(interrupts'[requests[o].run]) => Undecided(requests[o].row)
        BY <3>1, <3>3 DEF RequestFits
      <3> QED BY <3>1, <3>2, <3>4, <3>5 DEF RequestFits, Starting
    <2> QED BY <2>1, <2>2
  <1>2. StartsApart'
    BY DEF RunsInv, StartsApart, Others, Starting, Idle
  <1>3. AwaitingIffOpen'
    <2>1. ASSUME NEW s \in Run
          PROVE  /\ runs'[s] = "awaiting_human_review" <=> OpenFor(s)'
                 /\ interrupts'[s] # None => WellDecided(interrupts'[s])
      BY DEF RunsInv, AwaitingIffOpen, OpenFor, WellDecided, Undecided
    <2> QED BY <2>1 DEF AwaitingIffOpen, WellDecided, Undecided
  <1>4. PausedRunResumable' /\ \A s \in Run : interrupts'[s] # None => runs'[s] # None
    BY DEF RunsInv, PausedRunResumable
  <1> QED BY <1>1, <1>2, <1>3, <1>4 DEF RunsInv

LEMMA InitRunsInv == Init => RunsInv
  <1> SUFFICES ASSUME Init PROVE RunsInv
    OBVIOUS
  <1>1. TypeOK
    BY DEF Init, TypeOK
  <1>2. \A p \in Reviewer : RequestFits(p) /\ ~ Starting(p)
    BY DEF Init, RequestFits, Starting, Resolving, Idle
  <1>3. AwaitingIffOpen /\ PausedRunResumable
    BY NoneAssumption
    DEF Init, AwaitingIffOpen, PausedRunResumable, OpenFor, OpenInterrupt, HitlInterrupt, RunStatus
  <1> QED BY <1>1, <1>2, <1>3 DEF RunsInv, StartsApart, Init

LEMMA RunsInvStep == RunsInv /\ [Next]_vars => RunsInv'
  <1> SUFFICES ASSUME RunsInv, [Next]_vars PROVE RunsInv'
    OBVIOUS
  <1>0. TypeOK /\ \A p \in Reviewer : RequestFits(p)
    BY DEF RunsInv
  <1>1. ASSUME NEW p \in Reviewer, NEW r \in Run, NEW chat \in BOOLEAN, BeginRun(p, r, chat)
        PROVE  RunsInv'
    <2> DEFINE q == [step |-> "running", run |-> r, chat |-> chat, status |-> None]
    <2>1. q \in StartRequest /\ q.run = r /\ q.step = "running"
      BY DEF StartRequest
    <2>2. requests' = [requests EXCEPT ![p] = q] /\ Unused(r)
          /\ UNCHANGED <<runs, interrupts, messages, threads, lost>>
      BY <1>1 DEF BeginRun
    <2> HIDE DEF q
    <2>3. requests'[p] = q /\ Others(p)
      BY <1>0, <2>2 DEF TypeOK, Others
    <2>4. RequestFits(p)'
      BY <2>1, <2>2, <2>3 DEF RequestFits, Starting, Resolving, Unused
    <2>5. \A o \in Reviewer : o # p /\ Starting(o) => requests'[p].run # requests[o].run
      BY <1>0, <2>1, <2>2, <2>3, RequestKinds DEF Unused
    <2>6. requests' \in [Reviewer -> {Idle} \cup StartRequest \cup ResolveRequest]
      BY <1>0, <2>1, <2>2 DEF TypeOK
    <2> QED BY <1>0, <2>2, <2>3, <2>4, <2>5, <2>6, TablesUnchanged DEF TypeOK
  <1>2. ASSUME NEW p \in Reviewer, PauseRun(p) \/ EndRun(p) PROVE RunsInv'
    <2>1. /\ Starting(p) /\ requests'[p] \in StartRequest
          /\ requests'[p].step = "stopped"
          /\ requests'[p].run = requests[p].run
          /\ requests'[p].status \in RunStatus
          /\ threads'[requests[p].run] \in Position
          /\ \A r \in Run : r # requests[p].run => threads'[r] = threads[r]
          /\ threads' \in [Run -> Position \cup {None}]
          /\ Others(p)
          /\ UNCHANGED <<runs, interrupts, messages, lost>>
      BY <1>0, <1>2, StopEffect
    <2>2. RequestFits(p)'
      BY <1>0, <2>1, NoneAssumption DEF RequestFits, Starting, Resolving
    <2>3. \A r \in Run : threads[r] # None => threads'[r] # None
      BY <2>1, NoneAssumption
    <2>4. \A o \in Reviewer : o # p /\ Starting(o) => requests'[p].run # requests[o].run
      BY <2>1 DEF RunsInv, StartsApart
    <2>5. requests' \in [Reviewer -> {Idle} \cup StartRequest \cup ResolveRequest]
      BY <1>0, <1>2, <2>1 DEF TypeOK, Others, PauseRun, EndRun
    <2> QED BY <2>1, <2>2, <2>3, <2>4, <2>5, TablesUnchanged
  <1>3. ASSUME NEW p \in Reviewer, NEW r \in Run, NEW d \in HitlDecision,
               NEW chat \in BOOLEAN, interrupts[r] # None,
               NEW q \in Loaded(r, chat, d),
               requests' = [requests EXCEPT ![p] = q],
               UNCHANGED <<runs, interrupts, messages, threads, lost>>
        PROVE  RunsInv'
    <2>1. /\ requests'[p] \in ResolveRequest
          /\ requests'[p].step \in {"checked", "recorded"}
          /\ requests'[p].run = r
          /\ requests'[p].row = interrupts[r]
          /\ Others(p)
      BY <1>0, <1>3, LoadEffect
    <2>2. WellDecided(interrupts[r])
      BY <1>3 DEF RunsInv, AwaitingIffOpen, WellDecided, Undecided
    <2>3. RequestFits(p)'
      BY <1>3, <2>1, <2>2 DEF RequestFits, Starting, Resolving
    <2>4. ~ Starting(p)'
      BY <2>1 DEF Starting
    <2>5. requests' \in [Reviewer -> {Idle} \cup StartRequest \cup ResolveRequest]
      BY <1>0, <1>3, <2>1 DEF TypeOK
    <2> QED BY <1>0, <1>3, <2>1, <2>3, <2>4, <2>5, TablesUnchanged DEF TypeOK
  <1>4. ASSUME NEW p \in Reviewer, NEW r \in Run, NEW d \in HitlDecision,
               ResolveInterrupt(p, r, d)
        PROVE  RunsInv'
    BY <1>3, <1>4 DEF ResolveInterrupt, Loaded
  <1>5. ASSUME NEW p \in Reviewer, NEW r \in Run, NEW d \in HitlDecision,
               CheckCheckpoint(p, r, d)
        PROVE  RunsInv'
    <2>1. interrupts[r] # None
      BY <1>0, <1>5, OpenIsUndecided DEF CheckCheckpoint, RunsInv
    <2> QED BY <1>3, <1>5, <2>1 DEF CheckCheckpoint, Loaded
  <1>6. ASSUME NEW p \in Reviewer, ResolveCheckpoint(p) PROVE RunsInv'
    <2> DEFINE r == requests[p].run
               d == requests[p].decision
    <2>1. Resolving(p) /\ requests[p] \in ResolveRequest
      BY <1>0, <1>6, RequestKinds DEF ResolveCheckpoint, Resolving
    <2>2. r \in Run /\ d \in HitlDecision /\ interrupts[r] # None
      BY <1>0, <2>1 DEF ResolveRequest, RequestFits
    <2>3. /\ requests' = [requests EXCEPT ![p] = Recorded(r, TRUE, d)]
          /\ UNCHANGED <<runs, interrupts, messages, threads, lost>>
      BY <1>6 DEF ResolveCheckpoint
    <2> HIDE DEF r, d
    <2> QED BY <1>3, <2>2, <2>3 DEF Loaded
  <1>7. ASSUME NEW p \in Reviewer, ResumeThread(p) \/ RunHitl(p) \/ RunReport(p)
        PROVE  RunsInv'
    <2>1. /\ Resolving(p) /\ requests'[p] \in ResolveRequest
          /\ requests'[p].step = "resuming"
          /\ requests'[p].run = requests[p].run
          /\ requests'[p].row = requests[p].row
          /\ requests'[p].position \in Position
          /\ threads' \in [Run -> Position \cup {None}]
          /\ \A r \in Run : threads[r] # None => threads'[r] # None
          /\ Others(p)
          /\ UNCHANGED <<runs, interrupts, messages, lost>>
      BY <1>0, <1>7, ResumeEffect
    <2>2. RequestFits(p)'
      BY <1>0, <2>1, NoneAssumption DEF RequestFits, Starting, Resolving
    <2>3. ~ Starting(p)'
      BY <2>1 DEF Starting
    <2>4. requests' \in [Reviewer -> {Idle} \cup StartRequest \cup ResolveRequest]
      BY <1>0, <1>7, <2>1 DEF TypeOK, Others, ResumeThread, RunHitl, RunReport, Checkpoint
    <2> QED BY <2>1, <2>2, <2>3, <2>4, TablesUnchanged
  <1>8. ASSUME NEW p \in Reviewer, ResumeNothing(p) \/ Fail(p) PROVE RunsInv'
    <2>1. /\ requests' = [requests EXCEPT ![p] = Idle]
          /\ UNCHANGED <<runs, interrupts, messages, threads, lost>>
      BY <1>8 DEF ResumeNothing, Fail
    <2>2. requests'[p] = Idle /\ Others(p)
      BY <1>0, <2>1, EndsRequest
    <2>3. RequestFits(p)' /\ ~ Starting(p)'
      BY <2>2 DEF RequestFits, Starting, Resolving, Idle
    <2>4. requests' \in [Reviewer -> {Idle} \cup StartRequest \cup ResolveRequest]
      BY <1>0, <2>1 DEF TypeOK
    <2> QED BY <1>0, <2>1, <2>2, <2>3, <2>4, TablesUnchanged DEF TypeOK
  <1>9. ASSUME NEW p \in Reviewer, CommitRun(p) PROVE RunsInv'
    <2>0. PICK r \in Run : requests[p].run = r
      BY <1>0, <1>9, CommitEffect
    <2>1. /\ Starting(p) /\ r \in Run /\ requests[p].chat \in BOOLEAN
          /\ runs[r] = None /\ runs'[r] = requests[p].status
          /\ requests[p].status \in RunStatus
          /\ interrupts'[r] = IF requests[p].status = "awaiting_human_review"
                              THEN OpenInterrupt ELSE interrupts[r]
          /\ \A s \in Run : s # r => runs'[s] = runs[s] /\ interrupts'[s] = interrupts[s]
          /\ threads[r] # None
          /\ requests'[p] = Idle /\ Others(p)
          /\ UNCHANGED <<threads, lost>>
      BY <1>0, <1>9, <2>0, CommitEffect
    <2>2. TypeOK'
      <3>1. messages' \subseteq Message
        BY <1>0, <1>9, <2>0, <2>1 DEF CommitRun, Reported, TypeOK, Message
      <3>2. OpenInterrupt \in HitlInterrupt
        BY DEF OpenInterrupt, HitlInterrupt
      <3>3. /\ runs' \in [Run -> RunStatus \cup {None}]
            /\ interrupts' \in [Run -> HitlInterrupt \cup {None}]
            /\ requests' \in [Reviewer -> {Idle} \cup StartRequest \cup ResolveRequest]
        BY <1>0, <1>9, <2>0, <2>1, <3>2 DEF CommitRun, TypeOK
      <3> QED BY <1>0, <2>1, <3>1, <3>3 DEF TypeOK
    <2>3. interrupts[r] = None
      BY <2>1 DEF RunsInv
    <2>4. /\ WellDecided(OpenInterrupt) /\ OpenInterrupt # None
          /\ runs'[r] # None
      BY <2>1, NoneAssumption DEF OpenInterrupt, WellDecided, Undecided, HitlInterrupt
    <2>5. \A o \in Reviewer : o # p /\ Starting(o) => requests[o].run # r
      BY <2>0, <2>1 DEF RunsInv, StartsApart
    <2>6. runs'[r] = "awaiting_human_review" <=> OpenFor(r)'
      BY <2>1, <2>3, <2>4 DEF OpenFor
    <2> QED BY <2>1, <2>2, <2>3, <2>4, <2>5, <2>6, RowsWritten
  <1>10. ASSUME NEW p \in Reviewer, FinishResolve(p) PROVE RunsInv'
    <2>0. PICK r \in Run : requests[p].run = r
      BY <1>0, <1>10, ResolveEffect DEF RunsInv
    <2>1. /\ Resolving(p) /\ r \in Run /\ interrupts[r] # None
          /\ interrupts'[r] \in HitlInterrupt
          /\ ~ Undecided(interrupts'[r]) /\ WellDecided(interrupts'[r])
          /\ runs'[r] \in {"completed", "halted"}
          /\ \A s \in Run : s # r => runs'[s] = runs[s] /\ interrupts'[s] = interrupts[s]
          /\ requests'[p] = Idle /\ Others(p)
          /\ UNCHANGED <<threads, lost>>
      BY <1>0, <1>10, <2>0, ResolveEffect DEF RunsInv
    <2>2. TypeOK'
      <3>1. requests[p].chat \in BOOLEAN /\ requests[p].decision \in HitlDecision
        BY <1>0, <2>1, RequestKinds DEF ResolveRequest
      <3>2. messages' \subseteq Message
        BY <1>0, <1>10, <2>0, <2>1, <3>1
        DEF FinishResolve, Reported, ResumeStatus, TypeOK, Message, RunStatus
      <3>3. /\ runs' \in [Run -> RunStatus \cup {None}]
            /\ interrupts' \in [Run -> HitlInterrupt \cup {None}]
            /\ requests' \in [Reviewer -> {Idle} \cup StartRequest \cup ResolveRequest]
        BY <1>0, <1>10, <2>0, <2>1 DEF FinishResolve, TypeOK, RunStatus
      <3> QED BY <1>0, <2>1, <3>2, <3>3 DEF TypeOK
    <2>3. runs[r] # None
      BY <2>1 DEF RunsInv
    <2>4. \A o \in Reviewer : o # p /\ Starting(o) => requests[o].run # r
      BY <1>0, <2>3 DEF RequestFits
    <2>5. /\ ~ OpenFor(r)' /\ interrupts'[r] # None
          /\ runs'[r] # None /\ runs'[r] # "awaiting_human_review"
      BY <2>1, NoneAssumption DEF OpenFor, OpenInterrupt, Undecided, RunStatus
    <2> QED BY <2>1, <2>2, <2>4, <2>5, RowsWritten
  <1>11. CASE Restart
    <2>1. /\ requests' = [p \in Reviewer |-> Idle]
          /\ threads' = [r \in Run |-> None]
          /\ lost' = lost \cup {r \in Run : runs[r] # None}
          /\ UNCHANGED <<runs, interrupts, messages>>
      BY <1>11 DEF Restart
    <2>2. TypeOK'
      BY <1>0, <2>1 DEF TypeOK
    <2>3. \A p \in Reviewer : RequestFits(p)' /\ ~ Starting(p)'
      BY <2>1 DEF RequestFits, Starting, Resolving, Idle
    <2>4. AwaitingIffOpen' /\ PausedRunResumable'
      BY <2>1, NoneAssumption
      DEF RunsInv, AwaitingIffOpen, OpenFor, PausedRunResumable, RunStatus
    <2> QED BY <2>1, <2>2, <2>3, <2>4 DEF RunsInv, StartsApart
  <1>12. CASE UNCHANGED vars
    BY <1>12 DEF vars, RunsInv, TypeOK, RequestFits, Starting, Resolving, StartsApart,
       AwaitingIffOpen, OpenFor, PausedRunResumable
  <1> QED
    BY <1>1, <1>2, <1>4, <1>5, <1>6, <1>7, <1>8, <1>9, <1>10, <1>11, <1>12 DEF Next, Continue

LEMMA RunsInvAlways == Spec => []RunsInv
  BY InitRunsInv, RunsInvStep, PTL DEF Spec

\* Rows, checkpoints and requests stay well formed.
THEOREM TypeCorrect == Spec => []TypeOK
  <1>1. RunsInv => TypeOK
    BY DEF RunsInv
  <1> QED BY <1>1, RunsInvAlways, PTL

\* The open interrupts are those of the runs that await a review, whichever
\* resolutions overlap, fail or are cut off by a restart.
THEOREM InterruptsAlwaysMatch == Spec => []AwaitingIffOpen
  <1>1. RunsInv => AwaitingIffOpen
    BY DEF RunsInv
  <1> QED BY <1>1, RunsInvAlways, PTL

\* A run that awaits a review has its checkpoint, or has lost it to a restart and
\* to nothing else.
THEOREM PausedAlwaysResumable == Spec => []PausedRunResumable
  <1>1. RunsInv => PausedRunResumable
    BY DEF RunsInv
  <1> QED BY <1>1, RunsInvAlways, PTL

LEMMA ForwardStep == RunsInv /\ [Next]_vars => \A r \in Run : runs[r] # None => MovesForward(r)
  <1> SUFFICES ASSUME RunsInv, [Next]_vars, NEW r \in Run, runs[r] # None
               PROVE  MovesForward(r)
    OBVIOUS
  <1>0. TypeOK /\ AwaitingIffOpen /\ \A p \in Reviewer : RequestFits(p)
    BY DEF RunsInv
  <1>1. CASE runs'[r] = runs[r] /\ interrupts'[r] = interrupts[r]
    BY <1>1 DEF MovesForward
  <1>2. ASSUME NEW p \in Reviewer, CommitRun(p), requests[p].run = r PROVE FALSE
    BY <1>0, <1>2, CommitEffect
  <1>3. ASSUME NEW p \in Reviewer, CommitRun(p), requests[p].run # r
        PROVE  runs'[r] = runs[r] /\ interrupts'[r] = interrupts[r]
    BY <1>0, <1>3, CommitEffect
  <1>4. ASSUME NEW p \in Reviewer, FinishResolve(p), requests[p].run = r
        PROVE  MovesForward(r)
    BY <1>0, <1>4, ResolveEffect, NoneAssumption DEF MovesForward, RunStatus
  <1>5. ASSUME NEW p \in Reviewer, FinishResolve(p), requests[p].run # r
        PROVE  runs'[r] = runs[r] /\ interrupts'[r] = interrupts[r]
    BY <1>0, <1>5, ResolveEffect
  <1>6. \/ UNCHANGED <<runs, interrupts>>
        \/ \E p \in Reviewer : CommitRun(p) \/ FinishResolve(p)
    BY DEF Next, Continue, vars, BeginRun, ResolveInterrupt, CheckCheckpoint, PauseRun, EndRun,
           ResolveCheckpoint, ResumeThread, ResumeNothing, RunHitl, RunReport, Checkpoint,
           Fail, Restart
  <1> QED BY <1>1, <1>2, <1>3, <1>4, <1>5, <1>6

\* The record of a run never goes back: it stays, it is not reviewed twice, and an
\* ended run is not reopened, by any step of any request.
THEOREM RunsAlwaysMoveForward == Spec => RunsMoveForward
  BY ForwardStep, RunsInvAlways, PTL DEF Spec, RunsMoveForward

(***************************************************************************)
(* The chat                                                                *)
(***************************************************************************)
\* Messages that name a run of the caller's.
Named(p, r) == \E m \in messages : m.user = p /\ m.run = r

\* A turn that investigates is the one request of its user, and an action is
\* reported done once apps/api has committed it.
TurnFits(t) ==
    LET s == turns[t]
    IN  /\ s.step = "investigating" =>
              /\ Starting(s.user) /\ requests[s.user].chat
              /\ requests[s.user].run = s.run
        /\ s.step = "replying" /\ s.outcome = "done" => calls[t] = "committed"

\* A request from the chat starts its turn's run, or resolves a run its user has
\* been told of.
ResolvesNamed(p) ==
    Resolving(p) /\ (requests[p].step = "checked" \/ requests[p].chat) =>
        Named(p, requests[p].run)

ChatRequestFits(p) ==
    /\ Starting(p) /\ requests[p].chat =>
          \E t \in Investigating(p) : turns[t].run = requests[p].run
    /\ ResolvesNamed(p)

ChatInv ==
    /\ \A t \in Turn : TurnFits(t)
    /\ \A p \in Reviewer : ChatRequestFits(p)
    /\ KeptTurnsTell

LEMMA TurnKinds ==
    ASSUME KeptTurnsTell, NEW t \in Turn
    PROVE  LET s == turns[t]
           IN  /\ s \in TurnState
               /\ s.step \in {"routing", "acting"} =>
                     s \in [step : {"routing", "acting"}, user : Reviewer]
               /\ s.step = "investigating" =>
                     s \in [step : {"investigating"}, user : Reviewer, run : Run]
               /\ s.step = "replying" =>
                     s \in [step : {"replying", "kept"}, outcome : Outcome \ {"run"}]
               /\ s.step = "kept" /\ s.outcome = "run" =>
                     s.user \in Reviewer /\ s.run \in Run
               /\ s.step = "undone" => s.run \in Run
  <1>1. turns[t] \in TurnState
    BY DEF KeptTurnsTell
  <1> QED BY <1>1 DEF TurnState, Outcome

LEMMA UndoneTurn ==
    ASSUME KeptTurnsTell, NEW t \in Turn, turns[t].step = "investigating"
    PROVE  Undone(t) \in TurnState /\ Undone(t).step = "undone"
  BY TurnKinds DEF Undone, TurnState

\* A chat step takes a step of AgentRuns, or leaves its variables alone.
LEMMA ChatStepIsRunsStep ==
    ASSUME KeptTurnsTell, [ChatNext]_chatVars
    PROVE  [Next]_vars
  <1>1. ASSUME NEW t \in Turn, NEW r \in Run, DispatchInvestigation(t, r) PROVE Next
    <2>1. turns[t].step = "routing" /\ BeginRun(turns[t].user, r, TRUE)
      BY <1>1 DEF DispatchInvestigation
    <2>2. turns[t].user \in Reviewer
      BY <2>1, TurnKinds
    <2> QED BY <2>1, <2>2 DEF Next
  <1>2. ASSUME \/ \E t \in Turn, p \in Reviewer : SendMessage(t, p)
               \/ \E t \in Turn : \/ Answer(t) \/ DispatchAction(t) \/ EndCall(t)
                                  \/ Summarize(t) \/ ReportFailure(t) \/ CommitTurn(t)
                                  \/ FailTurn(t)
               \/ UNCHANGED chatVars
        PROVE  UNCHANGED vars
    BY <1>2 DEF SendMessage, Answer, DispatchAction, EndCall, Summarize, ReportFailure,
                CommitTurn, FailTurn, chatVars
  <1>3. ASSUME NEW p \in Reviewer, CommitTurnRun(p) \/ FailRequest(p) \/ ContinueRun(p)
        PROVE  Next
    BY <1>3 DEF CommitTurnRun, FailRequest, ContinueRun, Next, Continue
  <1>4. CASE RestartChat
    BY <1>4 DEF RestartChat, Next
  <1>5. ASSUME NEW p \in Reviewer, NEW r \in Run,
               \/ BeginRun(p, r, FALSE)
               \/ \E d \in HitlDecision : ResolveInterrupt(p, r, d) \/ CheckCheckpoint(p, r, d)
        PROVE  Next
    BY <1>5 DEF Next
  <1> QED BY <1>1, <1>2, <1>3, <1>4, <1>5 DEF ChatNext

\* A step on one turn that neither starts nor keeps an investigation.
LEMMA OneTurn ==
    ASSUME RunsInv, ChatInv, UNCHANGED vars,
           NEW t \in Turn, NEW s \in TurnState, turns' = [turns EXCEPT ![t] = s],
           turns[t].step \notin {"investigating", "kept"}, s.step # "investigating",
           calls' \in [Turn -> CallState],
           \A o \in Turn : o # t => calls'[o] = calls[o],
           s.step \in {"replying", "kept"} =>
              s.outcome # "run" /\ (s.outcome = "done" => calls'[t] = "committed")
    PROVE  ChatInv'
  <1>1. /\ turns' \in [Turn -> TurnState] /\ turns'[t] = s
        /\ \A o \in Turn : o # t => turns'[o] = turns[o]
    BY DEF ChatInv, KeptTurnsTell
  <1>2. UNCHANGED <<requests, runs, messages>>
    BY DEF vars
  <1>3. \A o \in Turn : TurnFits(o)'
    BY <1>1, <1>2 DEF ChatInv, TurnFits, Starting
  <1>4. ASSUME NEW p \in Reviewer PROVE ChatRequestFits(p)'
    <2>1. ChatRequestFits(p)
      BY DEF ChatInv
    <2>2. Investigating(p)' = Investigating(p) /\ t \notin Investigating(p)
      BY <1>1 DEF Investigating
    <2>3. \A o \in Investigating(p) : o \in Turn
      BY DEF Investigating
    <2> QED BY <1>1, <1>2, <2>1, <2>2, <2>3
      DEF ChatRequestFits, ResolvesNamed, Starting, Resolving, Named
  <1>5. KeptTurnsTell'
    <2>1. ASSUME NEW o \in Turn, turns'[o].step = "kept"
          PROVE  /\ turns'[o].outcome = "done" => calls'[o] = "committed"
                 /\ turns'[o].outcome = "run" =>
                      /\ runs'[turns'[o].run] # None
                      /\ \E m \in messages' : m.user = turns'[o].user /\ m.run = turns'[o].run
      BY <1>1, <1>2, <2>1 DEF ChatInv, KeptTurnsTell
    <2>2. ASSUME NEW m \in messages'
          PROVE  \E o \in Turn : /\ turns'[o].step = "kept" /\ turns'[o].outcome = "run"
                                 /\ turns'[o].run = m.run
      BY <1>1, <1>2, <2>2 DEF ChatInv, KeptTurnsTell
    <2> QED BY <1>1, <2>1, <2>2 DEF KeptTurnsTell
  <1> QED BY <1>3, <1>4, <1>5 DEF ChatInv

\* A step of request p that no turn waits for, or that its turn goes on waiting
\* for, and that adds no run to the messages.
LEMMA OneRequest ==
    ASSUME RunsInv, ChatInv, UNCHANGED <<turns, calls>>, NEW p \in Reviewer, Others(p),
           \A r \in Run : runs[r] # None => runs'[r] # None,
           messages \subseteq messages',
           \A n \in messages' : \E m \in messages : m.run = n.run,
           Starting(p) /\ requests[p].chat =>
              /\ Starting(p)' /\ requests'[p].chat
              /\ requests'[p].run = requests[p].run,
           Starting(p)' /\ requests'[p].chat =>
              /\ Starting(p) /\ requests[p].chat
              /\ requests'[p].run = requests[p].run,
           ResolvesNamed(p)'
    PROVE  ChatInv'
  <1>1. ASSUME NEW t \in Turn PROVE TurnFits(t)'
    <2>1. TurnFits(t)
      BY DEF ChatInv
    <2>2. ASSUME turns[t].step = "investigating"
          PROVE  /\ Starting(turns[t].user)' /\ requests'[turns[t].user].chat
                 /\ requests'[turns[t].user].run = turns[t].run
      <3>1. turns[t].user \in Reviewer
        BY <2>2, TurnKinds DEF ChatInv
      <3> QED BY <2>1, <2>2, <3>1 DEF TurnFits, Others, Starting
    <2> QED BY <2>1, <2>2 DEF TurnFits, Starting
  <1>2. ASSUME NEW o \in Reviewer PROVE ChatRequestFits(o)'
    <2>1. ChatRequestFits(o) /\ Investigating(o)' = Investigating(o)
      BY DEF ChatInv, Investigating
    <2>2. CASE o = p
      BY <2>1, <2>2 DEF ChatRequestFits
    <2>3. CASE o # p
      BY <2>1, <2>3
      DEF ChatRequestFits, ResolvesNamed, Others, Starting, Resolving, Named
    <2> QED BY <2>2, <2>3
  <1>3. KeptTurnsTell'
    <2>1. \A t \in Turn : turns[t].step = "kept" /\ turns[t].outcome = "run" =>
              turns[t].run \in Run
      BY TurnKinds DEF ChatInv
    <2> QED BY <2>1 DEF ChatInv, KeptTurnsTell
  <1> QED BY <1>1, <1>2, <1>3 DEF ChatInv

LEMMA InitChatInv == ChatInit => ChatInv
  <1> SUFFICES ASSUME ChatInit PROVE ChatInv
    OBVIOUS
  <1>1. /\ messages = {} /\ calls \in [Turn -> CallState]
        /\ \A p \in Reviewer : ~ Starting(p) /\ ~ Resolving(p)
        /\ \A t \in Turn : turns[t].step = "unsent"
    BY DEF ChatInit, Init, CallState, Starting, Resolving, Idle
  <1>2. turns \in [Turn -> TurnState]
    BY DEF ChatInit, TurnState
  <1> QED BY <1>1, <1>2 DEF ChatInv, TurnFits, ChatRequestFits, ResolvesNamed,
             KeptTurnsTell

\* A turn that the end of the requests of P leaves alone.
NotEnded(t, P) == turns'[t] = turns[t] /\ \A p \in P : t \notin Investigating(p)

\* What the end of the requests of P makes of the turns.
EndsTurns(P) ==
    /\ turns' \in [Turn -> TurnState]
    /\ \A t \in Turn :
          /\ turns[t].step = "kept" => turns'[t] = turns[t]
          /\ turns'[t].step \in {"rolled back", "undone"} \/ NotEnded(t, P)
          /\ turns[t].step = "investigating" /\ turns[t].user \notin P => turns'[t] = turns[t]

\* The steps that end the request of a turn, with what they make of the turn.
LEMMA EndedRequests ==
    ASSUME RunsInv, ChatInv, [ChatNext]_chatVars,
           NEW P \in SUBSET Reviewer,
           \A p \in Reviewer : requests'[p] = IF p \in P THEN Idle ELSE requests[p],
           UNCHANGED <<calls, messages>>, EndsTurns(P)
    PROVE  ChatInv'
  <1>0. \A t \in Turn : turns'[t].step \in {"rolled back", "undone"} \/ NotEnded(t, P)
    BY DEF EndsTurns
  <1>1. ASSUME NEW t \in Turn PROVE TurnFits(t)'
    <2>1. CASE turns'[t].step \in {"rolled back", "undone"}
      BY <2>1 DEF TurnFits
    <2>2. CASE NotEnded(t, P)
      <3>1. TurnFits(t) /\ turns'[t] = turns[t]
        BY <2>2 DEF ChatInv, NotEnded
      <3>2. turns[t].step = "investigating" => turns[t].user \in Reviewer \ P
        BY <2>2, TurnKinds DEF ChatInv, Investigating, NotEnded
      <3> QED BY <3>1, <3>2 DEF TurnFits, Starting
    <2> QED BY <1>0, <2>1, <2>2
  <1>2. ASSUME NEW p \in Reviewer PROVE ChatRequestFits(p)'
    <2>1. CASE p \in P
      BY <2>1 DEF ChatRequestFits, ResolvesNamed, Starting, Resolving, Idle
    <2>2. CASE p \notin P
      <3>1. ChatRequestFits(p) /\ requests'[p] = requests[p]
        BY <2>2 DEF ChatInv
      <3>2. \A t \in Investigating(p) : t \in Turn /\ turns'[t] = turns[t]
        BY <2>2 DEF Investigating, EndsTurns
      <3> QED BY <3>1, <3>2
          DEF ChatRequestFits, ResolvesNamed, Investigating, Starting, Resolving, Named
    <2> QED BY <2>1, <2>2
  <1>3. KeptTurnsTell'
    <2>1. [Next]_vars
      BY ChatStepIsRunsStep DEF ChatInv
    <2>2. \A r \in Run : runs[r] # None => runs'[r] # None
      BY <2>1, ForwardStep DEF MovesForward
    <2>3. ASSUME NEW t \in Turn, turns'[t].step = "kept"
          PROVE  turns'[t] = turns[t]
      BY <1>0, <2>3 DEF NotEnded
    <2>4. \A t \in Turn : turns[t].step = "kept" /\ turns[t].outcome = "run" =>
              turns[t].run \in Run
      BY TurnKinds DEF ChatInv
    <2>5. /\ \A t \in Turn : turns[t].step = "kept" => turns'[t] = turns[t]
          /\ turns' \in [Turn -> TurnState]
      BY DEF EndsTurns
    <2> QED BY <2>2, <2>3, <2>4, <2>5 DEF ChatInv, KeptTurnsTell
  <1> QED BY <1>1, <1>2, <1>3 DEF ChatInv

\* The commit of a turn's run keeps its turn, with the message that names it.
LEMMA CommittedTurn ==
    ASSUME RunsInv, ChatInv, NEW p \in Reviewer, CommitTurnRun(p)
    PROVE  ChatInv'
  <1>0. TypeOK /\ RequestFits(p) /\ CommitRun(p)
    BY DEF RunsInv, CommitTurnRun
  <1>1. PICK r \in Run :
          /\ requests[p].run = r /\ Starting(p)
          /\ runs'[r] # None
          /\ \A s \in Run : s # r => runs'[s] = runs[s]
          /\ runs[r] = None
          /\ requests'[p] = Idle /\ Others(p)
          /\ requests[p].chat \in BOOLEAN
    BY <1>0, CommitEffect, NoneAssumption
  <1>2. /\ messages' = IF requests[p].chat
                       THEN messages \cup {[user |-> p, run |-> r,
                                            run_status |-> requests[p].status]}
                       ELSE messages
        /\ UNCHANGED calls
    BY <1>0, <1>1 DEF CommitRun, Reported, CommitTurnRun
  <1>3. \A t \in Turn : turns'[t] =
            IF t \in Investigating(p)
            THEN [step |-> "kept", user |-> p, outcome |-> "run", run |-> turns[t].run]
            ELSE turns[t]
    BY DEF CommitTurnRun
  <1>4. \A t \in Investigating(p) : t \in Turn /\ requests[p].chat /\ turns[t].run = r
    BY <1>1 DEF Investigating, ChatInv, TurnFits
  <1> DEFINE kept == [step |-> "kept", user |-> p, outcome |-> "run", run |-> r]
  <1>k. /\ kept \in TurnState /\ kept.step = "kept" /\ kept.user = p
        /\ kept.outcome = "run" /\ kept.run = r
    BY DEF TurnState
  <1>t. \A t \in Investigating(p) : turns'[t] = kept
    BY <1>3, <1>4
  <1> HIDE DEF kept
  <1>5. turns' \in [Turn -> TurnState]
    <2>1. \A t \in Turn : turns'[t] \in TurnState
      BY <1>3, <1>k, <1>t DEF ChatInv, KeptTurnsTell
    <2> QED BY <2>1 DEF CommitTurnRun
  <1>6. ASSUME NEW t \in Turn PROVE TurnFits(t)'
    <2>1. CASE t \in Investigating(p)
      BY <1>k, <1>t, <2>1 DEF TurnFits
    <2>2. CASE t \notin Investigating(p)
      <3>1. turns'[t] = turns[t] /\ TurnFits(t)
        BY <1>3, <2>2 DEF ChatInv
      <3>2. turns[t].step = "investigating" => turns[t].user \in Reviewer \ {p}
        BY <2>2, TurnKinds DEF ChatInv, Investigating
      <3> QED BY <1>1, <1>2, <3>1, <3>2 DEF TurnFits, Starting, Others
    <2> QED BY <2>1, <2>2
  <1>7. ASSUME NEW o \in Reviewer PROVE ChatRequestFits(o)'
    <2>1. CASE o = p
      BY <1>1, <2>1 DEF ChatRequestFits, ResolvesNamed, Starting, Resolving, Idle
    <2>2. CASE o # p
      <3>1. requests'[o] = requests[o] /\ ChatRequestFits(o)
        BY <1>1, <2>2 DEF ChatInv, Others
      <3>2. \A t \in Investigating(o) : t \in Turn /\ turns'[t] = turns[t]
        BY <1>3, <2>2 DEF Investigating
      <3>3. messages \subseteq messages'
        BY <1>2
      <3> QED BY <3>1, <3>2, <3>3
          DEF ChatRequestFits, ResolvesNamed, Investigating, Starting, Resolving, Named
    <2> QED BY <2>1, <2>2
  <1>8. KeptTurnsTell'
    <2>1. ASSUME NEW t \in Turn, turns'[t].step = "kept"
          PROVE  /\ turns'[t].outcome = "done" => calls'[t] = "committed"
                 /\ turns'[t].outcome = "run" =>
                      /\ runs'[turns'[t].run] # None
                      /\ \E m \in messages' : m.user = turns'[t].user /\ m.run = turns'[t].run
      <3>1. CASE t \in Investigating(p)
        <4>1. [user |-> p, run |-> r, run_status |-> requests[p].status] \in messages'
          BY <1>2, <1>4, <3>1
        <4>2. \E m \in messages' : m.user = p /\ m.run = r
          BY <4>1
        <4> QED BY <1>1, <1>k, <1>t, <3>1, <4>2
      <3>2. CASE t \notin Investigating(p)
        <4>1. turns'[t] = turns[t]
          BY <1>3, <3>2
        <4>2. turns[t].outcome = "run" => turns[t].run \in Run
          BY <2>1, <4>1, TurnKinds DEF ChatInv
        <4> QED BY <1>1, <1>2, <2>1, <4>1, <4>2 DEF ChatInv, KeptTurnsTell
      <3> QED BY <3>1, <3>2
    <2>2. ASSUME NEW m \in messages'
          PROVE  \E t \in Turn : /\ turns'[t].step = "kept" /\ turns'[t].outcome = "run"
                                 /\ turns'[t].run = m.run
      <3>1. CASE m \in messages
        <4>1. PICK t \in Turn : /\ turns[t].step = "kept" /\ turns[t].outcome = "run"
                                /\ turns[t].run = m.run
          BY <3>1 DEF ChatInv, KeptTurnsTell
        <4>2. turns'[t] = turns[t]
          BY <1>3, <4>1 DEF Investigating
        <4> QED BY <4>1, <4>2
      <3>2. CASE m \notin messages
        <4>1. m.run = r /\ requests[p].chat
          BY <1>2, <2>2, <3>2
        <4>2. PICK t \in Investigating(p) : turns[t].run = r
          BY <1>1, <4>1 DEF ChatInv, ChatRequestFits
        <4> QED BY <1>4, <1>k, <1>t, <4>1, <4>2
      <3> QED BY <3>1, <3>2
    <2> QED BY <1>2, <1>5, <2>1, <2>2 DEF KeptTurnsTell, ChatInv
  <1> QED BY <1>6, <1>7, <1>8 DEF ChatInv

\* A turn that starts a run waits for its user's only request.
LEMMA DispatchedTurn ==
    ASSUME RunsInv, ChatInv, NEW t \in Turn, NEW r \in Run, DispatchInvestigation(t, r)
    PROVE  ChatInv'
  <1> DEFINE p == turns[t].user
             q == [step |-> "running", run |-> r, chat |-> TRUE, status |-> None]
             s == [step |-> "investigating", user |-> p, run |-> r]
  <1>1. /\ turns[t].step = "routing" /\ p \in Reviewer /\ requests[p] = Idle
        /\ requests' = [requests EXCEPT ![p] = q] /\ turns' = [turns EXCEPT ![t] = s]
        /\ UNCHANGED <<runs, messages, calls>>
    BY TurnKinds DEF DispatchInvestigation, BeginRun, ChatInv
  <1>2. /\ q.step = "running" /\ q.run = r /\ q.chat
        /\ s \in TurnState /\ s.step = "investigating" /\ s.user = p /\ s.run = r
    BY <1>1 DEF TurnState
  <1> HIDE DEF q, s
  <1>3. /\ requests'[p] = q /\ \A o \in Reviewer : o # p => requests'[o] = requests[o]
        /\ turns'[t] = s /\ \A o \in Turn : o # t => turns'[o] = turns[o]
        /\ turns' \in [Turn -> TurnState]
    BY <1>1, <1>2 DEF RunsInv, TypeOK, ChatInv, KeptTurnsTell
  <1>4. ~ Starting(p) /\ ~ Resolving(p)
    BY <1>1 DEF Starting, Resolving, Idle
  <1> HIDE DEF p
  <1>5. ASSUME NEW o \in Turn PROVE TurnFits(o)'
    <2>1. CASE o = t
      BY <1>2, <1>3, <2>1 DEF TurnFits, Starting
    <2>2. CASE o # t
      <3>1. turns'[o] = turns[o] /\ TurnFits(o)
        BY <1>3, <2>2 DEF ChatInv
      <3>2. turns[o].step = "investigating" => turns[o].user \in Reviewer \ {p}
        BY <1>4, <3>1, TurnKinds DEF ChatInv, TurnFits
      <3> QED BY <1>1, <1>3, <3>1, <3>2 DEF TurnFits, Starting
    <2> QED BY <2>1, <2>2
  <1>6. ASSUME NEW o \in Reviewer PROVE ChatRequestFits(o)'
    <2>1. CASE o = p
      <3>1. t \in Investigating(o)'
        BY <1>2, <1>3, <2>1 DEF Investigating
      <3>2. \E k \in Investigating(o)' : turns'[k].run = requests'[o].run
        BY <1>2, <1>3, <2>1, <3>1
      <3> QED BY <1>2, <1>3, <2>1, <3>2 DEF ChatRequestFits, ResolvesNamed, Resolving
    <2>2. CASE o # p
      <3>1. ChatRequestFits(o) /\ requests'[o] = requests[o]
        BY <1>3, <2>2 DEF ChatInv
      <3>2. \A k \in Investigating(o) : k \in Turn /\ turns'[k] = turns[k]
        BY <1>1, <1>3 DEF Investigating
      <3> QED BY <1>1, <3>1, <3>2
          DEF ChatRequestFits, ResolvesNamed, Investigating, Starting, Resolving, Named
    <2> QED BY <2>1, <2>2
  <1>7. KeptTurnsTell'
    <2>1. ASSUME NEW o \in Turn, turns'[o].step = "kept" PROVE turns'[o] = turns[o]
      BY <1>2, <1>3, <2>1
    <2>2. \A o \in Turn : turns[o].step = "kept" => turns'[o] = turns[o]
      BY <1>1, <1>3
    <2> QED BY <1>1, <1>3, <2>1, <2>2 DEF ChatInv, KeptTurnsTell
  <1> QED BY <1>5, <1>6, <1>7 DEF ChatInv

\* The end of a call: one that was committed stays so.
LEMMA EndedCall ==
    ASSUME RunsInv, ChatInv, UNCHANGED <<vars, turns>>, calls' \in [Turn -> CallState],
           \A t \in Turn : calls[t] = "committed" => calls'[t] = "committed"
    PROVE  ChatInv'
  <1>1. UNCHANGED <<requests, runs, messages, turns>>
    BY DEF vars
  <1>2. \A t \in Turn : TurnFits(t)'
    BY <1>1 DEF ChatInv, TurnFits, Starting
  <1>3. ASSUME NEW p \in Reviewer PROVE ChatRequestFits(p)'
    <2>1. ChatRequestFits(p) /\ Investigating(p)' = Investigating(p)
      BY <1>1 DEF ChatInv, Investigating
    <2> QED BY <1>1, <2>1 DEF ChatRequestFits, ResolvesNamed, Starting, Resolving, Named
  <1> QED BY <1>1, <1>2, <1>3 DEF ChatInv, KeptTurnsTell

\* A step of a request on a run, before it commits and when it has resolved one.
LEMMA ContinuedRequest ==
    ASSUME RunsInv, ChatInv, [Next]_vars, NEW p \in Reviewer, ContinueRun(p)
    PROVE  ChatInv'
  <1>0. TypeOK /\ AwaitingIffOpen /\ RequestFits(p) /\ ChatRequestFits(p)
    BY DEF RunsInv, ChatInv
  <1>1. UNCHANGED <<turns, calls>> /\ \A r \in Run : runs[r] # None => runs'[r] # None
    BY ForwardStep DEF ContinueRun, MovesForward
  <1>2. CASE PauseRun(p) \/ EndRun(p)
    <2>1. /\ Starting(p) /\ Starting(p)' /\ ~ Resolving(p)' /\ Others(p)
          /\ requests'[p].run = requests[p].run /\ requests'[p].chat = requests[p].chat
          /\ UNCHANGED messages
      BY <1>0, <1>2, StopEffect DEF Starting, Resolving
    <2> QED BY <1>1, <2>1, OneRequest DEF ResolvesNamed
  <1>3. CASE CommitRun(p)
    BY <1>3 DEF ContinueRun, CommitRun
  <1>4. CASE ResolveCheckpoint(p)
    <2>1. /\ Resolving(p) /\ requests[p] \in ResolveRequest /\ ~ Starting(p)
      BY <1>0, <1>4, RequestKinds DEF ResolveCheckpoint, Resolving, Starting
    <2> DEFINE r == requests[p].run
               d == requests[p].decision
    <2>2. r \in Run /\ d \in HitlDecision /\ interrupts[r] # None
      BY <1>0, <2>1 DEF ResolveRequest, RequestFits
    <2> HIDE DEF r, d
    <2>3. /\ requests'[p].step \in {"checked", "recorded"} /\ requests'[p].run = r
          /\ Others(p)
      BY <1>0, <1>4, <2>2, LoadEffect DEF ResolveCheckpoint, Loaded, r, d
    <2>4. ~ Starting(p)' /\ UNCHANGED messages
      BY <1>4, <2>3 DEF Starting, ResolveCheckpoint
    <2>5. ResolvesNamed(p)'
      BY <1>0, <1>4, <2>1, <2>3, <2>4
      DEF ResolveCheckpoint, ChatRequestFits, ResolvesNamed, Named, r
    <2> QED BY <1>1, <2>1, <2>3, <2>4, <2>5, OneRequest
  <1>5. CASE ResumeThread(p) \/ RunHitl(p) \/ RunReport(p)
    <2>1. /\ Resolving(p) /\ requests'[p].step = "resuming" /\ Others(p)
          /\ requests'[p].run = requests[p].run /\ requests'[p].chat = requests[p].chat
          /\ UNCHANGED messages
      BY <1>0, <1>5, ResumeEffect
    <2>2. ~ Starting(p) /\ ~ Starting(p)'
      BY <2>1 DEF Starting, Resolving
    <2>3. ResolvesNamed(p)'
      BY <1>0, <2>1 DEF ChatRequestFits, ResolvesNamed, Named
    <2> QED BY <1>1, <2>1, <2>2, <2>3, OneRequest
  <1>6. CASE ResumeNothing(p)
    <2>1. requests'[p] = Idle /\ Others(p) /\ requests[p].step = "recorded" /\ UNCHANGED messages
      BY <1>0, <1>6, EndsRequest DEF ResumeNothing
    <2>2. ~ Starting(p) /\ ~ Starting(p)' /\ ResolvesNamed(p)'
      BY <2>1 DEF Starting, Resolving, ResolvesNamed, Idle
    <2> QED BY <1>1, <2>1, <2>2, OneRequest
  <1>7. CASE FinishResolve(p)
    <2>1. Resolving(p) /\ requests'[p] = Idle /\ Others(p)
      BY <1>0, <1>7, ResolveEffect
    <2>2. ~ Starting(p) /\ ~ Starting(p)' /\ ResolvesNamed(p)'
      BY <2>1 DEF Starting, Resolving, ResolvesNamed, Idle
    <2>3. messages' = Reported(p, ResumeStatus(requests[p].decision))
      BY <1>7 DEF FinishResolve
    <2>4. ASSUME NEW n \in messages' PROVE \E m \in messages : m.run = n.run
      <3>1. CASE n \in messages
        BY <3>1
      <3>2. CASE n \notin messages
        <4>1. requests[p].chat /\ n.run = requests[p].run
          BY <2>3, <2>4, <3>2 DEF Reported
        <4> QED BY <1>0, <2>1, <4>1 DEF ChatRequestFits, ResolvesNamed, Named
      <3> QED BY <3>1, <3>2
    <2>5. messages \subseteq messages'
      BY <2>3 DEF Reported
    <2> QED BY <1>1, <2>1, <2>2, <2>4, <2>5, OneRequest
  <1> QED BY <1>2, <1>3, <1>4, <1>5, <1>6, <1>7 DEF ContinueRun, Continue

\* A request that begins: a run of no turn's, or a review.
LEMMA BegunRequest ==
    ASSUME RunsInv, ChatInv, [Next]_vars, UNCHANGED <<turns, calls>>,
           NEW p \in Reviewer, NEW r \in Run,
           \/ BeginRun(p, r, FALSE)
           \/ \E d \in HitlDecision : ResolveInterrupt(p, r, d) \/ CheckCheckpoint(p, r, d)
    PROVE  ChatInv'
  <1>0. TypeOK /\ \A s \in Run : runs[s] # None => runs'[s] # None
    BY ForwardStep DEF RunsInv, MovesForward
  <1>1. requests[p] = Idle /\ UNCHANGED messages /\ ~ Starting(p)
    <2>1. requests[p] = Idle /\ UNCHANGED messages
      BY DEF BeginRun, ResolveInterrupt, CheckCheckpoint
    <2> QED BY <2>1 DEF Starting, Idle
  <1>2. CASE BeginRun(p, r, FALSE)
    <2>1. /\ requests'[p].step = "running" /\ requests'[p].chat = FALSE /\ Others(p)
      BY <1>0, <1>2 DEF BeginRun, TypeOK, Others
    <2> QED BY <1>0, <1>1, <2>1, OneRequest DEF ResolvesNamed, Resolving
  <1>3. ASSUME NEW d \in HitlDecision, ResolveInterrupt(p, r, d) PROVE ChatInv'
    <2>1. /\ requests'[p].step \in {"checked", "recorded"} /\ requests'[p].chat = FALSE
          /\ requests'[p].step = "recorded" /\ Others(p)
      <3>1. Recorded(r, FALSE, d).step = "recorded"
        BY DEF Recorded
      <3>2. requests'[p] = Recorded(r, FALSE, d)
        BY <1>0, <1>3 DEF ResolveInterrupt, TypeOK
      <3> QED BY <1>0, <1>3, <3>1, <3>2, LoadEffect DEF ResolveInterrupt, Loaded
    <2>2. ~ Starting(p)' /\ ResolvesNamed(p)'
      BY <2>1 DEF Starting, ResolvesNamed
    <2> QED BY <1>0, <1>1, <2>1, <2>2, OneRequest
  <1>4. ASSUME NEW d \in HitlDecision, CheckCheckpoint(p, r, d) PROVE ChatInv'
    <2>1. interrupts[r] # None /\ Named(p, r)
      BY <1>0, <1>4, NoneAssumption
      DEF CheckCheckpoint, OpenFor, OpenInterrupt, HitlInterrupt, Named
    <2>2. /\ requests'[p].step \in {"checked", "recorded"} /\ requests'[p].run = r
          /\ Others(p)
      BY <1>0, <1>4, <2>1, LoadEffect DEF CheckCheckpoint, Loaded
    <2>3. ~ Starting(p)' /\ ResolvesNamed(p)'
      BY <1>1, <2>1, <2>2 DEF Starting, ResolvesNamed, Named
    <2> QED BY <1>0, <1>1, <2>2, <2>3, OneRequest
  <1> QED BY <1>2, <1>3, <1>4

LEMMA ChatInvStep == RunsInv /\ ChatInv /\ [ChatNext]_chatVars => ChatInv'
  <1> SUFFICES ASSUME RunsInv, ChatInv, [ChatNext]_chatVars PROVE ChatInv'
    OBVIOUS
  <1>0. /\ TypeOK /\ KeptTurnsTell /\ [Next]_vars
    BY ChatStepIsRunsStep DEF RunsInv, ChatInv
  <1>1. ASSUME NEW t \in Turn, NEW p \in Reviewer, SendMessage(t, p) PROVE ChatInv'
    <2> DEFINE s == [step |-> "routing", user |-> p]
    <2>1. s \in TurnState /\ s.step = "routing"
      BY DEF TurnState
    <2>2. /\ turns[t].step = "unsent" /\ turns' = [turns EXCEPT ![t] = s]
          /\ UNCHANGED <<vars, calls>>
      BY <1>1 DEF SendMessage
    <2> HIDE DEF s
    <2> QED BY <1>0, <2>1, <2>2, OneTurn DEF KeptTurnsTell
  <1>2. ASSUME NEW t \in Turn, NEW outcome \in Outcome \ {"run"}, Reply(t, outcome),
               UNCHANGED <<vars, calls>>, turns[t].step \in {"routing", "acting"},
               outcome = "done" => calls[t] = "committed"
        PROVE  ChatInv'
    <2> DEFINE s == [step |-> "replying", outcome |-> outcome]
    <2>1. s \in TurnState /\ s.step = "replying" /\ s.outcome = outcome
      BY DEF TurnState
    <2>2. turns' = [turns EXCEPT ![t] = s]
      BY <1>2 DEF Reply
    <2> HIDE DEF s
    <2> QED BY <1>0, <1>2, <2>1, <2>2, OneTurn DEF KeptTurnsTell
  <1>3. ASSUME NEW t \in Turn, Answer(t) \/ Summarize(t) \/ ReportFailure(t) PROVE ChatInv'
    BY <1>2, <1>3 DEF Answer, Summarize, ReportFailure, Outcome
  <1>4. ASSUME NEW t \in Turn, DispatchAction(t) PROVE ChatInv'
    <2> DEFINE s == [turns[t] EXCEPT !.step = "acting"]
    <2>1. turns[t] \in [step : {"routing", "acting"}, user : Reviewer]
      BY <1>0, <1>4, TurnKinds DEF DispatchAction
    <2>2. s \in TurnState /\ s.step = "acting"
      BY <2>1 DEF TurnState
    <2>3. /\ turns[t].step = "routing" /\ turns' = [turns EXCEPT ![t] = s]
          /\ UNCHANGED vars /\ calls' = [calls EXCEPT ![t] = "sent"]
      BY <1>0, <1>4, <2>1 DEF DispatchAction, KeptTurnsTell
    <2>4. calls' \in [Turn -> CallState] /\ \A o \in Turn : o # t => calls'[o] = calls[o]
      BY <1>0, <2>3 DEF KeptTurnsTell, CallState
    <2> HIDE DEF s
    <2> QED BY <2>2, <2>3, <2>4, OneTurn
  <1>5. ASSUME NEW t \in Turn, EndCall(t) PROVE ChatInv'
    <2>1. PICK end \in {"committed", "refused"} : calls' = [calls EXCEPT ![t] = end]
      BY <1>5 DEF EndCall
    <2>2. /\ calls' \in [Turn -> CallState]
          /\ \A o \in Turn : calls[o] = "committed" => calls'[o] = "committed"
      BY <1>0, <1>5, <2>1 DEF EndCall, KeptTurnsTell, CallState
    <2> QED BY <1>5, <2>2, EndedCall DEF EndCall
  <1>6. ASSUME NEW t \in Turn, CommitTurn(t) PROVE ChatInv'
    <2> DEFINE s == [turns[t] EXCEPT !.step = "kept"]
    <2>1. turns[t].step = "replying" /\ UNCHANGED <<vars, calls>>
      BY <1>6 DEF CommitTurn
    <2>2. turns[t] \in [step : {"replying", "kept"}, outcome : Outcome \ {"run"}]
      BY <1>0, <2>1, TurnKinds
    <2>3. /\ s \in TurnState /\ s.step = "kept" /\ s.outcome = turns[t].outcome
          /\ s.outcome # "run"
      BY <2>2 DEF TurnState
    <2>4. turns' = [turns EXCEPT ![t] = s]
      BY <1>0, <1>6 DEF CommitTurn, KeptTurnsTell
    <2>5. s.outcome = "done" => calls'[t] = "committed"
      BY <2>1, <2>3 DEF ChatInv, TurnFits
    <2> HIDE DEF s
    <2> QED BY <1>0, <2>1, <2>3, <2>4, <2>5, OneTurn DEF KeptTurnsTell
  <1>7. ASSUME NEW t \in Turn, FailTurn(t) PROVE ChatInv'
    <2>1. RolledBack \in TurnState /\ RolledBack.step = "rolled back"
      BY DEF RolledBack, TurnState
    <2>2. /\ turns[t].step \in {"routing", "acting", "replying"}
          /\ turns' = [turns EXCEPT ![t] = RolledBack] /\ UNCHANGED <<vars, calls>>
      BY <1>7 DEF FailTurn
    <2> QED BY <1>0, <2>1, <2>2, OneTurn DEF KeptTurnsTell
  <1>8. ASSUME NEW p \in Reviewer, FailRequest(p) PROVE ChatInv'
    <2>1. /\ \A o \in Reviewer : requests'[o] = IF o \in {p} THEN Idle ELSE requests[o]
          /\ UNCHANGED <<calls, messages>>
      BY <1>0, <1>8, EndsRequest DEF FailRequest, Fail, Others
    <2>2. turns' = [t \in Turn |-> IF t \in Investigating(p) THEN Undone(t) ELSE turns[t]]
      BY <1>8 DEF FailRequest
    <2>3. \A t \in Investigating(p) : Undone(t) \in TurnState /\ Undone(t).step = "undone"
      BY <1>0, UndoneTurn DEF Investigating
    <2>4. turns' \in [Turn -> TurnState]
      BY <1>0, <2>2, <2>3 DEF KeptTurnsTell
    <2>5. EndsTurns({p})
      BY <2>2, <2>3, <2>4 DEF Investigating, NotEnded, EndsTurns
    <2>6. {p} \in SUBSET Reviewer
      OBVIOUS
    <2> QED BY <2>1, <2>5, <2>6, EndedRequests
  <1>9. CASE RestartChat
    <2>1. /\ \A o \in Reviewer : requests'[o] = IF o \in Reviewer THEN Idle ELSE requests[o]
          /\ UNCHANGED <<calls, messages>>
      BY <1>9 DEF RestartChat, Restart
    <2>2. \A t \in Turn :
             \/ turns[t].step = "investigating" /\ turns'[t] = Undone(t)
             \/ turns'[t] = RolledBack /\ turns[t].step \in {"routing", "acting", "replying"}
             \/ turns'[t] = turns[t] /\ turns[t].step # "investigating"
      BY <1>9 DEF RestartChat
    <2>3. /\ \A t \in Turn : turns[t].step = "investigating" =>
                Undone(t) \in TurnState /\ Undone(t).step = "undone"
          /\ RolledBack \in TurnState /\ RolledBack.step = "rolled back"
      BY <1>0, UndoneTurn DEF RolledBack, TurnState
    <2>4. turns' \in [Turn -> TurnState]
      <3>1. \A t \in Turn : turns'[t] \in TurnState
        BY <1>0, <2>2, <2>3 DEF KeptTurnsTell
      <3> QED BY <1>9, <3>1 DEF RestartChat
    <2>5. \A t \in Turn : turns[t].step = "investigating" => turns[t].user \in Reviewer
      BY <1>0, TurnKinds
    <2>6. EndsTurns(Reviewer)
      BY <2>2, <2>3, <2>4, <2>5 DEF Investigating, NotEnded, EndsTurns
    <2>7. Reviewer \in SUBSET Reviewer
      OBVIOUS
    <2> QED BY <2>1, <2>6, <2>7, EndedRequests
  <1>10. ASSUME NEW p \in Reviewer, NEW r \in Run,
                \/ BeginRun(p, r, FALSE)
                \/ \E d \in HitlDecision : ResolveInterrupt(p, r, d) \/ CheckCheckpoint(p, r, d),
                UNCHANGED <<turns, calls>>
         PROVE  ChatInv'
    BY <1>0, <1>10, BegunRequest
  <1>11. CASE UNCHANGED chatVars
    <2>1. UNCHANGED vars /\ UNCHANGED turns /\ UNCHANGED calls
      BY <1>11 DEF chatVars
    <2> QED BY <1>0, <2>1, EndedCall DEF KeptTurnsTell
  <1>12. CASE ChatNext
    BY <1>0, <1>1, <1>3, <1>4, <1>5, <1>6, <1>7, <1>8, <1>9, <1>10, <1>12,
       DispatchedTurn, CommittedTurn, ContinuedRequest
    DEF ChatNext
  <1> QED BY <1>11, <1>12

(***************************************************************************)
(* The runs of turns that were rolled back                                 *)
(***************************************************************************)
\* A run with no row, that no request is starting.
NotStarted(r) ==
    /\ runs[r] = None
    /\ \A p \in Reviewer : Starting(p) => requests[p].run # r

UndoneInv ==
    \A t \in Turn, r \in Run : turns[t].step = "undone" /\ turns[t].run = r => NotStarted(r)

\* What happens to the runs when no request begins to start r.
NextBut(r) ==
    \/ \E p \in Reviewer, s \in Run \ {r}, chat \in BOOLEAN : BeginRun(p, s, chat)
    \/ \E p \in Reviewer, s \in Run, d \in HitlDecision :
          ResolveInterrupt(p, s, d) \/ CheckCheckpoint(p, s, d)
    \/ \E p \in Reviewer : Continue(p)
    \/ \E p \in Reviewer : Fail(p)
    \/ Restart
    \/ UNCHANGED vars

\* A request that is not started in a step starts nothing else.
LEMMA StillNotStarted ==
    ASSUME NEW r \in Run, NotStarted(r), runs'[r] = None, NEW p \in Reviewer, Others(p),
           Starting(p)' => Starting(p) /\ requests'[p].run = requests[p].run
    PROVE  NotStarted(r)'
  BY DEF NotStarted, Others, Starting

\* A run that is not there is not there until a request begins to start it.
LEMMA NotStartedStays ==
    ASSUME RunsInv, NEW r \in Run, NotStarted(r), NextBut(r)
    PROVE  NotStarted(r)'
  <1>0. TypeOK /\ AwaitingIffOpen /\ \A p \in Reviewer : RequestFits(p)
    BY DEF RunsInv
  <1>1. ASSUME NEW p \in Reviewer, NEW s \in Run \ {r}, NEW chat \in BOOLEAN,
               BeginRun(p, s, chat)
        PROVE  NotStarted(r)'
    <2>1. /\ requests'[p].run = s /\ Others(p) /\ UNCHANGED runs
      BY <1>0, <1>1 DEF BeginRun, TypeOK, Others
    <2> QED BY <2>1 DEF NotStarted, Others, Starting
  <1>2. ASSUME NEW p \in Reviewer, NEW s \in Run, NEW chat \in BOOLEAN, NEW d \in HitlDecision,
               interrupts[s] # None, NEW q \in Loaded(s, chat, d),
               requests' = [requests EXCEPT ![p] = q], UNCHANGED runs
        PROVE  NotStarted(r)'
    <2>1. ~ Starting(p)' /\ Others(p)
      BY <1>0, <1>2, LoadEffect DEF Starting
    <2> QED BY <1>2, <2>1, StillNotStarted DEF NotStarted
  <1>3. ASSUME NEW p \in Reviewer, NEW s \in Run, NEW d \in HitlDecision,
               ResolveInterrupt(p, s, d) \/ CheckCheckpoint(p, s, d)
        PROVE  NotStarted(r)'
    <2>1. interrupts[s] # None
      BY <1>0, <1>3, OpenIsUndecided DEF ResolveInterrupt, CheckCheckpoint
    <2> QED BY <1>2, <1>3, <2>1 DEF ResolveInterrupt, CheckCheckpoint, Loaded
  <1>4. ASSUME NEW p \in Reviewer, PauseRun(p) \/ EndRun(p) PROVE NotStarted(r)'
    BY <1>0, <1>4, StopEffect, StillNotStarted DEF NotStarted
  <1>5. ASSUME NEW p \in Reviewer, CommitRun(p) PROVE NotStarted(r)'
    <2>1. /\ Starting(p) /\ requests'[p] = Idle /\ Others(p)
          /\ \A s \in Run : s # requests[p].run => runs'[s] = runs[s]
      BY <1>0, <1>5, CommitEffect
    <2>2. runs'[r] = None /\ ~ Starting(p)'
      BY <2>1 DEF NotStarted, Starting, Idle
    <2> QED BY <2>1, <2>2, StillNotStarted
  <1>6. ASSUME NEW p \in Reviewer, ResolveCheckpoint(p) PROVE NotStarted(r)'
    <2> DEFINE s == requests[p].run
               d == requests[p].decision
    <2>1. Resolving(p) /\ requests[p] \in ResolveRequest
      BY <1>0, <1>6, RequestKinds DEF ResolveCheckpoint, Resolving
    <2>2. s \in Run /\ d \in HitlDecision /\ interrupts[s] # None
      BY <1>0, <2>1 DEF ResolveRequest, RequestFits
    <2>3. requests' = [requests EXCEPT ![p] = Recorded(s, TRUE, d)] /\ UNCHANGED runs
      BY <1>6 DEF ResolveCheckpoint
    <2> HIDE DEF s, d
    <2> QED BY <1>2, <2>2, <2>3 DEF Loaded
  <1>7. ASSUME NEW p \in Reviewer, ResumeThread(p) \/ RunHitl(p) \/ RunReport(p)
        PROVE  NotStarted(r)'
    <2>1. requests'[p].step = "resuming" /\ Others(p) /\ UNCHANGED runs
      BY <1>0, <1>7, ResumeEffect
    <2> QED BY <2>1, StillNotStarted DEF NotStarted, Starting
  <1>8. ASSUME NEW p \in Reviewer, ResumeNothing(p) \/ Fail(p) PROVE NotStarted(r)'
    <2>1. requests'[p] = Idle /\ Others(p) /\ UNCHANGED runs
      BY <1>0, <1>8, EndsRequest DEF ResumeNothing, Fail
    <2> QED BY <2>1, StillNotStarted DEF NotStarted, Starting, Idle
  <1>9. ASSUME NEW p \in Reviewer, FinishResolve(p) PROVE NotStarted(r)'
    <2>1. /\ Resolving(p) /\ requests[p].run \in Run /\ interrupts[requests[p].run] # None
          /\ requests'[p] = Idle /\ Others(p)
          /\ \A s \in Run : s # requests[p].run => runs'[s] = runs[s]
      BY <1>0, <1>9, ResolveEffect
    <2>2. runs[requests[p].run] # None
      BY <2>1 DEF RunsInv
    <2>3. runs'[r] = None /\ ~ Starting(p)'
      BY <2>1, <2>2 DEF NotStarted, Starting, Idle
    <2> QED BY <2>1, <2>3, StillNotStarted
  <1>10. CASE Restart \/ UNCHANGED vars
    BY <1>10 DEF Restart, vars, NotStarted, Starting, Idle
  <1> QED BY <1>1, <1>3, <1>4, <1>5, <1>6, <1>7, <1>8, <1>9, <1>10 DEF NextBut, Continue

\* What a chat step does to the runs, beside starting one that no turn has had.
LEMMA ChatStepBut ==
    ASSUME KeptTurnsTell, [ChatNext]_chatVars, NEW t \in Turn, turns[t].step = "undone",
           NEW r \in Run, turns[t].run = r
    PROVE  NextBut(r)
  <1>1. ASSUME NEW o \in Turn, NEW s \in Run, DispatchInvestigation(o, s) PROVE NextBut(r)
    <2>1. turns[o].step = "routing" /\ BeginRun(turns[o].user, s, TRUE) /\ s # r
      BY <1>1 DEF DispatchInvestigation, Fresh
    <2>2. turns[o].user \in Reviewer
      BY <2>1, TurnKinds
    <2> QED BY <2>1, <2>2 DEF NextBut
  <1>2. ASSUME \/ \E o \in Turn, p \in Reviewer : SendMessage(o, p)
               \/ \E o \in Turn : \/ Answer(o) \/ DispatchAction(o) \/ EndCall(o)
                                  \/ Summarize(o) \/ ReportFailure(o) \/ CommitTurn(o)
                                  \/ FailTurn(o)
               \/ UNCHANGED chatVars
        PROVE  NextBut(r)
    BY <1>2 DEF SendMessage, Answer, DispatchAction, EndCall, Summarize, ReportFailure,
                CommitTurn, FailTurn, chatVars, NextBut
  <1>3. ASSUME NEW p \in Reviewer, CommitTurnRun(p) \/ FailRequest(p) \/ ContinueRun(p)
        PROVE  NextBut(r)
    BY <1>3 DEF CommitTurnRun, FailRequest, ContinueRun, NextBut, Continue
  <1>4. CASE RestartChat
    BY <1>4 DEF RestartChat, NextBut
  <1>5. ASSUME NEW p \in Reviewer, NEW s \in Run,
               \/ BeginRun(p, s, FALSE) /\ Fresh(s)
               \/ \E d \in HitlDecision : ResolveInterrupt(p, s, d) \/ CheckCheckpoint(p, s, d)
        PROVE  NextBut(r)
    <2>1. Fresh(s) => s # r
      BY DEF Fresh
    <2> QED BY <1>5, <2>1 DEF NextBut
  <1> QED BY <1>1, <1>2, <1>3, <1>4, <1>5 DEF ChatNext

\* A turn is undone with its run's request, and stays so.
LEMMA UndoneStep == RunsInv /\ ChatInv /\ UndoneInv /\ [ChatNext]_chatVars => UndoneInv'
  <1> SUFFICES ASSUME RunsInv, ChatInv, UndoneInv, [ChatNext]_chatVars,
                      NEW t \in Turn, NEW r \in Run,
                      turns'[t].step = "undone", turns'[t].run = r
               PROVE  NotStarted(r)'
    BY DEF UndoneInv
  <1>0. TypeOK /\ KeptTurnsTell /\ TurnFits(t) /\ \A p \in Reviewer : RequestFits(p)
    BY DEF RunsInv, ChatInv
  <1>1. CASE turns'[t] = turns[t]
    <2>1. turns[t].step = "undone" /\ turns[t].run = r /\ NotStarted(r)
      BY <1>1 DEF UndoneInv
    <2> QED BY <1>0, <1>1, <2>1, ChatStepBut, NotStartedStays
  <1>2. ASSUME NEW p \in Reviewer, FailRequest(p), t \in Investigating(p)
        PROVE  NotStarted(r)'
    <2>1. turns[t].run = r /\ requests'[p] = Idle /\ Others(p) /\ UNCHANGED runs
      BY <1>0, <1>2, EndsRequest DEF FailRequest, Fail, Undone
    <2>2. Starting(p) /\ requests[p].run = r
      BY <1>0, <1>2, <2>1 DEF TurnFits, Investigating
    <2>3. runs[r] = None
      BY <1>0, <2>2 DEF RequestFits
    <2>4. \A o \in Reviewer : o # p /\ Starting(o) => requests[o].run # r
      BY <2>2 DEF RunsInv, StartsApart
    <2> QED BY <2>1, <2>3, <2>4 DEF NotStarted, Others, Starting, Idle
  <1>3. CASE RestartChat /\ turns[t].step = "investigating"
    <2>1. /\ turns[t].run = r /\ UNCHANGED runs
          /\ \A p \in Reviewer : requests'[p] = Idle
      BY <1>3 DEF RestartChat, Restart, Undone
    <2>2. runs[r] = None
      BY <1>0, <1>3, <2>1, TurnKinds DEF TurnFits, RequestFits
    <2> QED BY <2>1, <2>2 DEF NotStarted, Starting, Idle
  <1>4. \/ turns'[t] = turns[t]
        \/ \E p \in Reviewer : FailRequest(p) /\ t \in Investigating(p)
        \/ RestartChat /\ turns[t].step = "investigating"
    <2>1. ASSUME NEW o \in Turn, NEW s, s.step # "undone", turns' = [turns EXCEPT ![o] = s]
          PROVE  turns'[t] = turns[t]
      BY <1>0, <2>1 DEF KeptTurnsTell
    <2>2. ASSUME NEW o \in Turn, NEW p \in Reviewer, SendMessage(o, p) PROVE turns'[t] = turns[t]
      BY <2>1, <2>2 DEF SendMessage
    <2>3. ASSUME NEW o \in Turn, Answer(o) \/ Summarize(o) \/ ReportFailure(o) \/ FailTurn(o)
          PROVE  turns'[t] = turns[t]
      BY <2>1, <2>3 DEF Answer, Summarize, ReportFailure, FailTurn, Reply, RolledBack
    <2>4. ASSUME NEW o \in Turn, NEW s \in Run, DispatchInvestigation(o, s)
          PROVE  turns'[t] = turns[t]
      BY <2>1, <2>4 DEF DispatchInvestigation
    <2>5. ASSUME NEW o \in Turn, DispatchAction(o) \/ CommitTurn(o) PROVE turns'[t] = turns[t]
      <3>1. /\ turns[o] \in TurnState /\ turns[o].step \in {"routing", "replying"}
        BY <1>0, <2>5 DEF DispatchAction, CommitTurn, KeptTurnsTell
      <3>2. /\ [turns[o] EXCEPT !.step = "acting"].step = "acting"
            /\ [turns[o] EXCEPT !.step = "kept"].step = "kept"
        BY <3>1 DEF TurnState
      <3>3. \/ turns' = [turns EXCEPT ![o] = [turns[o] EXCEPT !.step = "acting"]]
            \/ turns' = [turns EXCEPT ![o] = [turns[o] EXCEPT !.step = "kept"]]
        BY <1>0, <2>5 DEF DispatchAction, CommitTurn, KeptTurnsTell
      <3> QED BY <2>1, <3>2, <3>3
    <2>6. ASSUME NEW p \in Reviewer, CommitTurnRun(p) PROVE turns'[t] = turns[t]
      BY <2>6 DEF CommitTurnRun
    <2>7. CASE UNCHANGED turns
      BY <2>7
    <2>8. ASSUME NEW p \in Reviewer, FailRequest(p), t \notin Investigating(p)
          PROVE  turns'[t] = turns[t]
      BY <2>8 DEF FailRequest
    <2>9. CASE RestartChat /\ turns[t].step # "investigating"
      BY <2>9 DEF RestartChat, RolledBack
    <2>10. ASSUME NEW p \in Reviewer, ContinueRun(p) PROVE UNCHANGED turns
      BY <2>10 DEF ContinueRun
    <2>11. ASSUME NEW o \in Turn, EndCall(o) PROVE UNCHANGED turns
      BY <2>11 DEF EndCall
    <2>12. CASE UNCHANGED chatVars
      BY <2>7, <2>12 DEF chatVars
    <2>13. CASE ChatNext
      BY <2>2, <2>3, <2>4, <2>5, <2>6, <2>7, <2>8, <2>9, <2>10, <2>11, <2>13 DEF ChatNext
    <2> QED BY <2>12, <2>13
  <1> QED BY <1>1, <1>2, <1>3, <1>4

LEMMA ChatInvAlways == ChatSpec => [](RunsInv /\ ChatInv /\ UndoneInv)
  <1>1. ChatInit => RunsInv /\ ChatInv /\ UndoneInv
    BY InitRunsInv, InitChatInv DEF ChatInit, UndoneInv
  <1>2. RunsInv /\ ChatInv /\ UndoneInv /\ [ChatNext]_chatVars =>
            (RunsInv /\ ChatInv /\ UndoneInv)'
    <2>1. ChatInv => KeptTurnsTell
      BY DEF ChatInv
    <2> QED BY <2>1, ChatStepIsRunsStep, RunsInvStep, ChatInvStep, UndoneStep
  <1> QED BY <1>1, <1>2, PTL DEF ChatSpec

\* The chat is one use of the agent runs among others: whatever it does, AgentRuns
\* allows, so what is proved of every run holds of those the chat starts and resolves.
THEOREM ChatImplementsRuns == ChatSpec => Spec
  <1>1. ChatInv => KeptTurnsTell
    BY DEF ChatInv
  <1>2. ChatInit => Init
    BY DEF ChatInit
  <1>3. ChatInv /\ [ChatNext]_chatVars => [Next]_vars
    BY <1>1, ChatStepIsRunsStep
  <1> QED BY <1>2, <1>3, ChatInvAlways, PTL DEF ChatSpec, Spec

\* What the conversation tells has happened: an action reported done is committed, a
\* run reported is there with its message, and the run of a turn that was rolled
\* back is not there, nor its interrupt.
THEOREM TurnsAlwaysTell == ChatSpec => []TurnsTellWhatHappened
  <1>1. RunsInv /\ ChatInv /\ UndoneInv => TurnsTellWhatHappened
    <2> SUFFICES ASSUME RunsInv, ChatInv, UndoneInv PROVE TurnsTellWhatHappened
      OBVIOUS
    <2>1. KeptTurnsTell
      BY DEF ChatInv
    <2>2. \A t \in Turn : turns[t].step = "undone" => turns[t].run \in Run
      BY <2>1, TurnKinds
    <2>3. UndoneTurnsLeaveNoRun
      BY <2>2 DEF UndoneInv, NotStarted, RunsInv, UndoneTurnsLeaveNoRun
    <2> QED BY <2>1, <2>3 DEF TurnsTellWhatHappened
  <1> QED BY <1>1, ChatInvAlways, PTL
=============================================================================
