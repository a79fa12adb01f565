---------------------------- MODULE DemoAppProofs ----------------------------
(***************************************************************************)
(* Proofs about the server of the demo and its page, for any captures, any *)
(* number of clicks and requests, any board: one replay at a time has the  *)
(* board, and no state that anybody sees is torn or shows a false PASS.    *)
(***************************************************************************)
EXTENDS DemoApp, DemoReplayProofs

PostStates == {"sent", "starting", "accepted", "refused", "answered"}

ServerTypes ==
  /\ posts \in Seq(PostStates)
  /\ starting \in Seq(Nat)
  /\ Len(starting) = Len(posts)
  /\ runs \in Nat
  /\ "run" \in DOMAIN state

(* The lock is held by one request at most, and while it is held no worker *)
(* is alive and the board is at rest; the state is already about the run   *)
(* whose thread it will start.                                             *)
LockHeld ==
  \A p \in DOMAIN posts : posts[p] = "starting" =>
    /\ \A q \in DOMAIN posts : posts[q] = "starting" => q = p
    /\ workers = {}
    /\ starting[p] = state.run
    /\ phase # "replay"

WorkersOfState ==
  /\ workers \subseteq {state.run}
  /\ phase = "replay" => workers = {state.run}

AInv == ServerTypes /\ LockHeld /\ WorkersOfState

-----------------------------------------------------------------------------
LEMMA AInvImplies == AInv => OneReplay
<1> SUFFICES ASSUME AInv PROVE OneReplay
  OBVIOUS
<1>1. workers = {} \/ workers = {state.run}
  BY DEF AInv, WorkersOfState
<1>2. Cardinality(workers) <= 1
  <2>1. Cardinality({}) = 0 /\ Cardinality({state.run}) = 1
    BY FS_EmptySet, FS_Singleton
  <2> QED BY <1>1, <2>1
<1> QED BY <1>2 DEF AInv, WorkersOfState, OneReplay

LEMMA AInvInit == AppInit => AInv
<1> SUFFICES ASSUME AppInit PROVE AInv
  OBVIOUS
<1>1. ServerTypes
  BY DEF AppInit, ServerTypes, NewState
<1> QED BY <1>1 DEF AppInit, Init, AInv, LockHeld, WorkersOfState

(* A step that leaves the server alone and begins no replay.               *)
LEMMA AInvElsewhere ==
  ASSUME AInv, UNCHANGED <<workers, starting, runs, posts>>,
         "run" \in DOMAIN state', state'.run = state.run,
         phase' = "replay" => phase = "replay"
  PROVE  AInv'
BY DEF AInv, ServerTypes, LockHeld, WorkersOfState

LEMMA OfflineKeepsPhase ==
  ASSUME Offline PROVE phase' = phase \/ phase' = "ready"
BY DEF Offline, Generate, WriteOracle, Board, FaultyBoard

LEMMA WorkerNeedsReplay ==
  ASSUME Replay \/ SetupFails \/ Timeout PROVE phase = "replay"
BY DEF Replay, Ready, ReadMessage, PollCounter, ReadBid, ReadAsk, Finish, SetupFails, Timeout

(* The callbacks never change what run the state is about.                 *)
LEMMA CallbackKeepsRun ==
  ASSUME Callback, "run" \in DOMAIN state
  PROVE  "run" \in DOMAIN state' /\ state'.run = state.run
<1>1. \/ state' = StateAfterComplete
      \/ state' = StateAfterFail
      \/ state' = [state EXCEPT !.status = "RUNNING"]
      \/ state' = StateAfterBbo(bid_half.stock)
      \/ state' = state
  BY DEF Callback
<1>2. CASE state' = StateAfterComplete
  BY <1>2 DEF StateAfterComplete
<1>3. CASE state' = StateAfterFail
  BY <1>3 DEF StateAfterFail
<1>4. CASE state' = [state EXCEPT !.status = "RUNNING"]
  BY <1>4
<1>5. CASE state' = StateAfterBbo(bid_half.stock)
  BY <1>5 DEF StateAfterBbo
<1> QED BY <1>1, <1>2, <1>3, <1>4, <1>5

LEMMA AInvBeginRun ==
  ASSUME AInv, NEW p \in DOMAIN posts, BeginRun(p) PROVE AInv'
<1>1. /\ runs' = runs + 1 /\ runs' \in Nat
      /\ starting' = [starting EXCEPT ![p] = runs']
      /\ posts' = [posts EXCEPT ![p] = "starting"]
      /\ workers = {} /\ workers' = {}
      /\ \A q \in DOMAIN posts : posts[q] # "starting"
      /\ phase' = phase
  BY DEF BeginRun, LockFree, AInv, ServerTypes, vars
<1>2. "run" \in DOMAIN state' /\ state'.run = runs'
  BY <1>1 DEF BeginRun, StateAfterBegin, NewState
<1>3. phase # "replay"
  BY <1>1 DEF AInv, WorkersOfState
<1>4. DOMAIN posts = 1 .. Len(posts) /\ DOMAIN starting = DOMAIN posts
  BY DEF AInv, ServerTypes
<1>5. ServerTypes'
  <2>1. posts' \in Seq(PostStates) /\ Len(posts') = Len(posts)
    BY <1>1, <1>4 DEF AInv, ServerTypes, PostStates
  <2>2. starting' \in Seq(Nat) /\ Len(starting') = Len(starting)
    BY <1>1, <1>4 DEF AInv, ServerTypes
  <2> QED BY <2>1, <2>2, <1>1, <1>2 DEF AInv, ServerTypes
<1>6. LockHeld'
  BY <1>1, <1>2, <1>3, <1>4 DEF LockHeld
<1>7. WorkersOfState'
  BY <1>1, <1>3 DEF WorkersOfState
<1> QED BY <1>5, <1>6, <1>7 DEF AInv

LEMMA AInvStartThread ==
  ASSUME AInv, NEW p \in DOMAIN posts, StartThread(p) PROVE AInv'
<1>1. /\ posts[p] = "starting"
      /\ workers = {} /\ starting[p] = state.run /\ phase # "replay"
      /\ \A q \in DOMAIN posts : posts[q] = "starting" => q = p
  BY DEF StartThread, AInv, LockHeld
<1>2. /\ workers' = {state.run}
      /\ posts' = [posts EXCEPT ![p] = "accepted"]
      /\ UNCHANGED <<state, starting, runs>>
      /\ phase' = "replay"
  BY <1>1 DEF StartThread, Begin
<1>3. ServerTypes'
  <2>1. posts' \in Seq(PostStates) /\ Len(posts') = Len(posts)
    BY <1>2 DEF AInv, ServerTypes, PostStates
  <2> QED BY <2>1, <1>2 DEF AInv, ServerTypes
<1>4. DOMAIN posts' = DOMAIN posts
  BY <1>2
<1>5. \A q \in DOMAIN posts' : posts'[q] # "starting"
  BY <1>1, <1>2, <1>4
<1>6. LockHeld'
  BY <1>5 DEF LockHeld
<1>7. WorkersOfState'
  BY <1>2 DEF WorkersOfState
<1> QED BY <1>3, <1>6, <1>7 DEF AInv

(* Requests that come, are refused or answered.                            *)
LEMMA AInvPosts ==
  ASSUME AInv, UNCHANGED <<workers, state, runs, phase>>,
         \/ Click
         \/ \E p \in DOMAIN posts : Refuse(p) \/ ClickAnswered(p)
  PROVE  AInv'
<1>1. CASE Click
  <2>1. posts' = Append(posts, "sent") /\ starting' = Append(starting, 0)
    BY <1>1 DEF Click
  <2>2. ServerTypes'
    BY <2>1 DEF AInv, ServerTypes, PostStates
  <2>3. /\ DOMAIN posts' = DOMAIN posts \cup {Len(posts) + 1}
        /\ posts'[Len(posts) + 1] = "sent"
        /\ \A q \in DOMAIN posts : posts'[q] = posts[q] /\ starting'[q] = starting[q]
    BY <2>1 DEF AInv, ServerTypes
  <2>4. LockHeld'
    BY <2>3 DEF AInv, LockHeld
  <2> QED BY <2>2, <2>4 DEF AInv, WorkersOfState
<1>2. ASSUME NEW p \in DOMAIN posts, Refuse(p) \/ ClickAnswered(p)
      PROVE  AInv'
  <2>1. PICK answer \in {"refused", "answered"} :
          posts' = [posts EXCEPT ![p] = answer] /\ starting' = starting
    BY <1>2 DEF Refuse, ClickAnswered, server
  <2>2. ServerTypes'
    <3>1. posts' \in Seq(PostStates) /\ Len(posts') = Len(posts)
      BY <2>1 DEF AInv, ServerTypes, PostStates
    <3> QED BY <3>1, <2>1 DEF AInv, ServerTypes
  <2>3. /\ DOMAIN posts' = DOMAIN posts
        /\ \A q \in DOMAIN posts : posts'[q] = "starting" => posts[q] = "starting"
    BY <2>1
  <2>4. LockHeld'
    BY <2>1, <2>3 DEF AInv, LockHeld
  <2> QED BY <2>2, <2>4 DEF AInv, WorkersOfState
<1> QED BY <1>1, <1>2

LEMMA AInvStep == AInv /\ [AppNext]_appvars => AInv'
<1> SUFFICES ASSUME AInv, [AppNext]_appvars PROVE AInv'
  OBVIOUS
<1>0. "run" \in DOMAIN state
  BY DEF AInv, ServerTypes
<1>1. CASE Offline
  BY <1>0, <1>1, OfflineKeepsPhase, AInvElsewhere DEF Offline, server, browser
<1>2. CASE WorkerStep
  <2>1. phase = "replay"
    BY <1>2, WorkerNeedsReplay DEF WorkerStep
  <2>2. "run" \in DOMAIN state' /\ state'.run = state.run
    BY <1>0, <1>2, CallbackKeepsRun DEF WorkerStep
  <2> QED BY <1>2, <2>1, <2>2, AInvElsewhere DEF WorkerStep, browser
<1>3. CASE WorkerExits
  <2>1. phase # "replay" /\ phase' = phase
    BY <1>3 DEF WorkerExits, Ended, Failures, vars
  <2>2. workers' = {} /\ UNCHANGED <<state, starting, runs, posts>>
    BY <1>3 DEF WorkerExits, AInv, WorkersOfState, browser
  <2> QED BY <2>1, <2>2 DEF AInv, ServerTypes, LockHeld, WorkersOfState
<1>4. CASE Click
  BY <1>4, AInvPosts DEF Click, vars
<1>5. ASSUME NEW p \in DOMAIN posts, Refuse(p) \/ ClickAnswered(p) PROVE AInv'
  BY <1>5, AInvPosts DEF Refuse, ClickAnswered, vars, server
<1>6. ASSUME NEW p \in DOMAIN posts, BeginRun(p) PROVE AInv'
  BY <1>6, AInvBeginRun
<1>7. ASSUME NEW p \in DOMAIN posts, StartThread(p) PROVE AInv'
  BY <1>7, AInvStartThread
<1>8. CASE Poll \/ Answer \/ PollFails \/ Render
  BY <1>0, <1>8, AInvElsewhere DEF Poll, Answer, PollFails, Render, vars, server
<1>9. CASE UNCHANGED appvars
  BY <1>0, <1>9, AInvElsewhere DEF appvars, vars, server, browser
<1> QED BY <1>1, <1>2, <1>3, <1>4, <1>5, <1>6, <1>7, <1>8, <1>9 DEF AppNext

-----------------------------------------------------------------------------
(* At most one worker has the board, and it works for the run the shared   *)
(* state is about: start_run checks and starts under _worker_lock          *)
(* (app.py:214).                                                           *)
THEOREM OneReplayAtATime == AppSpec => []OneReplay
BY AInvInit, AInvStep, AInvImplies, PTL DEF AppSpec

-----------------------------------------------------------------------------
(* Whatever the server and the page do, the program goes the steps of a    *)
(* replay, so all that is proved of one holds here.                        *)
LEMMA AppStepIsReplayStep == [AppNext]_appvars => [Next]_vars
<1> SUFFICES ASSUME [AppNext]_appvars PROVE [Next]_vars
  OBVIOUS
<1>1. CASE Offline
  BY <1>1 DEF Offline, Next
<1>2. CASE WorkerStep
  BY <1>2 DEF WorkerStep, Next
<1>3. ASSUME NEW p \in DOMAIN posts, StartThread(p) PROVE [Next]_vars
  BY <1>3 DEF StartThread, Next
<1>4. ASSUME NEW p \in DOMAIN posts, Refuse(p) \/ BeginRun(p) \/ ClickAnswered(p)
      PROVE  UNCHANGED vars
  BY <1>4 DEF Refuse, BeginRun, ClickAnswered
<1>5. CASE WorkerExits \/ Click \/ Poll \/ Answer \/ PollFails \/ Render
  BY <1>5 DEF WorkerExits, Click, Poll, Answer, PollFails, Render
<1>6. CASE UNCHANGED appvars
  BY <1>6 DEF appvars
<1> QED BY <1>1, <1>2, <1>3, <1>4, <1>5, <1>6 DEF AppNext

(* The server and the page add nothing to what a replay may do: each of    *)
(* their steps is a step of the two programs and the board, or none.       *)
THEOREM AppRunsReplays == AppSpec => Spec
<1>1. AppInit => Init
  BY DEF AppInit
<1> QED BY <1>1, AppStepIsReplayStep, PTL DEF AppSpec, Spec

LEMMA ReplayInvariants == AppSpec => []MInv /\ []VInv
BY AppRunsReplays, MInvHolds, VInvHolds, PTL

-----------------------------------------------------------------------------
(* What the state shows.                                                   *)

Notes == {NoMismatch} \cup (Symbols \X Nat) \cup {<<reason>> : reason \in SummaryReasons}
Statuses == {"IDLE", "PASS", "FAIL"} \cup Busy

States ==
  [run : Nat, status : Statuses, bbo_updates : Nat, comparisons : Nat, mismatches : Nat,
   latched_fail : Flags, first_mismatch : Notes]

(* SnapshotCoherent and PassIsEarned of one state.                         *)
Fit(seen) ==
  /\ seen \in States
  /\ seen.comparisons = seen.bbo_updates
  /\ seen.status = "PASS" =>
       /\ seen.latched_fail # TRUE
       /\ seen.mismatches = 0
       /\ seen.comparisons = total_expected(expected)
       /\ seen.run \in agreed
  /\ seen.first_mismatch # NoMismatch => seen.latched_fail = TRUE
  /\ seen.mismatches > 0 <=> seen.first_mismatch # NoMismatch
  /\ seen.status = "RUNNING" /\ seen.latched_fail = TRUE => seen.mismatches > 0

(* While a replay goes on the state follows the verifier.                  *)
Follow ==
  phase = "replay" =>
    /\ state.status \in Busy
    /\ state.comparisons = verifier.comparisons
    /\ state.mismatches = verifier.mismatches
    /\ state.latched_fail = verifier.latched_fail

(* A request that has begun a run leaves a fresh state to its thread.      *)
Fresh ==
  \A p \in DOMAIN posts : posts[p] = "starting" => state = NewState(state.run, "INITIALISING")

(* The server is not up before the oracle is written.                      *)
Quiet ==
  phase = "generate" =>
    /\ posts = <<>>
    /\ \A seen \in Seen : seen.status = "IDLE"

SInv ==
  /\ \A seen \in Seen : Fit(seen)
  /\ DOMAIN page = {"shown", "button"}
  /\ Follow /\ Fresh /\ Quiet

LEMMA SInvInit == AppInit => SInv
<1> SUFFICES ASSUME AppInit PROVE SInv
  OBVIOUS
<1>1. /\ phase = "generate" /\ posts = <<>> /\ DOMAIN page = {"shown", "button"}
      /\ \A seen \in Seen : seen = NewState(0, "IDLE")
  BY DEF AppInit, Init, Seen
<1>2. Fit(NewState(0, "IDLE"))
  BY DEF NewState, Fit, States, Statuses, Flags, Notes
<1>3. NewState(0, "IDLE").status = "IDLE"
  BY DEF NewState
<1> QED BY <1>1, <1>2, <1>3 DEF SInv, Follow, Fresh, Quiet

(* What was seen stays fit: the oracle does not change once it is written, *)
(* and a run that agreed stays one.                                        *)
LEMMA FitStays ==
  ASSUME NEW seen, Fit(seen), agreed \subseteq agreed',
         seen.status # "PASS" \/ expected' = expected
  PROVE  Fit(seen)'
BY DEF Fit, total_expected

(* A step of the replay that has a worker, as the server sees it.          *)
Verdict ==
  phase' = "done" /\ state' = StateAfterComplete /\ published' = published

GivenUp ==
  /\ phase' \in Failures /\ state' = StateAfterFail
  /\ verifier' = verifier

Compared ==
  /\ phase' = "replay"
  /\ bid_half.stock \in Symbols
  /\ \E actual : verifier' = Observe(verifier, expected, bid_half.stock, actual)
  /\ state' = StateAfterBbo(bid_half.stock)

Unnoticed ==
  /\ phase' = "replay" /\ verifier' = verifier
  /\ state' \in {state, [state EXCEPT !.status = "RUNNING"]}

LEMMA CallbackOf ==
  ASSUME Callback
  PROVE  /\ phase' = "done" => state' = StateAfterComplete
         /\ phase' \in Failures => state' = StateAfterFail
         /\ phase' = "replay" /\ pc = "setup" => state' = [state EXCEPT !.status = "RUNNING"]
         /\ phase' = "replay" /\ pc = "ask" /\ published' # published =>
              state' = StateAfterBbo(bid_half.stock)
         /\ phase' = "replay" /\ pc # "setup" /\ ~(pc = "ask" /\ published' # published) =>
              state' = state
<1>1. phase' = "done" => phase' \notin Failures /\ phase' # "replay"
  BY DEF Failures
<1>2. phase' = "replay" => phase' \notin Failures /\ phase' # "done"
  BY DEF Failures
<1>3. pc = "setup" => pc # "ask"
  OBVIOUS
<1> QED BY <1>1, <1>2, <1>3, Zenon DEF Callback

LEMMA WorkerSteps ==
  ASSUME MInv, VInv, WorkerStep
  PROVE  /\ phase = "replay" /\ UNCHANGED <<expected, workers, posts, starting, browser>>
         /\ Verdict \/ GivenUp \/ Compared \/ Unnoticed
<1>1. Callback
  BY DEF WorkerStep
<1>2. phase = "replay" /\ UNCHANGED <<workers, posts, starting, browser>>
  BY WorkerNeedsReplay DEF WorkerStep, browser
<1>3. CASE Ready
  <2>1. phase' = "replay" /\ pc = "setup" /\ UNCHANGED <<verifier, published, expected>>
    BY <1>3 DEF Ready, generator
  <2> QED BY <1>1, <1>2, <2>1, CallbackOf DEF Unnoticed
<1>4. CASE ReadMessage
  <2>1. phase' = "replay" /\ pc = "read" /\ UNCHANGED <<verifier, published, expected>>
    BY <1>4 DEF ReadMessage, generator
  <2> QED BY <1>1, <1>2, <2>1, CallbackOf DEF Unnoticed
<1>5. CASE PollCounter \/ ReadBid
  <2>1. /\ pc # "setup" /\ UNCHANGED <<verifier, published, expected>>
        /\ phase' = "replay" \/ phase' \in Failures
    BY <1>2, <1>5 DEF PollCounter, ReadBid, Fail, Failures, program, generator
  <2> QED BY <1>1, <1>2, <2>1, CallbackOf DEF Unnoticed, GivenUp
<1>6. CASE SetupFails \/ Timeout
  <2>1. UNCHANGED <<verifier, published, expected>> /\ phase' \in Failures
    BY <1>6 DEF SetupFails, Timeout, Fail, Failures, program, generator
  <2> QED BY <1>1, <1>2, <2>1, CallbackOf DEF GivenUp
<1>7. CASE Finish
  <2>1. UNCHANGED <<published, expected>>
    BY <1>7 DEF Finish, generator
  <2>2. \/ phase' = "done"
        \/ phase' \in Failures /\ verifier' = verifier
    BY <1>7 DEF Finish, Failures
  <2> QED BY <1>1, <1>2, <2>1, <2>2, CallbackOf DEF Verdict, GivenUp
<1>8. CASE ReadAsk
  <2>1. /\ pc = "ask" /\ expected' = expected
        /\ \/ /\ UNCHANGED <<published, verifier>>
              /\ phase' \in {phase, "counter advanced again"}
           \/ /\ phase' = phase
              /\ bid_half.stock \in Symbols
              /\ \E actual :
                   /\ verifier' = Observe(verifier, expected, bid_half.stock, actual)
                   /\ published' = [published EXCEPT ![bid_half.stock] = Append(@, actual)]
    BY <1>8, ReadAskOutcome
  <2>2. CASE UNCHANGED <<published, verifier>> /\ phase' \in {phase, "counter advanced again"}
    BY <1>1, <1>2, <2>1, <2>2, CallbackOf DEF Unnoticed, GivenUp, Failures
  <2>3. ASSUME phase' = phase, bid_half.stock \in Symbols, NEW actual,
               verifier' = Observe(verifier, expected, bid_half.stock, actual),
               published' = [published EXCEPT ![bid_half.stock] = Append(@, actual)]
        PROVE  Compared
    <3> DEFINE s == bid_half.stock
    <3>1. published'[s] = Append(published[s], actual) /\ IsSequence(published[s])
      BY <2>3 DEF VInv, VerdictTypes
    <3>2. Len(published'[s]) = Len(published[s]) + 1 /\ Len(published[s]) \in Nat
      BY <3>1, AppendToSequence, SequenceLength
    <3>3. published' # published
      BY <3>2
    <3> QED BY <1>1, <1>2, <2>1, <2>3, <3>3, CallbackOf DEF Compared
  <2> QED BY <1>2, <2>1, <2>2, <2>3
<1> QED BY <1>3, <1>4, <1>5, <1>6, <1>7, <1>8 DEF WorkerStep, Replay

(* The four ways the state may change under a worker.                      *)
LEMMA VerdictFits ==
  ASSUME SInv, MInv, VInv, VInv', WorkerStep, phase = "replay",
         UNCHANGED <<expected>>, Verdict
  PROVE  Fit(state)'
<1>1. /\ state' = StateAfterComplete /\ published' = published
      /\ VerdictTypes' /\ Judged' /\ phase' = "done"
  BY DEF VInv, Verdict
<1>2. Fit(state)
  BY DEF SInv, Seen
<1>3. /\ verifier' \in Verifiers
      /\ verifier'.comparisons = TotalLength(published)
      /\ verifier'.latched_fail = TRUE <=> verifier'.mismatches > 0
      /\ verifier'.latched_fail = TRUE <=> verifier'.first_mismatch # NoMismatch
      /\ verifier'.latched_fail # TRUE <=> Agrees(expected, published)
  BY <1>1 DEF VerdictTypes, Judged, Counted, Agrees
<1> DEFINE note == Place(verifier'.first_mismatch)
           status == IF verifier'.latched_fail THEN "FAIL" ELSE "PASS"
           flag == verifier'.latched_fail
           total == TotalLength(published)
<1>4. note \in Notes /\ (note = NoMismatch <=> verifier'.first_mismatch = NoMismatch)
  <2> DEFINE report == verifier'.first_mismatch
  <2>1. report \in Reports
    BY <1>3 DEF Verifiers
  <2> HIDE DEF report
  <2>2. CASE report = NoMismatch
    BY <2>2 DEF Place, Notes, report
  <2>3. CASE report \in UpdateMismatch
    <3>1. report # NoMismatch
      BY <2>3, VerifierAssumption
    <3>2. /\ "symbol" \in DOMAIN report
          /\ <<report.symbol, report.bbo_index>> \in Symbols \X Nat
      BY <2>3 DEF UpdateMismatch
    <3>3. Place(report) = <<report.symbol, report.bbo_index>>
      BY <3>1, <3>2, Zenon DEF Place
    <3> QED BY <3>1, <3>2, <3>3, AppAssumption DEF Notes, report
  <2>4. CASE report \in SummaryMismatch
    <3>1. report # NoMismatch
      BY <2>4, VerifierAssumption
    <3>2. "symbol" \notin DOMAIN report /\ report.reason \in SummaryReasons
      BY <2>4 DEF SummaryMismatch
    <3>3. Place(report) = <<report.reason>>
      BY <3>1, <3>2, Zenon DEF Place
    <3>4. <<report.reason>> \in {<<reason>> : reason \in SummaryReasons}
      BY <3>2
    <3> QED BY <3>1, <3>3, <3>4, AppAssumption DEF Notes, report
  <2> QED BY <2>1, <2>2, <2>3, <2>4 DEF Reports
<1>5. /\ status = "PASS" <=> flag # TRUE
      /\ status \in Statuses
  <2>1. flag <=> flag = TRUE
    BY <1>3, FlagOfVerifier
  <2> QED BY <2>1, Zenon DEF Statuses
<1>6. total \in Nat /\ flag \in Flags /\ verifier'.mismatches \in Nat
  BY <1>3 DEF Verifiers
<1>7. state' = [state EXCEPT !.status = status, !.bbo_updates = total,
                             !.comparisons = total, !.mismatches = verifier'.mismatches,
                             !.latched_fail = flag, !.first_mismatch = note]
  BY <1>1, <1>3 DEF StateAfterComplete
<1>8. state.run' = state.run
  BY <1>2, <1>7 DEF Fit, States
<1> HIDE DEF status, flag, total, note
<1>9. /\ state' \in States
      /\ state'.status = status /\ state'.comparisons = total /\ state'.bbo_updates = total
      /\ state'.mismatches = verifier'.mismatches
      /\ state'.first_mismatch = note
  BY <1>2, <1>4, <1>5, <1>6, <1>7 DEF Fit, States
<1>10. state'.latched_fail = flag
  BY <1>2, <1>7, Zenon DEF Fit, States
<1>11. ASSUME flag # TRUE
       PROVE  /\ state'.mismatches = 0
              /\ total = total_expected(expected')
              /\ state.run \in agreed'
  <2>1. Agrees(expected, published)
    BY <1>3, <1>11 DEF flag
  <2>2. ~(verifier'.mismatches > 0)
    BY <1>3, <1>11 DEF flag
  <2>3. verifier'.mismatches = 0
    BY <1>6, <2>2
  <2>4. Lengths(published) = Lengths(expected)
    BY <2>1 DEF Lengths, Agrees
  <2>5. agreed' = agreed \cup {state.run}
    BY <1>1, <2>1 DEF WorkerStep
  <2> QED BY <1>9, <2>3, <2>4, <2>5 DEF TotalLength, total_expected, total
<1>12. /\ verifier'.mismatches > 0 <=> note # NoMismatch
       /\ note # NoMismatch => flag = TRUE
  BY <1>3, <1>4, Zenon DEF flag
<1>13. state'.status = "RUNNING" => FALSE
  BY <1>9 DEF status
<1> QED BY <1>5, <1>8, <1>9, <1>10, <1>11, <1>12, <1>13, Zenon DEF Fit

LEMMA GivenUpFits ==
  ASSUME SInv, phase = "replay", GivenUp
  PROVE  Fit(state)'
<1>1. state' = [state EXCEPT !.status = "FAIL", !.latched_fail = TRUE]
  BY DEF GivenUp, StateAfterFail
<1>2. Fit(state)
  BY DEF SInv, Seen
<1>3. state' \in States
  BY <1>1, <1>2 DEF Fit, States, Statuses, Flags
<1>4. /\ state'.status = "FAIL" /\ state'.comparisons = state.comparisons
      /\ state'.bbo_updates = state.bbo_updates /\ state'.mismatches = state.mismatches
      /\ state'.first_mismatch = state.first_mismatch
  BY <1>1, <1>2 DEF Fit, States
<1>5. state'.latched_fail = TRUE
  BY <1>1, <1>2, Zenon DEF Fit, States
<1>6. state'.status # "PASS" /\ state'.status # "RUNNING"
  BY <1>4
<1> QED BY <1>2, <1>3, <1>4, <1>5, <1>6, Zenon DEF Fit

LEMMA ComparedFits ==
  ASSUME SInv, VInv, VInv', phase = "replay", UNCHANGED <<expected>>, Compared
  PROVE  Fit(state)' /\ Follow'
<1>1. /\ phase' = "replay" /\ state' = StateAfterBbo(bid_half.stock)
      /\ VerdictTypes /\ VerdictTypes' /\ Tracking /\ Tracking'
  BY DEF VInv, Compared
<1>2. Fit(state) /\ Follow
  BY DEF SInv, Seen
<1> DEFINE s == bid_half.stock
           place == <<s, verifier.observed_positions[s]>>
           flag == verifier'.latched_fail
           note == IF verifier'.latched_fail /\ state.first_mismatch = NoMismatch
                   THEN place ELSE state.first_mismatch
           count == state.bbo_updates + 1
<1>3. verifier' \in Verifiers /\ verifier'.comparisons = verifier.comparisons + 1
  <2>1. PICK actual : verifier' = Observe(verifier, expected, s, actual)
    BY DEF Compared
  <2>2. verifier \in Verifiers /\ s \in Symbols /\ IsSequence(expected[s])
    BY <1>1 DEF Compared, VerdictTypes
  <2>3. ObserveMoves(verifier, verifier', expected[s], s, actual)
    BY <2>1, <2>2, ObserveIsPositional
  <2> QED BY <2>3 DEF ObserveMoves
<1>4. /\ flag = TRUE <=> verifier'.mismatches > 0
      /\ verifier.latched_fail = TRUE <=> verifier.mismatches > 0
  BY <1>1 DEF Tracking, Counted
<1>5. place \in Symbols \X Nat
  BY <1>1 DEF Compared, VerdictTypes, Verifiers
<1>6. place # NoMismatch /\ place \in Notes
  BY <1>5, AppAssumption DEF Notes
<1>7. flag <=> flag = TRUE
  BY <1>3, FlagOfVerifier
<1>8. count = verifier'.comparisons /\ count \in Nat /\ verifier'.mismatches \in Nat /\ flag \in Flags
  BY <1>2, <1>3 DEF Fit, Follow, States, Verifiers
<1>9. /\ note \in Notes
      /\ flag = TRUE => note # NoMismatch
      /\ flag # TRUE => note = state.first_mismatch
  <2>1. state.first_mismatch \in Notes
    BY <1>2 DEF Fit, States
  <2> QED BY <2>1, <1>6, <1>7, Zenon
<1>10. state' = [state EXCEPT !.bbo_updates = count, !.comparisons = count,
                              !.mismatches = verifier'.mismatches, !.latched_fail = flag,
                              !.first_mismatch = note]
  BY <1>1, <1>2, <1>8 DEF StateAfterBbo, Fit, States
<1> HIDE DEF note, flag, count, place
<1>11. /\ state' \in States
       /\ state'.status = state.status /\ state'.comparisons = count
       /\ state'.bbo_updates = count /\ state'.mismatches = verifier'.mismatches
       /\ state'.first_mismatch = note
  BY <1>2, <1>8, <1>9, <1>10 DEF Fit, States
<1>12. state'.latched_fail = flag
  BY <1>2, <1>10, Zenon DEF Fit, States
<1>13. state.first_mismatch # NoMismatch => verifier'.mismatches > 0
  <2>1. state.first_mismatch # NoMismatch => verifier.mismatches > 0
    BY <1>2 DEF Fit, Follow
  <2>2. verifier'.mismatches >= verifier.mismatches /\ verifier.mismatches \in Nat
    <3>1. PICK actual : verifier' = Observe(verifier, expected, s, actual)
      BY DEF Compared
    <3>2. verifier \in Verifiers /\ s \in Symbols /\ IsSequence(expected[s])
      BY <1>1 DEF Compared, VerdictTypes
    <3>3. ObserveMoves(verifier, verifier', expected[s], s, actual)
      BY <3>1, <3>2, ObserveIsPositional
    <3>4. verifier.positions[s] \in Nat /\ verifier.mismatches \in Nat /\ Len(expected[s]) \in Nat
      BY <3>2, SequenceLength DEF Verifiers
    <3> QED BY <3>3, <3>4 DEF ObserveMoves, Skipped
  <2> QED BY <2>1, <2>2, <1>8
<1>14. verifier'.mismatches > 0 <=> note # NoMismatch
  BY <1>4, <1>9, <1>13, Zenon DEF flag
<1>15. note # NoMismatch => flag = TRUE
  BY <1>4, <1>14, Zenon DEF flag
<1>16. state'.status # "PASS"
  BY <1>2, <1>11 DEF Follow, Busy
<1>17. Fit(state)'
  BY <1>4, <1>11, <1>12, <1>14, <1>15, <1>16, Zenon DEF Fit, flag
<1>18. Follow'
  <2>1. state'.status \in Busy /\ state'.comparisons = verifier'.comparisons
    BY <1>2, <1>8, <1>11 DEF Follow
  <2> QED BY <1>11, <1>12, <2>1, Zenon DEF Follow, flag
<1> QED BY <1>17, <1>18

LEMMA UnnoticedFits ==
  ASSUME SInv, VInv, phase = "replay", UNCHANGED <<expected>>, Unnoticed
  PROVE  Fit(state)' /\ Follow'
<1>1. /\ phase' = "replay" /\ verifier' = verifier
      /\ state' = state \/ state' = [state EXCEPT !.status = "RUNNING"]
  BY DEF Unnoticed
<1>2. Fit(state) /\ Follow /\ Tracking
  BY DEF SInv, Seen, VInv
<1>3. state.status # "PASS"
  BY <1>2 DEF Follow, Busy
<1>4. /\ state' \in States /\ state'.status \in Busy
      /\ state'.comparisons = state.comparisons /\ state'.bbo_updates = state.bbo_updates
      /\ state'.mismatches = state.mismatches
      /\ state'.first_mismatch = state.first_mismatch
  BY <1>1, <1>2 DEF Fit, Follow, States, Statuses, Busy
<1>5. state'.latched_fail = state.latched_fail
  BY <1>1, <1>2, Zenon DEF Fit, States
<1>6. state'.status # "PASS"
  BY <1>4 DEF Busy
<1>7. state.latched_fail = TRUE => state.mismatches > 0
  BY <1>2, Zenon DEF Follow, Tracking, Counted
<1>8. Fit(state)'
  BY <1>2, <1>4, <1>5, <1>6, <1>7, Zenon DEF Fit
<1>9. Follow'
  BY <1>1, <1>2, <1>4, <1>5, Zenon DEF Follow
<1> QED BY <1>8, <1>9

LEMMA SInvWorker ==
  ASSUME AInv, SInv, MInv, VInv, VInv', WorkerStep
  PROVE  SInv'
<1>1. /\ phase = "replay" /\ UNCHANGED <<expected, workers, posts, starting, browser>>
      /\ Verdict \/ GivenUp \/ Compared \/ Unnoticed
  BY WorkerSteps
<1>2. phase' # "generate"
  BY <1>1 DEF Verdict, GivenUp, Compared, Unnoticed, Failures
<1>3. Fit(state)' /\ Follow'
  <2>1. CASE Verdict
    <3>1. phase' # "replay"
      BY <2>1 DEF Verdict
    <3> QED BY <1>1, <2>1, <3>1, VerdictFits DEF Follow
  <2>2. CASE GivenUp
    <3>1. phase' # "replay"
      BY <2>2 DEF GivenUp, Failures
    <3> QED BY <1>1, <2>2, <3>1, GivenUpFits DEF Follow
  <2>3. CASE Compared
    BY <1>1, <2>3, ComparedFits
  <2>4. CASE Unnoticed
    BY <1>1, <2>4, UnnoticedFits
  <2> QED BY <1>1, <2>1, <2>2, <2>3, <2>4
<1>4. agreed \subseteq agreed'
  BY DEF WorkerStep
<1>5. \A seen \in Seen' : Fit(seen)'
  <2>1. UNCHANGED <<page, answers>>
    BY <1>1 DEF browser
  <2>2. ASSUME NEW seen \in Seen PROVE Fit(seen)'
    <3>1. Fit(seen)
      BY DEF SInv
    <3> QED BY <1>1, <1>4, <3>1, FitStays
  <2>3. \A seen \in Seen' : seen \in Seen \/ seen = state'
    BY <2>1 DEF Seen
  <2> QED BY <1>3, <2>2, <2>3
<1>6. Fresh'
  <2>1. \A p \in DOMAIN posts : posts[p] # "starting"
    BY <1>1 DEF AInv, LockHeld
  <2> QED BY <1>1, <2>1 DEF Fresh
<1> QED BY <1>1, <1>2, <1>5, <1>6, <1>3 DEF SInv, Quiet, browser

(* Nothing new is seen.                                                    *)
LEMMA SInvServer ==
  ASSUME SInv, UNCHANGED <<phase, expected, verifier, state, agreed>>,
         DOMAIN page' = {"shown", "button"}, Seen' \subseteq Seen,
         DOMAIN posts' = DOMAIN posts \/ phase # "generate",
         \A p \in DOMAIN posts' : posts'[p] = "starting" =>
           p \in DOMAIN posts /\ posts[p] = "starting",
         phase = "generate" => posts' = posts
  PROVE  SInv'
<1>1. \A seen \in Seen' : Fit(seen)'
  <2>1. ASSUME NEW seen \in Seen' PROVE Fit(seen)'
    <3>1. Fit(seen)
      BY DEF SInv
    <3> QED BY <3>1, FitStays
  <2> QED BY <2>1
<1>2. Follow'
  BY DEF SInv, Follow
<1>3. Fresh'
  BY DEF SInv, Fresh, NewState
<1>4. Quiet'
  BY DEF SInv, Quiet
<1> QED BY <1>1, <1>2, <1>3, <1>4 DEF SInv

LEMMA SInvBeginRun ==
  ASSUME AInv, SInv, NEW p \in DOMAIN posts, BeginRun(p) PROVE SInv'
<1>1. /\ state' = NewState(runs + 1, "INITIALISING")
      /\ runs \in Nat /\ workers = {}
      /\ UNCHANGED <<phase, expected, verifier, agreed, page, answers>>
  BY DEF BeginRun, StateAfterBegin, AInv, ServerTypes, vars, generator, program
<1>2. phase # "replay" /\ phase # "generate"
  BY <1>1 DEF AInv, WorkersOfState, SInv, Quiet
<1>3. Fit(state)'
  <2>1. /\ state'.run = runs + 1 /\ state'.status = "INITIALISING"
        /\ state'.bbo_updates = 0 /\ state'.comparisons = 0 /\ state'.mismatches = 0
        /\ state'.first_mismatch = NoMismatch /\ state'.latched_fail = FALSE
        /\ state' \in States
    BY <1>1 DEF NewState, States, Statuses, Busy, Flags, Notes
  <2>2. state'.status # "PASS" /\ state'.status # "RUNNING" /\ ~(state'.mismatches > 0)
    BY <2>1
  <2> QED BY <2>1, <2>2, Zenon DEF Fit
<1>4. \A seen \in Seen' : Fit(seen)'
  <2>1. ASSUME NEW seen \in Seen PROVE Fit(seen)'
    <3>1. Fit(seen)
      BY DEF SInv
    <3> QED BY <1>1, <3>1, FitStays
  <2>2. \A seen \in Seen' : seen \in Seen \/ seen = state'
    BY <1>1 DEF Seen
  <2> QED BY <1>3, <2>1, <2>2
<1>5. Fresh'
  BY <1>1 DEF Fresh, NewState
<1> QED BY <1>1, <1>2, <1>4, <1>5 DEF SInv, Follow, Quiet

LEMMA SInvStartThread ==
  ASSUME AInv, SInv, NEW p \in DOMAIN posts, StartThread(p) PROVE SInv'
<1>1. /\ phase # "replay" /\ phase # "generate"
      /\ state = NewState(state.run, "INITIALISING")
      /\ \A q \in DOMAIN posts : posts[q] = "starting" => q = p
  BY DEF StartThread, AInv, LockHeld, SInv, Quiet, Fresh
<1>2. /\ phase' = "replay" /\ verifier' = NewVerifier
      /\ UNCHANGED <<expected, state, agreed, page, answers>>
      /\ posts' = [posts EXCEPT ![p] = "accepted"]
  BY <1>1 DEF StartThread, Begin, generator
<1>3. \A seen \in Seen' : Fit(seen)'
  <2>1. ASSUME NEW seen \in Seen PROVE Fit(seen)'
    <3>1. Fit(seen)
      BY DEF SInv
    <3> QED BY <1>2, <3>1, FitStays
  <2> QED BY <1>2, <2>1 DEF Seen
<1>4. Follow'
  <2>1. PICK run : state = NewState(run, "INITIALISING")
    BY <1>1
  <2>2. /\ state.status \in Busy /\ state.comparisons = 0 /\ state.mismatches = 0
        /\ state.latched_fail = FALSE
    BY <2>1 DEF NewState, Busy
  <2>3. /\ verifier'.comparisons = 0 /\ verifier'.mismatches = 0
        /\ verifier'.latched_fail = FALSE
    BY <1>2 DEF NewVerifier
  <2> QED BY <1>2, <2>2, <2>3, Zenon DEF Follow
<1>5. Fresh'
  BY <1>1, <1>2 DEF Fresh
<1> QED BY <1>2, <1>3, <1>4, <1>5 DEF SInv, Quiet

LEMMA SInvOffline ==
  ASSUME SInv, Offline PROVE SInv'
<1>1. UNCHANGED <<server, browser, verifier>>
  BY Zenon DEF Offline, Generate, WriteOracle, Board, FaultyBoard, program
<1>2. \/ phase = "generate" /\ phase' \in {"generate", "ready"}
      \/ UNCHANGED <<phase, expected>>
  BY Zenon DEF Offline, Generate, WriteOracle, Board, FaultyBoard, generator
<1>3. Seen' = Seen /\ UNCHANGED <<state, agreed, page, posts>>
  BY <1>1 DEF server, browser, Seen
<1>4. \A seen \in Seen' : Fit(seen)'
  <2>1. ASSUME NEW seen \in Seen PROVE Fit(seen)'
    <3>1. Fit(seen)
      BY DEF SInv
    <3>2. seen.status # "PASS" \/ expected' = expected
      BY <1>2 DEF SInv, Quiet
    <3> QED BY <1>3, <3>1, <3>2, FitStays
  <2> QED BY <1>3, <2>1
<1>5. Follow'
  BY <1>1, <1>2, <1>3 DEF SInv, Follow
<1>6. Fresh'
  BY <1>3 DEF SInv, Fresh, NewState
<1>7. Quiet'
  BY <1>2, <1>3 DEF SInv, Quiet
<1> QED BY <1>3, <1>4, <1>5, <1>6, <1>7 DEF SInv

LEMMA SInvStep ==
  AInv /\ SInv /\ MInv /\ VInv /\ VInv' /\ [AppNext]_appvars => SInv'
<1> SUFFICES ASSUME AInv, SInv, MInv, VInv, VInv', [AppNext]_appvars PROVE SInv'
  OBVIOUS
<1>0. DOMAIN page = {"shown", "button"}
  BY DEF SInv
<1>1. CASE Offline
  BY <1>1, SInvOffline
<1>2. CASE WorkerStep
  BY <1>2, SInvWorker
<1>3. ASSUME NEW p \in DOMAIN posts, BeginRun(p) PROVE SInv'
  BY <1>3, SInvBeginRun
<1>4. ASSUME NEW p \in DOMAIN posts, StartThread(p) PROVE SInv'
  BY <1>4, SInvStartThread
<1>5. CASE WorkerExits
  BY <1>0, <1>5, SInvServer DEF WorkerExits, vars, generator, program, browser, Seen
<1>6. CASE Click
  <2>1. /\ phase # "generate" /\ posts' = Append(posts, "sent")
        /\ page' = [page EXCEPT !.button = FALSE]
        /\ UNCHANGED <<phase, expected, verifier, state, agreed, answers>>
    BY <1>6 DEF Click, vars, generator, program
  <2>2. DOMAIN page' = DOMAIN page /\ page'.shown = page.shown
    BY <1>0, <2>1
  <2>3. \A p \in DOMAIN posts' : posts'[p] = "starting" => p \in DOMAIN posts /\ posts[p] = "starting"
    BY <2>1 DEF AInv, ServerTypes
  <2> QED BY <1>0, <2>1, <2>2, <2>3, SInvServer DEF Seen
<1>7. ASSUME NEW p \in DOMAIN posts, Refuse(p) \/ ClickAnswered(p) PROVE SInv'
  <2>1. /\ UNCHANGED <<phase, expected, verifier, state, agreed, answers>>
        /\ page' = page \/ page' = [page EXCEPT !.button = TRUE]
        /\ \E answer \in {"refused", "answered"} : posts' = [posts EXCEPT ![p] = answer]
    BY <1>7 DEF Refuse, ClickAnswered, vars, generator, program, server
  <2>2. DOMAIN page' = DOMAIN page /\ page'.shown = page.shown
    BY <1>0, <2>1
  <2>3. /\ DOMAIN posts' = DOMAIN posts
        /\ \A q \in DOMAIN posts' : posts'[q] = "starting" => posts[q] = "starting"
    BY <2>1
  <2>4. phase # "generate"
    BY DEF SInv, Quiet
  <2> QED BY <1>0, <2>1, <2>2, <2>3, <2>4, SInvServer DEF Seen
<1>8. CASE Poll \/ Answer \/ PollFails \/ Render
  <2>1. /\ UNCHANGED <<phase, expected, verifier, state, agreed, posts>>
        /\ DOMAIN page' = {"shown", "button"}
        /\ Seen' \subseteq Seen
    BY <1>0, <1>8 DEF Poll, Answer, PollFails, Render, vars, generator, program, server, Seen
  <2> QED BY <2>1, SInvServer
<1>9. CASE UNCHANGED appvars
  BY <1>0, <1>9, SInvServer DEF appvars, vars, server, browser, generator, program, Seen
<1> QED BY <1>1, <1>2, <1>3, <1>4, <1>5, <1>6, <1>7, <1>8, <1>9 DEF AppNext

LEMMA SInvImplies == SInv => PassIsEarned /\ SnapshotCoherent
<1> SUFFICES ASSUME SInv, NEW seen \in Seen
             PROVE  /\ seen.status = "PASS" => seen.run \in agreed
                    /\ seen.comparisons = seen.bbo_updates
                    /\ seen.status = "PASS" =>
                         /\ ~seen.latched_fail
                         /\ seen.mismatches = 0
                         /\ seen.comparisons = total_expected(expected)
                    /\ seen.first_mismatch # NoMismatch => seen.latched_fail
                    /\ seen.mismatches > 0 <=> seen.first_mismatch # NoMismatch
                    /\ seen.status = "RUNNING" /\ seen.latched_fail => seen.mismatches > 0
  BY DEF PassIsEarned, SnapshotCoherent
<1>1. Fit(seen)
  BY DEF SInv
<1>2. seen.latched_fail <=> seen.latched_fail = TRUE
  <2>1. seen.latched_fail \in BOOLEAN
    BY <1>1 DEF Fit, States, Flags
  <2> QED BY <2>1
<1> QED BY <1>1, <1>2, Zenon DEF Fit

LEMMA SInvHolds == AppSpec => []SInv
<1>1. AppSpec => []AInv
  BY AInvInit, AInvStep, PTL DEF AppSpec
<1>2. AInv /\ MInv /\ VInv /\ VInv' /\ SInv /\ [AppNext]_appvars => SInv'
  BY SInvStep
<1> QED BY <1>1, <1>2, ReplayInvariants, SInvInit, PTL DEF AppSpec

(* A PASS that anybody sees was earned: at the end of that very run the    *)
(* board had shown what the oracle says for every stock (app.py:150).      *)
THEOREM PassesAreEarned == AppSpec => []PassIsEarned
BY SInvHolds, SInvImplies, PTL

(* Every state that is seen is of one moment: its totals, its latch and    *)
(* its first mismatch belong together (app.py:101-191).                    *)
THEOREM SnapshotsAreCoherent == AppSpec => []SnapshotCoherent
BY SInvHolds, SInvImplies, PTL
=============================================================================
