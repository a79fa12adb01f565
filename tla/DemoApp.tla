------------------------------- MODULE DemoApp -------------------------------
(***************************************************************************)
(* demo/app.py and demo/static/app.js around a DemoReplay: the HTTP server *)
(* with its worker thread and the state both share, and the page that asks *)
(* for that state every half second and has a button to start a replay.    *)
(*                                                                         *)
(* The callbacks of a replay change the state in the step in which the     *)
(* replay makes them.  A poll and a click are requests that take time: the *)
(* answers of two polls may overtake each other, and the button may be     *)
(* enabled by an answer older than the click.                              *)
(***************************************************************************)
EXTENDS DemoReplay

(* None is neither a place nor a reason.                                   *)
ASSUME AppAssumption ==
  NoMismatch \notin (Symbols \X Nat) \cup {<<reason>> : reason \in SummaryReasons}

VARIABLES
  (* the server *)
  state,    \* DemoState._state, with the number of the run it is about
  workers,  \* runs whose worker thread is alive
  starting, \* the runs their requests are starting, under _worker_lock
  runs,     \* runs begun so far
  agreed,   \* history: runs at whose end the board had shown the oracle's BBOs
  (* the page *)
  page,     \* the state rendered last, and whether the button is enabled
  asked,    \* polls the server has not answered yet
  answers,  \* the different answers on their way back
  posts     \* per click: "sent", "starting", the answer, or "answered"

server  == <<state, workers, starting, runs, agreed>>
browser == <<page, asked, answers, posts>>
appvars == <<vars, server, browser>>

Busy == {"INITIALISING", "RUNNING"}

NewState(run, status) ==
  [run |-> run, status |-> status, bbo_updates |-> 0, comparisons |-> 0, mismatches |-> 0,
   latched_fail |-> FALSE, first_mismatch |-> NoMismatch]

(* Where the first mismatch was: app.py keeps its own note of it until     *)
(* complete() replaces that by the verifier's.                             *)
Place(mismatch) ==
  CASE mismatch = NoMismatch -> NoMismatch
    [] mismatch # NoMismatch /\ "symbol" \in DOMAIN mismatch ->
         <<mismatch.symbol, mismatch.bbo_index>>
    [] OTHER -> <<mismatch.reason>>

-----------------------------------------------------------------------------
(* DemoState: what the callbacks of a replay do to it.                     *)

StateAfterBbo(symbol) ==
  [state EXCEPT !.bbo_updates = @ + 1,
                !.comparisons = verifier'.comparisons,
                !.mismatches = verifier'.mismatches,
                !.latched_fail = verifier'.latched_fail,
                !.first_mismatch =
                  IF verifier'.latched_fail /\ @ = NoMismatch
                  THEN <<symbol, verifier.observed_positions[symbol]>> ELSE @]

(* Mutant: the verdict is what the comparisons said so far.                *)
StateAfterComplete_Early ==
  [state EXCEPT !.status = IF verifier.latched_fail THEN "FAIL" ELSE "PASS",
                !.bbo_updates = TotalLength(published),
                !.comparisons = verifier'.comparisons,
                !.mismatches = verifier'.mismatches,
                !.latched_fail = verifier'.latched_fail,
                !.first_mismatch = Place(verifier'.first_mismatch)]

StateAfterComplete ==
  [state EXCEPT !.status = IF verifier'.latched_fail THEN "FAIL" ELSE "PASS",
                !.bbo_updates = TotalLength(published),
                !.comparisons = verifier'.comparisons,
                !.mismatches = verifier'.mismatches,
                !.latched_fail = verifier'.latched_fail,
                !.first_mismatch = Place(verifier'.first_mismatch)]

StateAfterFail == [state EXCEPT !.status = "FAIL", !.latched_fail = TRUE]

Callback ==
  state' = CASE phase' = "done" -> StateAfterComplete
             [] phase' \in Failures -> StateAfterFail
             [] phase' = "replay" /\ pc = "setup" -> [state EXCEPT !.status = "RUNNING"]
             [] phase' = "replay" /\ pc = "ask" /\ published' # published ->
                  StateAfterBbo(bid_half.stock)
             [] OTHER -> state

(* _run_worker, up to the verdict.                                         *)
WorkerStep ==
  /\ Replay \/ SetupFails \/ Timeout
  /\ Callback
  /\ agreed' = IF phase' = "done" /\ Agrees(expected, published)
               THEN agreed \cup {state.run} ELSE agreed
  /\ UNCHANGED <<workers, starting, runs, browser>>

(* loop.close(): until then the verdict is out but the thread is alive.    *)
WorkerExits ==
  /\ phase \in Ended
  /\ state.run \in workers
  /\ workers' = workers \ {state.run}
  /\ UNCHANGED <<vars, state, starting, runs, agreed, browser>>

-----------------------------------------------------------------------------
(* DemoApplication.start_run, under _worker_lock.                          *)

(* Mutant: the lock is not held between the check and the start.           *)
LockFree_Always == TRUE

LockFree == \A p \in DOMAIN posts : posts[p] # "starting"

(* A worker is alive, or the oracle cannot be loaded: 409 or 400.          *)
Refuse(p) ==
  /\ posts[p] = "sent"
  /\ LockFree
  /\ posts' = [posts EXCEPT ![p] = "refused"]
  /\ UNCHANGED <<vars, server, page, asked, answers>>

(* Mutant: begin() only sets the status.                                   *)
StateAfterBegin_Kept == [state EXCEPT !.run = runs + 1, !.status = "INITIALISING"]

(* DemoState.begin                                                         *)
StateAfterBegin == NewState(runs + 1, "INITIALISING")

(* No worker is alive: state.begin() for a new run.                        *)
BeginRun(p) ==
  /\ posts[p] = "sent"
  /\ LockFree
  /\ workers = {}
  /\ runs' = runs + 1
  /\ starting' = [starting EXCEPT ![p] = runs']
  /\ state' = StateAfterBegin
  /\ posts' = [posts EXCEPT ![p] = "starting"]
  /\ UNCHANGED <<vars, workers, agreed, page, asked, answers>>

(* Thread.start(); a second replay besides one that is going on, were one  *)
(* ever started, is counted but not followed.                              *)
StartThread(p) ==
  /\ posts[p] = "starting"
  /\ workers' = workers \cup {starting[p]}
  /\ posts' = [posts EXCEPT ![p] = "accepted"]
  /\ IF phase = "replay" THEN UNCHANGED vars ELSE Begin
  /\ UNCHANGED <<state, starting, runs, agreed, page, asked, answers>>

-----------------------------------------------------------------------------
(* The page.                                                               *)

(* The button's listener: disable it, post the request.                    *)
Click ==
  /\ phase # "generate"
  /\ Len(posts) < Scenarios[scenario].clicks
  /\ page.button
  /\ posts' = Append(posts, "sent")
  /\ starting' = Append(starting, 0)
  /\ page' = [page EXCEPT !.button = FALSE]
  /\ UNCHANGED <<vars, state, workers, runs, agreed, asked, answers>>

(* An answer that is not ok enables the button again; an ok one is         *)
(* followed by a poll, like those of the timer.                            *)
ClickAnswered(p) ==
  /\ posts[p] \in {"accepted", "refused"}
  /\ posts' = [posts EXCEPT ![p] = "answered"]
  /\ page' = IF posts[p] = "refused" THEN [page EXCEPT !.button = TRUE] ELSE page
  /\ UNCHANGED <<vars, server, asked, answers>>

CanAsk ==
  /\ phase # "generate"
  /\ asked + Cardinality(answers) < Scenarios[scenario].polls

(* Mutant: once a verdict is shown the page stops asking.                  *)
Poll_UntilVerdict ==
  /\ CanAsk
  /\ page.shown.status \notin {"PASS", "FAIL"}
  /\ asked' = asked + 1
  /\ UNCHANGED <<vars, server, page, answers, posts>>

(* setInterval(pollState, 500), whether or not earlier polls are answered. *)
Poll ==
  /\ CanAsk
  /\ asked' = asked + 1
  /\ UNCHANGED <<vars, server, page, answers, posts>>

(* GET /api/state: a copy of the state, taken under its lock.              *)
Answer ==
  /\ asked > 0
  /\ asked' = asked - 1
  /\ answers' = answers \cup {state}
  /\ UNCHANGED <<vars, server, page, posts>>

(* The request fails; the page shows that it is offline.                   *)
PollFails ==
  /\ asked > 0
  /\ asked' = asked - 1
  /\ UNCHANGED <<vars, server, page, answers, posts>>

(* render(): the button follows the status.                                *)
Render ==
  \E answer \in answers :
    /\ answers' = answers \ {answer}
    /\ page' = [shown |-> answer, button |-> answer.status \notin Busy]
    /\ UNCHANGED <<vars, server, asked, posts>>

-----------------------------------------------------------------------------
AppInit ==
  /\ Init
  /\ state = NewState(0, "IDLE")
  /\ workers = {}
  /\ starting = <<>>
  /\ runs = 0
  /\ agreed = {}
  /\ page = [shown |-> NewState(0, "IDLE"), button |-> TRUE]
  /\ asked = 0
  /\ answers = {}
  /\ posts = <<>>

(* The oracle is written before the server is started; the board runs on   *)
(* its own clock.                                                          *)
Offline ==
  /\ (\E m \in Messages : Generate(m)) \/ WriteOracle \/ Board \/ FaultyBoard
  /\ UNCHANGED <<server, browser>>

AppNext ==
  \/ Offline
  \/ WorkerStep
  \/ WorkerExits
  \/ Click
  \/ \E p \in DOMAIN posts : Refuse(p) \/ BeginRun(p) \/ StartThread(p) \/ ClickAnswered(p)
  \/ Poll \/ Answer \/ PollFails \/ Render

AppSpec == AppInit /\ [][AppNext]_appvars

(* The worker, the handler threads, the page's timer and its listeners run *)
(* when they can; some polls get through.                                  *)
ServerFairness ==
  /\ WF_workers(WorkerExits)
  /\ WF_posts(\E p \in DOMAIN posts : Refuse(p) \/ BeginRun(p) \/ StartThread(p))
PageFairness ==
  /\ WF_posts(\E p \in DOMAIN posts : ClickAnswered(p))
  /\ WF_asked(Poll)
  /\ SF_answers(Answer)
  /\ WF_answers(Render)
FairAppSpec == AppSpec /\ Fairness /\ ServerFairness /\ PageFairness

-----------------------------------------------------------------------------
(* However many requests arrive, and although the button is enabled again  *)
(* while the last worker still closes its loop, at most one worker has the *)
(* board, and it works for the run the state is about (app.py:214).        *)
OneReplay ==
  /\ Cardinality(workers) <= 1
  /\ workers \subseteq {state.run}
  /\ phase = "replay" => workers = {state.run}

(* Every state anybody can see: the server's, those on their way, the page's. *)
Seen == {state, page.shown} \cup answers

(* A PASS that is shown was earned: at the end of that very run the board  *)
(* had shown what the oracle says for every stock.                         *)
PassIsEarned == \A seen \in Seen : seen.status = "PASS" => seen.run \in agreed

(* The fields of a state belong together, in whatever moment it was copied *)
(* (app.py:101-191): the totals, the latch and the first mismatch.         *)
SnapshotCoherent ==
  \A seen \in Seen :
    /\ seen.comparisons = seen.bbo_updates
    /\ seen.status = "PASS" =>
         /\ ~seen.latched_fail
         /\ seen.mismatches = 0
         /\ seen.comparisons = total_expected(expected)
    /\ seen.first_mismatch # NoMismatch => seen.latched_fail
    /\ seen.mismatches > 0 <=> seen.first_mismatch # NoMismatch
    /\ seen.status = "RUNNING" /\ seen.latched_fail => seen.mismatches > 0

(* However polls overtake each other or fail, the page ends up with the    *)
(* last state and its button enabled.                                      *)
PageCatchesUp ==
  Scenarios[scenario].polls > 0 => <>[](page.shown = state /\ page.button)

(* A run that was begun ends with a verdict and its thread goes.           *)
RunEnds == (state.status \in Busy) ~> (state.status \in {"PASS", "FAIL"} /\ workers = {})
=============================================================================
