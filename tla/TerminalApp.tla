----------------------------- MODULE TerminalApp -----------------------------
(***************************************************************************)
(* The terminal client (nod-tui): AppState and its modals (app.rs, app/,   *)
(* domain.rs, alerts.rs), the loop that drains runtime messages, then      *)
(* command results, then one key (main.rs), and the bridge that runs       *)
(* commands on the shared runtime (runtime_bridge/).                       *)
(*                                                                         *)
(* The runtime is what ClientSync models in detail.  Here it is the state  *)
(* it would emit (Snapshot), which sync changes at any moment and each     *)
(* command changes at one instant under the runtime's mutex; messages and  *)
(* results reach the loop over two queues.                                 *)
(*                                                                         *)
(* A key that moves a cursor inside a list or a form (Tab, arrows, text)   *)
(* is folded into the choice made by the key that follows it; focus,       *)
(* scrolling, wording and the status line are display.                     *)
(***************************************************************************)
EXTENDS Integers, Sequences, FiniteSets, FiniteSetsExt

CONSTANTS
    Servers, Channels, Requests,   \* a request is a number: later is larger
    HomeOf, ChannelOf,
    Enrolled,       \* servers with a profile at startup
    Arriving,       \* requests that do not exist yet at startup
    Choice,         \* requests with a choice answer field
    Text,           \* requests whose option requires text
    Matching,       \* requests the search text matches
    Values,         \* the choice values; one of them is the default
    DefaultValue,
    PageSize,       \* requests on a history page
    MaxKeys, MaxEvents,
    None

ASSUME TerminalAssumption ==
    /\ HomeOf \in [Channels -> Servers] /\ ChannelOf \in [Requests -> Channels]
    /\ Enrolled \subseteq Servers
    /\ Requests \subseteq Nat /\ IsFiniteSet(Requests) /\ None \notin Requests
    /\ Choice \subseteq Requests
    /\ DefaultValue \in Values /\ PageSize \in Nat \ {0}
    /\ {MaxKeys, MaxEvents} \subseteq Nat

VARIABLES
    world,      \* the servers' copy of each request: digest version and status
    rt,         \* the runtime: profiles, selection, sync task, snapshot loaded
    inbox,      \* NodClientMessages on their way to the loop
    commands,   \* command tasks that wait for the runtime's mutex
    results,    \* command results on their way to the loop
    inFlight,   \* in_flight_commands
    pc,         \* what the loop does next
    app,        \* AppState
    chosen,     \* the values the user has picked, each with the copy on screen
    keys, faults

runtimeVars == <<world, rt>>
vars == <<world, rt, inbox, commands, results, inFlight, pc, app, chosen, keys, faults>>

\* The maps of f and g, f's where they overlap, and one entry more or new.
Over(f, g) == [k \in DOMAIN f \cup DOMAIN g |-> IF k \in DOMAIN f THEN f[k] ELSE g[k]]
Put(map, key, value) == [k \in DOMAIN map \cup {key} |-> IF k = key THEN value ELSE map[k]]

HomeServer(r) == HomeOf[ChannelOf[r]]
InSelection(r, server, chan) ==
    HomeServer(r) = server /\ chan \in {None, ChannelOf[r]}

\* The ClientState the runtime emits.
Snapshot(runtime, requests) ==
    [server |-> runtime.server, chan |-> runtime.chan, sel |-> runtime.sel,
     servers |-> runtime.servers, registered |-> runtime.servers # {},
     reqs |-> [r \in {q \in Requests : /\ InSelection(q, runtime.server, runtime.chan)
                                       /\ runtime.loaded /\ requests[q].status # "absent"}
                    |-> requests[r]]]
----------------------------------------------------------------------------
(***************************************************************************)
(* AppState, as functions of the application's record.                     *)
(***************************************************************************)
NoModal == [kind |-> "none"]
EnrollmentForm == [kind |-> "enrollment"]
\* "of" is the selection the pages were asked for.
NoHistory == [reqs |-> [r \in {} |-> None], cursor |-> None, sel |-> None, loaded |-> FALSE,
              of |-> None]

NewApp(state) ==
    [state |-> state, modal |-> IF state.registered THEN NoModal ELSE EnrollmentForm,
     history |-> NoHistory, running |-> None, drafts |-> [k \in {} |-> None],
     filter |-> FALSE, alert |-> None, muted |-> FALSE, quit |-> FALSE]

\* What the list shows: live requests first of all, then the history's others.
Shown(a) == Over(a.state.reqs, a.history.reqs)

VisibleIds(a) == {r \in DOMAIN Shown(a) : a.filter => r \in Matching}

\* ordered_request_refs: pending first, then the newest.
First(ids, copies) ==
    LET pending == {r \in ids : copies[r].status = "pending"}
    IN  IF ids = {} THEN None ELSE Max(IF pending # {} THEN pending ELSE ids)

SelectedRequest(a) ==
    IF a.history.sel \in DOMAIN Shown(a) THEN a.history.sel
    ELSE IF a.state.sel \in DOMAIN a.state.reqs THEN a.state.sel
    ELSE First(DOMAIN a.state.reqs, a.state.reqs)

\* apply_state: a changed selection drops the history; an unregistered state
\* opens the enrollment form over any other modal.
ApplyState(a, state) ==
    LET moved == a.state.server # state.server \/ a.state.chan # state.chan
    IN  [a EXCEPT !.state = state,
                  !.history = IF moved THEN NoHistory ELSE @,
                  !.modal = IF state.registered THEN @ ELSE EnrollmentForm]

\* apply_request: replaced where it is known, inserted where it is not.
ApplyRequest(a, r, copy) ==
    [a EXCEPT !.state.reqs = Put(@, r, copy),
              !.history.reqs = IF r \in DOMAIN @ THEN [@ EXCEPT ![r] = copy] ELSE @]

\* set_error; also how AuthRevoked is shown.
SetError(a) == [a EXCEPT !.running = None]

CloseModal(a, kind) == IF a.modal.kind = kind THEN [a EXCEPT !.modal = NoModal] ELSE a

\* The copy of history_selected_id falls back to the first visible request.
EnsureHistorySelection(a) ==
    IF SelectedRequest(a) \in VisibleIds(a) THEN a
    ELSE [a EXCEPT !.history.sel = First(VisibleIds(a), Shown(a))]

\* Mutant: a page is shown whatever is selected by now.
ApplyHistoryAlways(a, query, page) ==
    EnsureHistorySelection(
        [a EXCEPT !.history.reqs = Over(page.reqs, IF query.before = None THEN NoHistory.reqs ELSE @),
                  !.history.cursor = page.next, !.history.loaded = TRUE,
                  !.history.of = <<query.server, query.chan>>])

\* A history page, taken if server and channel are still the selected ones.
ApplyHistory(a, query, page) ==
    IF query.server # a.state.server \/ query.chan # a.state.chan THEN a
    ELSE EnsureHistorySelection(
        [a EXCEPT !.history.reqs = Over(page.reqs, IF query.before = None THEN NoHistory.reqs ELSE @),
                  !.history.cursor = page.next, !.history.loaded = TRUE,
                  !.history.of = <<query.server, query.chan>>])

\* apply_runtime_outcome; "running" still tells which command this was.
ApplyOutcome(a, outcome) ==
    LET applied ==
            CASE outcome.kind = "state" ->
                    LET b == ApplyState(a, outcome.state)
                    IN  IF a.running = "enroll" /\ outcome.state.registered
                        THEN [b EXCEPT !.modal = NoModal] ELSE b
              [] outcome.kind = "request" ->
                    CloseModal(ApplyRequest(a, outcome.r, outcome.copy), "text")
              [] outcome.kind = "device" -> CloseModal(a, "rename")
              [] outcome.kind = "history" -> ApplyHistory(a, outcome.query, outcome.page)
              [] outcome.kind = "none" -> a
              [] outcome.kind = "error" -> a
        confirmed == applied.modal.kind = "confirm" /\ applied.modal.command.op = a.running
    IN  IF outcome.kind = "error" THEN SetError(a)
        ELSE [applied EXCEPT !.running = None, !.modal = IF confirmed THEN NoModal ELSE @]

\* apply_runtime_message and the alert marker.
ApplyMessage(a, message) ==
    CASE message.kind = "state" -> ApplyState(a, message.state)
      [] message.kind = "auth_revoked" -> SetError(a)
      [] message.kind = "candidate" -> [a EXCEPT !.alert = message.r]
      [] message.kind = "removed" -> [a EXCEPT !.alert = IF @ = message.r THEN None ELSE @]

HistoryQuery(a, before) ==
    [op |-> "history", server |-> a.state.server, chan |-> a.state.chan,
     search |-> a.filter, before |-> before]

\* Mutant: drafts are filed under the request alone.
ValueDraftKeyOfRequest(a, r, copy) == <<a.state.server, r>>

\* value_draft_key: the draft belongs to one content of one request.
ValueDraftKey(a, r, copy) == <<a.state.server, r, copy.ver>>

AnswerValue(a, r, copy) ==
    IF r \notin Choice THEN None
    ELSE IF ValueDraftKey(a, r, copy) \in DOMAIN a.drafts THEN a.drafts[ValueDraftKey(a, r, copy)]
    ELSE DefaultValue

\* The digest is the one of the copy on screen.
Submission(a, r, copy) ==
    [op |-> "submit", r |-> r, ver |-> copy.ver, value |-> AnswerValue(a, r, copy)]
----------------------------------------------------------------------------
(***************************************************************************)
(* The runtime: sync, and the execution of commands.                       *)
(***************************************************************************)
StateMessage == [kind |-> "state", state |-> Snapshot(rt', world')]

Fault == faults < MaxEvents /\ faults' = faults + 1

\* The messages that follow a change of a request on the selected server.
RequestMessages(r) ==
    IF HomeServer(r) # rt.server THEN <<>>
    ELSE Append(CASE world'[r].status = "done" -> <<[kind |-> "removed", r |-> r]>>
                  [] world'[r].status # "done" /\ world[r].status = "absent" -> <<[kind |-> "candidate", r |-> r]>>
                  [] OTHER -> <<>>, StateMessage)

\* A request arrives, is handled elsewhere, or changes its content.  Sync
\* follows the selected server once its snapshot is loaded.
SyncChangesRequest(r) ==
    /\ Fault
    /\ HomeServer(r) = rt.server /\ rt.loaded => rt.task
    /\ \/ world[r].status = "absent" /\ world' = [world EXCEPT ![r].status = "pending"]
       \/ world[r].status = "pending" /\ world' = [world EXCEPT ![r].status = "done"]
       \/ world[r] = [ver |-> 1, status |-> "pending"] /\ world' = [world EXCEPT ![r].ver = 2]
    /\ UNCHANGED rt
    /\ inbox' = IF rt.loaded THEN inbox \o RequestMessages(r) ELSE inbox
    /\ UNCHANGED <<commands, results, inFlight, pc, app, chosen, keys>>

\* A snapshot finds the selected channel gone or unsubscribed.
SyncDropsChannel ==
    /\ Fault
    /\ rt.task /\ rt.chan # None
    /\ rt' = [rt EXCEPT !.chan = None, !.loaded = TRUE]
    /\ UNCHANGED world
    /\ inbox' = Append(inbox, StateMessage)
    /\ UNCHANGED <<commands, results, inFlight, pc, app, chosen, keys>>

\* The server no longer accepts the device: the task ends.
SyncRevoked ==
    /\ Fault
    /\ rt.task /\ rt' = [rt EXCEPT !.task = FALSE]
    /\ inbox' = Append(inbox, [kind |-> "auth_revoked"])
    /\ UNCHANGED <<world, commands, results, inFlight, pc, app, chosen, keys>>

\* Mutant: only the first snapshot of a connection is announced.
SyncResyncsOnce ==
    /\ rt.task /\ inbox = <<>> /\ UNCHANGED world
    /\ ~rt.loaded /\ rt' = [rt EXCEPT !.loaded = TRUE]
    /\ inbox' = <<StateMessage>>
    /\ UNCHANGED <<commands, results, inFlight, pc, app, chosen, keys, faults>>

\* The first snapshot of a connection, and the periodic ones after it; one
\* that would show the terminal nothing new is left out.
SyncResyncs ==
    /\ rt.task /\ inbox = <<>> /\ UNCHANGED world
    /\ rt' = [rt EXCEPT !.loaded = TRUE]
    /\ ~rt.loaded \/ app.state # Snapshot(rt', world)
    /\ inbox' = <<StateMessage>>
    /\ UNCHANGED <<commands, results, inFlight, pc, app, chosen, keys, faults>>

\* set_selected_server and connect_sync.
Select(server) == [rt EXCEPT !.server = server, !.chan = None, !.sel = None,
                             !.loaded = FALSE, !.task = server # None]

Forget(server) ==
    LET left == rt.servers \ {server}
    IN  IF rt.server # server THEN [rt EXCEPT !.servers = left]
        ELSE [Select(IF left = {} THEN None ELSE CHOOSE s \in left : TRUE) EXCEPT !.servers = left]

\* The state a command leaves the runtime in.
Selects(command) ==
    CASE command.op = "enroll" ->
            [Select(command.server) EXCEPT !.servers = @ \cup {command.server}, !.loaded = TRUE]
      [] command.op \in {"refresh", "clear", "subscription"} -> [rt EXCEPT !.loaded = TRUE]
      [] command.op = "select_server" -> Select(command.server)
      [] command.op \in {"forget", "revoke"} /\ command.server # None -> Forget(command.server)
      [] command.op = "select_channel" -> [rt EXCEPT !.chan = command.chan]
      [] command.op = "select_request" -> [rt EXCEPT !.sel = command.r]
      [] OTHER -> rt

\* query_history reads the server the query names.
HistoryPage(query) ==
    LET older == {r \in Requests :
                    /\ InSelection(r, query.server, query.chan) /\ world[r].status # "absent"
                    /\ query.search => r \in Matching
                    /\ query.before # None => r < query.before}
        page == {r \in older : Cardinality({q \in older : q > r}) < PageSize}
    IN  [reqs |-> [r \in page |-> world[r]], next |-> IF page = older THEN None ELSE Min(page)]

\* execute_runtime_command: the state commands.
ExecutesState(command) ==
    /\ command.op \in {"enroll", "refresh", "select_server", "forget", "revoke",
                       "select_channel", "select_request", "clear", "subscription", "sound"}
    /\ rt' = Selects(command) /\ UNCHANGED world
    /\ inbox' = Append(inbox, StateMessage)
    /\ results' = Append(results, StateMessage)

\* submit_option signs only the copy the terminal rendered, on the selected
\* server.
SubmitAccepted(command) ==
    /\ HomeServer(command.r) = rt.server
    /\ world[command.r] = [ver |-> command.ver, status |-> "pending"]

ExecutesSubmit(command) ==
    /\ command.op = "submit" /\ SubmitAccepted(command)
    /\ world' = [world EXCEPT ![command.r].status = "done"] /\ UNCHANGED rt
    /\ inbox' = inbox \o RequestMessages(command.r)
    /\ results' = Append(results, [kind |-> "request", r |-> command.r,
                                   copy |-> world'[command.r]])

ExecutesQuietly(command) ==
    /\ command.op \in {"connect", "devices", "rename", "history"}
    /\ results' = Append(results,
            CASE command.op = "history" ->
                    [kind |-> "history", query |-> command, page |-> HistoryPage(command)]
              [] command.op = "rename" -> [kind |-> "device"]
              [] OTHER -> [kind |-> "none"])
    /\ rt' = IF command.op = "connect" THEN [rt EXCEPT !.task = TRUE] ELSE rt
    /\ UNCHANGED <<world, inbox>>

\* A refused submission, or any command whose call fails.
ExecutesWithError(command) ==
    /\ IF command.op = "submit" /\ ~SubmitAccepted(command) THEN UNCHANGED faults ELSE Fault
    /\ results' = Append(results, [kind |-> "error"])
    /\ UNCHANGED <<runtimeVars, inbox>>

Execute(command) ==
    /\ command \in commands /\ commands' = commands \ {command}
    /\ \/ (ExecutesState(command) \/ ExecutesSubmit(command) \/ ExecutesQuietly(command))
          /\ UNCHANGED faults
       \/ ExecutesWithError(command)
    /\ UNCHANGED <<inFlight, pc, app, chosen, keys>>
----------------------------------------------------------------------------
(***************************************************************************)
(* The loop.                                                               *)
(***************************************************************************)
\* try_recv until the queue is empty: what arrives meanwhile is drained too.
DrainMessages ==
    /\ pc = "messages"
    /\ IF inbox = <<>> THEN pc' = "results" /\ UNCHANGED <<inbox, app>>
       ELSE app' = ApplyMessage(app, Head(inbox)) /\ inbox' = Tail(inbox) /\ UNCHANGED pc
    /\ UNCHANGED <<runtimeVars, commands, results, inFlight, chosen, keys, faults>>

DrainResults ==
    /\ pc = "results"
    /\ IF results = <<>> THEN pc' = "key" /\ UNCHANGED <<results, inFlight, app>>
       ELSE /\ app' = ApplyOutcome(app, Head(results)) /\ results' = Tail(results)
            /\ inFlight' = inFlight - 1 /\ UNCHANGED pc
    /\ UNCHANGED <<runtimeVars, inbox, commands, chosen, keys, faults>>

\* No key within the poll interval: the loop starts over.
PollTimesOut ==
    /\ pc = "key" /\ ~app.quit
    /\ inbox # <<>> \/ results # <<>>
    /\ pc' = "messages"
    /\ UNCHANGED <<runtimeVars, inbox, commands, results, inFlight, app, chosen, keys, faults>>

\* One runtime command at a time: a command is dropped while one is in flight.
Dispatch(a, command) ==
    IF inFlight > 0 THEN app' = a /\ UNCHANGED <<commands, inFlight>>
    ELSE /\ app' = [a EXCEPT !.running = command.op]
         /\ commands' = commands \cup {command}
         /\ inFlight' = inFlight + 1

\* A key is pressed; what it does to the record a, and the command it asks
\* for, if any.
Key ==
    /\ pc = "key" /\ ~app.quit /\ keys < MaxKeys
    /\ keys' = keys + 1 /\ pc' = "messages"
    /\ UNCHANGED <<runtimeVars, inbox, results, faults>>

Plain(a) == Key /\ app' = a /\ UNCHANGED <<commands, inFlight, chosen>>
Asks(a, command) == Key /\ Dispatch(a, command) /\ UNCHANGED chosen

MainKey == app.modal = NoModal
EnterAccepted == app.running = None

MainOpensModal ==
    /\ MainKey
    /\ \/ Plain([app EXCEPT !.modal = EnrollmentForm])
       \/ Plain([app EXCEPT !.modal = [kind |-> "filter"]])
       \/ Plain([app EXCEPT !.muted = ~@])
       \/ Asks([app EXCEPT !.modal = [kind |-> "settings"]], [op |-> "devices"])
       \/ /\ SelectedRequest(app) # None
          /\ LET r == SelectedRequest(app)
             IN  Plain([app EXCEPT !.modal = [kind |-> "actions", r |-> r, copy |-> Shown(app)[r]]])
       \/ /\ app.state.chan # None
          /\ Plain([app EXCEPT !.modal = [kind |-> "confirm",
                        command |-> [op |-> "clear", chan |-> app.state.chan]]])

MainCommands ==
    /\ MainKey
    /\ \/ Asks(app, [op |-> "refresh"])
       \/ Asks(app, HistoryQuery(app, None))
       \/ app.history.cursor # None /\ Asks(app, HistoryQuery(app, app.history.cursor))
       \/ \E s \in app.state.servers : Asks(app, [op |-> "select_server", server |-> s])
       \/ \E ch \in {x \in Channels : HomeOf[x] = app.state.server} \cup {None} :
                Asks(app, [op |-> "select_channel", chan |-> ch])

\* move_request: with a history the selection is the terminal's own.
MoveRequest ==
    /\ MainKey
    /\ \E r \in VisibleIds(app) :
            IF app.history.loaded THEN Plain([app EXCEPT !.history.sel = r])
            ELSE Asks(app, [op |-> "select_request", r |-> r])

\* cycle_answer on the copy on screen.
CycleAnswer ==
    /\ MainKey /\ SelectedRequest(app) \in Choice
    /\ LET r == SelectedRequest(app)
       IN  /\ Shown(app)[r].status = "pending"
           /\ \E v \in Values \ {AnswerValue(app, r, Shown(app)[r])} :
                /\ Key
                /\ app' = [app EXCEPT !.drafts = Put(@, ValueDraftKey(app, r, Shown(app)[r]), v)]
                /\ chosen' = chosen \cup {<<app.state.server, r, Shown(app)[r].ver, v>>}
    /\ UNCHANGED <<commands, inFlight>>

\* An option whose text is required or asked for opens the form first.
AsksForText(r, notes) == r \in Text \/ notes

\* command_for_choice: a handled copy is refused.
Chooses(r, copy, notes) ==
    LET submission == Submission(app, r, copy)
        closed == [app EXCEPT !.modal = NoModal]
    IN  CASE copy.status # "pending" -> Plain(SetError(closed))
          [] copy.status = "pending" /\ AsksForText(r, notes) ->
                Plain([app EXCEPT !.modal = [kind |-> "text", submission |-> submission]])
          [] OTHER -> Asks(closed, submission)

MainDecides ==
    /\ MainKey
    /\ LET r == SelectedRequest(app)
       IN  IF r = None THEN Plain(SetError(app))
           ELSE \E notes \in BOOLEAN : (notes => r \in Choice) /\ Chooses(r, Shown(app)[r], notes)

\* The actions menu answers for the copy it was opened with.
ActionsDecide ==
    /\ app.modal.kind = "actions"
    /\ \/ EnterAccepted /\ Chooses(app.modal.r, app.modal.copy, FALSE)
       \/ /\ app.modal.r \in Choice /\ app.modal.copy.status = "pending"
          /\ Chooses(app.modal.r, app.modal.copy, TRUE)

TextFormSubmits ==
    /\ app.modal.kind = "text" /\ EnterAccepted
    /\ Asks(app, app.modal.submission)

EnrollmentSubmits ==
    /\ app.modal = EnrollmentForm /\ EnterAccepted
    /\ \E s \in Servers : Asks(app, [op |-> "enroll", server |-> s])

ConfirmSubmits ==
    /\ app.modal.kind = "confirm" /\ EnterAccepted
    /\ Asks(app, app.modal.command)

RenameSubmits ==
    /\ app.modal.kind = "rename" /\ EnterAccepted
    /\ Asks(app, [op |-> "rename"])

\* Enter in the filter stores the search text and asks for its history.
FilterSubmits ==
    /\ app.modal.kind = "filter" /\ EnterAccepted
    /\ \E search \in BOOLEAN :
            LET filtered == [app EXCEPT !.filter = search, !.modal = NoModal]
            IN  Asks(filtered, HistoryQuery(filtered, None))

\* Enter on a channel or on a sound.
SettingsCommands ==
    /\ app.modal.kind = "settings"
    /\ \E op \in {"subscription", "sound"} : Asks(app, [op |-> op])

SettingsKey ==
    /\ app.modal.kind = "settings"
    /\ \/ Plain([app EXCEPT !.modal = [kind |-> "rename"]])
       \/ \E command \in {[op |-> "forget", server |-> app.state.server],
                          [op |-> "revoke", server |-> app.state.server],
                          [op |-> "revoke", server |-> None]} :
                Plain([app EXCEPT !.modal = [kind |-> "confirm", command |-> command]])

\* Esc: every modal but the enrollment form.
Escape ==
    /\ app.modal.kind \notin {"none", "enrollment"}
    /\ Plain([app EXCEPT !.modal = NoModal])

Quits == Plain([app EXCEPT !.quit = TRUE, !.modal = NoModal])
----------------------------------------------------------------------------
\* A registered session starts with a refresh and sync, both in flight.
StartupCommands(a) ==
    IF a.state.registered THEN {[op |-> "refresh"], [op |-> "connect"]} ELSE {}

Init ==
    /\ world = [r \in Requests |->
                    [ver |-> 1, status |-> IF r \in Arriving THEN "absent" ELSE "pending"]]
    /\ rt = [servers |-> Enrolled, chan |-> None, sel |-> None, task |-> FALSE, loaded |-> FALSE,
             server |-> IF Enrolled = {} THEN None ELSE CHOOSE s \in Enrolled : TRUE]
    /\ app = [NewApp(Snapshot(rt, world)) EXCEPT
                !.running = IF Enrolled = {} THEN None ELSE "connect"]
    /\ commands = StartupCommands(app) /\ inFlight = Cardinality(commands)
    /\ inbox = <<>> /\ results = <<>> /\ pc = "messages"
    /\ chosen = {} /\ keys = 0 /\ faults = 0

Loop == DrainMessages \/ DrainResults \/ PollTimesOut

Keypress ==
    \/ MainOpensModal \/ MainCommands \/ MoveRequest \/ CycleAnswer \/ MainDecides
    \/ ActionsDecide \/ TextFormSubmits \/ EnrollmentSubmits \/ ConfirmSubmits
    \/ RenameSubmits \/ FilterSubmits \/ SettingsCommands \/ SettingsKey \/ Escape \/ Quits

Next ==
    \/ \E r \in Requests : SyncChangesRequest(r)
    \/ SyncDropsChannel \/ SyncRevoked \/ SyncResyncs
    \/ \E command \in commands : Execute(command)
    \/ Loop \/ Keypress

\* The loop polls, tasks run and the periodic resync keeps coming; nobody has
\* to press a key.
Fairness ==
    /\ WF_vars(Loop) /\ WF_vars(SyncResyncs)
    /\ WF_vars(\E command \in commands : Execute(command))

Spec == Init /\ [][Next]_vars /\ Fairness
----------------------------------------------------------------------------
(***************************************************************************)
(* Properties.                                                             *)
(***************************************************************************)
\* The answer in a submission, in flight or in an open form, was picked by the
\* user on the very content whose digest goes with it, or is its default.
AnswersFitTheirContent ==
    \A s \in {q \in commands : q.op = "submit"}
             \cup (IF app.modal.kind = "text" THEN {app.modal.submission} ELSE {}) :
        s.value \in {None, DefaultValue}
            \/ <<HomeServer(s.r), s.r, s.ver, s.value>> \in chosen

\* History on screen was asked for the server and channel on screen, so that
\* "end of history" is said of what the user looks at, whatever was selected
\* while its query was running.
HistoryFitsSelection ==
    app.history.loaded => app.history.of = <<app.state.server, app.state.chan>>

\* Once the servers are quiet the terminal shows the runtime's state, even
\* when an outcome overtaken by newer messages was applied last.
TerminalConverges ==
    <>[](app.quit \/ ~rt.task \/ app.state = Snapshot(rt, world))
==============================================================================
