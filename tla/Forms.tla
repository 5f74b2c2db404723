---------------------------------- MODULE Forms ----------------------------------
(***************************************************************************)
(* The processing form of an attempt (queue/schema.go, attempt.go,         *)
(* events.go, hook.go): a flow of the workflow service asks the agent      *)
(* questions page by page.  The form is started by a goroutine when the    *)
(* agent answers or is bridged, the agent's desktop acts on it and saves   *)
(* drafts of it through concurrent gRPC requests, the call may be handed   *)
(* to another agent, and the attempt leaves the queue at any time, after   *)
(* which the scheduler moves its row to the history.                       *)
(*                                                                         *)
(* Each request gives one field, under a name of its own.  A nil pointer   *)
(* that is used ends the process (crashed): the server recovers no panic.  *)
(***************************************************************************)
EXTENDS Naturals, FiniteSets

CONSTANTS
    Requests,     \* ProcessingFormAction and ProcessingFormSave calls
    NoRequest,
    SystemNamed,  \* the requests whose field has the name of a variable of the attempt's own
    LastPage      \* bound on the pages of a form

ASSUME FormsAssumption == SystemNamed \subseteq Requests /\ NoRequest \notin Requests
                          /\ LastPage \in Nat \ {0}

Starters == {"answered", "bridged"}   \* the calls of BaseQueue.StartProcessingForm
Takers   == {1, 2}                    \* the agent that answered, the one it transfers to

VARIABLES
    stage,      \* where the queue's loop is with the attempt
    taker,      \* Attempt.agent; an agent that talks is replaced, never taken away
    byTransfer, \* Attempt.processTransfer: the call came by a transfer still under way
    begun,      \* Attempt.processingFormStarted
    overlap,    \* bound: the first starter may mark after the second one's check
    starter,    \* the StartProcessingForm goroutine of each caller
    held,       \* Attempt.processingForm: the starter that made it, or "nil"
    flow,       \* the workflow service's forms: their page and their fields
    fields,     \* Attempt.processingFields: the requests whose field is in
    formRow,    \* the attempt's row: table, form_view, form_fields
    autosave,   \* queue.ProcessingAutosave()
    req,        \* the requests: place, and the view read for StoreForm
    flight,     \* the leader of the single flight "form-<attempt>"
    shown,      \* the agents that were sent a form
    early,      \* requests whose field was in before the attempt began to leave
    hookSees,   \* the variables the leaving hook's flow was started with
    lost,       \* a statement of the store failed
    crashed

formVars == <<stage, taker, byTransfer, begun, overlap, starter, held, flow, fields, formRow, autosave,
              req, flight, shown, early, hookSees, lost, crashed>>

fixed     == <<overlap, autosave>>
loopVars  == <<stage, taker, byTransfer>>
startVars == <<begun, starter>>
flowVars  == <<held, flow>>
fieldVars == <<fields, early>>
storeVars == <<formRow, lost>>
reqVars   == <<req, flight>>
seenVars  == <<shown, hookSees>>

NoView == <<"nil", 0>>
Views  == (Starters \X (1 .. LastPage)) \cup {NoView}
NotSent   == [view |-> NoView, pc |-> "idle"]
Done   == [view |-> NoView, pc |-> "done"]
Values == {"none", "member", "agent", "system"}

FormsTypeOK ==
    /\ stage \in {"offered", "answered", "bridged", "handing", "over", "flushed",
                  "hooked", "gone"}
    /\ taker \in Takers /\ byTransfer \in BOOLEAN
    /\ {begun, overlap, autosave, lost, crashed} \subseteq BOOLEAN
    /\ starter \in [Starters -> {"none", "spawned", "creating", "telling", "done"}]
    /\ held \in Starters \cup {"nil"}
    /\ flow \in [Starters -> [st : {"none", "open", "closed"}, page : 0 .. LastPage,
                              fields : SUBSET Requests]]
    /\ {fields, early} \subseteq SUBSET Requests
    /\ formRow \in [table : {"attempt", "history"}, view : Views, fields : SUBSET Requests]
    /\ req \in [Requests -> [view : Views, pc : {"idle", "given", "joined", "acting", "failed",
                                                  "reading", "storing", "telling", "done"}]]
    /\ flight \in Requests \cup {NoRequest}
    /\ shown \subseteq Takers
    /\ hookSees \in [Requests -> Values]

\* A run whose starters overlap has one request, so that it stays small.
FormsInit ==
    /\ stage = "offered" /\ taker = 1 /\ byTransfer \in BOOLEAN
    /\ begun = FALSE /\ held = "nil" /\ lost = FALSE /\ crashed = FALSE
    /\ autosave \in BOOLEAN
    /\ starter = [s \in Starters |-> "none"]
    /\ flow = [s \in Starters |-> [st |-> "none", page |-> 0, fields |-> {}]]
    /\ fields = {} /\ early = {} /\ shown = {}
    /\ formRow = [table |-> "attempt", view |-> NoView, fields |-> {}]
    /\ overlap \in BOOLEAN /\ ~(overlap /\ byTransfer)
    /\ IF overlap THEN \E r \in Requests \ SystemNamed : req = [[q \in Requests |-> Done] EXCEPT ![r] = NotSent]
       ELSE req = [r \in Requests |-> NotSent]
    /\ flight = NoRequest
    /\ hookSees = [r \in Requests |-> "none"]

-----------------------------------------------------------------------------
\* Statements of the store; a row that has moved is no longer found by its id.

\* A statement fails, at most one in a run, and none in one whose starters overlap.
FailsOnce == ~lost /\ ~overlap /\ lost' = TRUE

StoreForm(view, fs) ==
    formRow' = IF formRow.table = "attempt"
             THEN [formRow EXCEPT !.view = view, !.fields = @ \cup fs] ELSE formRow

\* Mutant: the history is not tried.
MutStoreFormFields(fs) ==
    formRow' = IF formRow.table = "attempt" THEN [formRow EXCEPT !.fields = @ \cup fs] ELSE formRow

\* The attempt's table first, the history when no row was changed.
StoreFormFields(fs) == formRow' = [formRow EXCEPT !.fields = @ \cup fs]

\* Mutant: only the attempt's table.
MutUpdateProcessingForm(fs) ==
    formRow' = IF formRow.table = "attempt" THEN [formRow EXCEPT !.fields = @ \cup fs] ELSE formRow

\* The same choice of table within one statement.
UpdateProcessingFormAtHistory(fs) == formRow' = [formRow EXCEPT !.fields = @ \cup fs]

-----------------------------------------------------------------------------
\* The attempt in memory.

MarkProcessingFormStarted == begun' = TRUE
ProcessingFormStarted     == begun

UpdateProcessingFields(r) ==
    /\ fields' = fields \cup {r}
    /\ early' = IF stage \in {"over", "flushed", "hooked", "gone"} THEN early
                ELSE early \cup {r}

ProcessingFields == IF begun THEN fields ELSE {}

\* Manager.GetAttempt: the attempt is in the cache.
AttemptCached == stage # "gone"

Layer(keys, v)  == [k \in Requests |-> IF k \in keys THEN v ELSE "none"]
Overlay(f, g)   == [k \in Requests |-> IF g[k] # "none" THEN g[k] ELSE f[k]]

\* Mutant: the agent's fields are copied last.
MutExportSchemaVariables ==
    Overlay(Overlay(Layer(Requests, "member"), Layer(SystemNamed, "system")),
            Layer(ProcessingFields, "agent"))

\* The member's variables, over them the agent's fields, over both the
\* variables of the attempt itself (attempt_id, agent_id, cc_result, ...).  The
\* member is one that has variables of all these names.
ExportSchemaVariables ==
    Overlay(Overlay(Layer(Requests, "member"), Layer(ProcessingFields, "agent")),
            Layer(SystemNamed, "system"))

\* BaseQueue.Hook, for a queue with a hook on this state.
Hook == hookSees' = ExportSchemaVariables

-----------------------------------------------------------------------------
\* Events to the desktop: what is kept of an event is the form it carries.

NewBridgedEventEvent(form) == form # "nil"

\* Mutant: the next agent's event has no form.
MutTransferEvent(form) == FALSE

NewTransferEvent(form) == form # "nil"
NewNextFormEvent(form) == form # "nil"

AgentChannelEvent(hasForm, a) == shown' = IF hasForm THEN shown \cup {a} ELSE shown

-----------------------------------------------------------------------------
\* The goroutine that starts the form.

\* BaseQueue.StartProcessingForm: the check is here, the mark in the goroutine.
StartProcessingForm(s) ==
    starter' = IF ProcessingFormStarted THEN starter ELSE [starter EXCEPT ![s] = "spawned"]

Mark(s) ==
    /\ starter[s] = "spawned"
    /\ MarkProcessingFormStarted
    /\ starter' = [starter EXCEPT ![s] = "creating"]
    /\ UNCHANGED <<fixed, loopVars, flowVars, fieldVars, storeVars, reqVars, seenVars, crashed>>

\* NewProcessing with ExportSchemaVariables, StoreForm, and the pointer: nobody
\* else knows the form before the last of them.  Errors are logged; the flow of
\* a form that could not be stored is left open.
NewForm(s) ==
    /\ starter[s] = "creating"
    /\ \/ /\ flow' = [flow EXCEPT ![s].st = "open", ![s].page = 1]
          /\ \/ /\ StoreForm(<<s, 1>>, flow[s].fields)
                /\ held' = s
                /\ starter' = [starter EXCEPT ![s] = "telling"]
                /\ UNCHANGED lost
             \/ /\ FailsOnce
                /\ starter' = [starter EXCEPT ![s] = "done"]
                /\ UNCHANGED <<held, formRow>>
       \/ /\ starter' = [starter EXCEPT ![s] = "done"]
          /\ UNCHANGED <<flowVars, storeVars>>
    /\ UNCHANGED <<fixed, loopVars, fieldVars, reqVars, seenVars, begun, crashed>>

TellForm(s) ==
    /\ starter[s] = "telling"
    /\ AgentChannelEvent(NewNextFormEvent(held), taker)
    /\ starter' = [starter EXCEPT ![s] = "done"]
    /\ UNCHANGED <<fixed, loopVars, flowVars, fieldVars, storeVars, reqVars, begun, hookSees, crashed>>

-----------------------------------------------------------------------------
\* The queue's loop.

\* agentTeam.Answered (preview and offline queues, whose calls do not come by a transfer).
AgentAnswers ==
    /\ stage = "offered" /\ ~byTransfer
    /\ StartProcessingForm("answered")
    /\ stage' = "answered"
    /\ UNCHANGED <<fixed, flowVars, fieldVars, storeVars, reqVars, seenVars, taker, byTransfer, begun, crashed>>

\* agentTeam.Bridged: the form, SetAttemptBridged, the event.
AgentBridges ==
    /\ stage \in {"offered", "answered"}
    /\ overlap \/ starter["answered"] # "spawned"
    /\ IF byTransfer THEN UNCHANGED starter ELSE StartProcessingForm("bridged")
    /\ stage' = "bridged"
    /\ \/ AgentChannelEvent(NewBridgedEventEvent(held), taker) /\ UNCHANGED lost
       \/ FailsOnce /\ UNCHANGED shown
    /\ UNCHANGED <<fixed, flowVars, fieldVars, reqVars, taker, byTransfer, begun, formRow, hookSees, crashed>>

\* transferResult: the transfer the call came by is through.
ProcessTransfer ==
    /\ stage = "bridged" /\ byTransfer
    /\ byTransfer' = FALSE
    /\ StartProcessingForm("bridged")
    /\ UNCHANGED <<fixed, flowVars, fieldVars, storeVars, reqVars, seenVars, stage, taker, begun, crashed>>

\* Manager.TransferFrom: the other agent is set, then told.
HandOver ==
    /\ stage = "bridged" /\ taker = 1
    /\ taker' = 2
    /\ stage' = "handing"
    /\ UNCHANGED <<fixed, startVars, flowVars, fieldVars, storeVars, reqVars, seenVars, byTransfer, crashed>>

TellTransfer ==
    /\ stage = "handing"
    /\ AgentChannelEvent(NewTransferEvent(held), taker)
    /\ stage' = "bridged"
    /\ UNCHANGED <<fixed, startVars, flowVars, fieldVars, storeVars, reqVars, taker, byTransfer, hookSees, crashed>>

\* A statement ends the row; from here on the scheduler may move it.
EndRow ==
    /\ stage \in {"answered", "bridged"}
    /\ stage' = "over"
    /\ UNCHANGED <<fixed, startVars, flowVars, fieldVars, storeVars, reqVars, seenVars, taker, byTransfer, crashed>>

MoveRow ==
    /\ stage \in {"over", "flushed", "hooked", "gone"} /\ formRow.table = "attempt"
    /\ formRow' = [formRow EXCEPT !.table = "history"]
    /\ UNCHANGED <<fixed, loopVars, startVars, flowVars, fieldVars, reqVars, seenVars, lost, crashed>>

\* Manager.LeavingMember: FlushAttemptFields, the leaving hook, Close, out of the cache.
FlushAttemptFields ==
    /\ stage = "over"
    /\ stage' = "flushed"
    /\ IF ~autosave \/ ProcessingFields = {} THEN UNCHANGED <<formRow, lost>>
       ELSE \/ UpdateProcessingFormAtHistory(ProcessingFields) /\ UNCHANGED lost
            \/ FailsOnce /\ UNCHANGED formRow
    /\ UNCHANGED <<fixed, startVars, flowVars, fieldVars, reqVars, seenVars, taker, byTransfer, crashed>>

LeavingHook ==
    /\ stage = "flushed"
    /\ Hook
    /\ stage' = "hooked"
    /\ UNCHANGED <<fixed, startVars, flowVars, fieldVars, storeVars, reqVars, taker, byTransfer, shown, crashed>>

CloseForm ==
    /\ stage = "hooked"
    /\ flow' = IF held = "nil" THEN flow ELSE [flow EXCEPT ![held].st = "closed"]
    /\ stage' = "gone"
    /\ UNCHANGED <<fixed, startVars, fieldVars, storeVars, reqVars, seenVars, taker, byTransfer, held, crashed>>

-----------------------------------------------------------------------------
\* Requests of the desktop.

On(r, pc)  == req[r].pc = pc
To(r, pc)  == req' = [req EXCEPT ![r].pc = pc, ![r].view = NoView]

\* SaveFormFields: the attempt is looked up, and nothing is kept before the start.
SaveBegins(r) ==
    /\ On(r, "idle")
    /\ IF AttemptCached /\ ProcessingFormStarted
       THEN UpdateProcessingFields(r) /\ To(r, "given")
       ELSE req' = [req EXCEPT ![r] = Done] /\ UNCHANGED <<fields, early>>
    /\ UNCHANGED <<fixed, loopVars, startVars, flowVars, storeVars, seenVars, flight, crashed>>

\* processingForm.Update, of a form that is perhaps not there yet or no longer.
SaveUpdates(r) ==
    /\ On(r, "given")
    /\ IF held = "nil" THEN crashed' = TRUE /\ UNCHANGED flow
       ELSE flow' = [flow EXCEPT ![held].fields = @ \cup {r}] /\ UNCHANGED crashed
    /\ req' = [req EXCEPT ![r] = Done]
    /\ UNCHANGED <<fixed, loopVars, startVars, fieldVars, storeVars, seenVars, held, flight>>

\* The leader answers: so do those who joined it.
Answers(r) ==
    /\ req' = [q \in Requests |-> IF q = r \/ On(q, "joined") THEN Done ELSE req[q]]
    /\ flight' = NoRequest

\* attemptProcessingActionForm up to the flow; without a form an action is
\* answered as if it had been done.
Acts(r) ==
    IF AttemptCached /\ held # "nil"
    THEN UpdateProcessingFields(r) /\ To(r, "acting") /\ flight' = r
    ELSE req' = [req EXCEPT ![r] = Done] /\ UNCHANGED <<fields, early, flight>>

\* Mutant: requests are not collapsed.
MutActionBegins(r) ==
    /\ On(r, "idle")
    /\ Acts(r)
    /\ UNCHANGED <<fixed, loopVars, startVars, flowVars, storeVars, seenVars, crashed>>

\* AttemptProcessingActionForm: while an action of the attempt runs, another one
\* waits for its answer and takes it as its own.
ActionBegins(r) ==
    /\ On(r, "idle")
    /\ IF flight # NoRequest THEN To(r, "joined") /\ UNCHANGED <<fields, early, flight>>
       ELSE Acts(r)
    /\ UNCHANGED <<fixed, loopVars, startVars, flowVars, storeVars, seenVars, crashed>>

\* ActionForm: the flow takes the field and turns the page, or fails (always
\* once it is closed) and is given up.
ActionForm(r) ==
    /\ On(r, "acting")
    /\ \/ /\ held # "nil" /\ flow[held].st = "open" /\ flow[held].page < LastPage
          /\ flow' = [flow EXCEPT ![held].page = @ + 1, ![held].fields = @ \cup {r}]
          /\ To(r, "reading")
          /\ UNCHANGED held
       \/ /\ held' = "nil"
          /\ To(r, "failed")
          /\ UNCHANGED flow
    /\ UNCHANGED <<fixed, loopVars, startVars, fieldVars, storeVars, seenVars, flight, crashed>>

ActionFailed(r) ==
    /\ On(r, "failed")
    /\ \/ StoreFormFields({r}) /\ UNCHANGED lost
       \/ FailsOnce /\ UNCHANGED formRow
    /\ To(r, "telling")
    /\ UNCHANGED <<fixed, loopVars, startVars, flowVars, fieldVars, seenVars, flight, crashed>>

\* The form is read before the statement runs.
ReadForm(r) ==
    /\ On(r, "reading")
    /\ IF held = "nil" THEN Answers(r)
       ELSE /\ req' = [req EXCEPT ![r].pc = "storing", ![r].view = <<held, flow[held].page>>]
            /\ UNCHANGED flight
    /\ UNCHANGED <<fixed, loopVars, startVars, flowVars, fieldVars, storeVars, seenVars, crashed>>

StoreNextForm(r) ==
    /\ On(r, "storing")
    /\ \/ /\ StoreForm(req[r].view, flow[req[r].view[1]].fields)
          /\ req' = [req EXCEPT ![r].pc = "telling"]
          /\ UNCHANGED <<flight, lost>>
       \/ FailsOnce /\ Answers(r) /\ UNCHANGED formRow
    /\ UNCHANGED <<fixed, loopVars, startVars, flowVars, fieldVars, seenVars, crashed>>

TellNextForm(r) ==
    /\ On(r, "telling")
    /\ AgentChannelEvent(NewNextFormEvent(held), taker)
    /\ Answers(r)
    /\ UNCHANGED <<fixed, loopVars, startVars, flowVars, fieldVars, storeVars, hookSees, crashed>>

-----------------------------------------------------------------------------
FormsNext ==
    /\ ~crashed
    /\ \/ \E s \in Starters : Mark(s) \/ NewForm(s) \/ TellForm(s)
       \/ AgentAnswers \/ AgentBridges \/ ProcessTransfer \/ HandOver \/ TellTransfer
       \/ EndRow \/ MoveRow \/ FlushAttemptFields \/ LeavingHook \/ CloseForm
       \/ \E r \in Requests :
            \/ SaveBegins(r) \/ SaveUpdates(r)
            \/ ActionBegins(r) \/ ActionForm(r) \/ ActionFailed(r)
            \/ ReadForm(r) \/ StoreNextForm(r) \/ TellNextForm(r)

-----------------------------------------------------------------------------
\* Properties.

Starting == \E s \in Starters : starter[s] \in {"spawned", "creating", "telling"}
Made     == {s \in Starters : flow[s].st # "none"}

\* What an agent gave before the attempt began to leave (UpdateProcessingFields)
\* is in form_fields once a queue with autosave has let the attempt go, whether
\* the row was moved to the history before the flush or after it.
FieldsSurvive == stage = "gone" /\ autosave /\ ~lost => early \subseteq formRow.fields

\* The field of an action the flow failed is in form_fields when the answer is
\* given, also if the row went to the history while the flow worked.
FailedActionKept ==
    \A r \in Requests : On(r, "telling") /\ req[r].view = NoView /\ ~lost
        => r \in formRow.fields

\* With nothing under way the stored form_view, from which a desktop that
\* reconnects draws the form, is the page the flow is on.
ViewIsLatest ==
    \A s \in Starters :
        held = s /\ Made = {s} /\ ~Starting /\ ~lost /\ formRow.table = "attempt"
            /\ (\A r \in Requests : req[r].pc \in {"idle", "given", "joined", "done"})
            => formRow.view = <<s, flow[s].page>>

\* An agent who has the call has been sent the form the attempt holds, whichever
\* of the start of the form, the bridge and a handover comes first.
FormIsShown ==
    stage = "bridged" /\ held # "nil" /\ ~Starting /\ ~lost => taker \in shown

\* The leaving hook gets what the agent gave before, but no field of an agent
\* replaces a variable of the attempt's own.
HookSeesFields ==
    stage \in {"hooked", "gone"} =>
        \A r \in Requests : hookSees[r] = IF r \in SystemNamed THEN "system"
                                          ELSE IF r \in early THEN "agent" ELSE hookSees[r]
=============================================================================
