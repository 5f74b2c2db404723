-------------------------- MODULE AgentStatusProofs --------------------------
(***************************************************************************)
(* AgentStatus, proved for any agents of a team, any calls of the desktops *)
(* at once, any limit of missed offers, with and without lost messages:    *)
(* what the distribution reads of an agent is true while it uses it, and   *)
(* every copy of the status ends up right.                                 *)
(***************************************************************************)
EXTENDS AgentStatus, TLAPS

(* The rows of the agents. *)

\* The types of the rows.
RowType   == [state : RowStates, direct : BOOLEAN, cut : BOOLEAN]
RowsTyped == agent \in [Agents -> AgentRow] /\ chan \in [Agents -> AgentChannel] /\ row \in [Agents -> RowType]

\* What RowsInv says of one agent.
Fits(g) ==
    /\ row[g].state = "none" => ~row[g].direct
    /\ chan[g].state = "waiting" => ~chan[g].timeout
    /\ row[g].state = "wait_agent" => ~row[g].direct /\ agent[g].status = "online" /\ agent[g].online
    /\ row[g].state \in {"wait_agent", "active", "offering", "bridged"} /\ ~row[g].direct
           => ~chan[g].timeout
    /\ agent[g].online <=> agent[g].status = "online"
    /\ row[g].state \in {"offering", "bridged"} /\ ~row[g].direct => chan[g].state = row[g].state

\* The inductive invariant behind BookedIsOnline, ChannelsFollowStatus and BusyIsNotFree.
RowsInv == RowsTyped /\ \A g \in Agents : Fits(g)

\* Nothing of it is touched.
LEMMA RowsSame ==
    ASSUME RowsInv, UNCHANGED <<agent, chan, row>> PROVE RowsInv'
  BY Zenon DEF RowsInv, RowsTyped, Fits

\* A step that touches one agent.
LEMMA RowsOne ==
    ASSUME RowsInv, NEW g \in Agents, RowsTyped', Fits(g)',
           \A x \in Agents \ {g} : agent'[x] = agent[x] /\ chan'[x] = chan[x] /\ row'[x] = row[x]
    PROVE  RowsInv'
  BY DEF RowsInv, Fits

\* The steps of the distribution and of the attempts, and the desktop's release.
LEMMA RowsDistribution ==
    ASSUME RowsInv, NEW g \in Agents, Distribution(g) PROVE RowsInv'
  <1>0. /\ agent \in [Agents -> AgentRow] /\ chan \in [Agents -> AgentChannel] /\ row \in [Agents -> RowType]
        /\ MaxNoAnswer \in Nat \ {0} /\ Fits(g)
    BY Zenon, NumbersAssumption DEF RowsInv, RowsTyped
  <1>1. CASE Book(g)
    <2>1. RowsTyped' /\ Fits(g)'
      BY Zenon, <1>0, <1>1 DEF Book, SetRow, RowsTyped, Fits, RowType, RowStates
    <2> QED BY Zenon, <1>0, <1>1, <2>1, RowsOne DEF Book, SetRow
  <1>2. CASE Handoff(g)
    <2>1. RowsTyped' /\ Fits(g)'
      BY Zenon, <1>0, <1>2 DEF Handoff, SetRow, RowsTyped, Fits, RowType, RowStates
    <2> QED BY Zenon, <1>0, <1>2, <2>1, RowsOne DEF Handoff, SetRow
  <1>3. CASE DirectTask(g)
    <2>1. RowsTyped' /\ Fits(g)'
      BY Zenon, <1>0, <1>3 DEF DirectTask, RowsTyped, Fits, RowType, RowStates
    <2> QED BY Zenon, <1>0, <1>3, <2>1, RowsOne DEF DirectTask
  <1>4. CASE Offering(g)
    <2>1. RowsTyped' /\ Fits(g)'
      BY <1>0, <1>4 DEF Offering, SetRow, RowsTyped, Fits, RowType, RowStates, AgentChannel, ChanStates
    <2> QED BY Zenon, <1>0, <1>4, <2>1, RowsOne DEF Offering, SetRow
  <1>5. CASE Bridged(g)
    <2>1. /\ row' = [row EXCEPT ![g] = [@ EXCEPT !.state = "bridged"]] /\ UNCHANGED agent
          /\ chan' = [chan EXCEPT ![g] = [@ EXCEPT !.state = "bridged", !.missed = 0]]
          /\ row[g].state = "offering"
      BY Zenon, <1>5 DEF Bridged, SetRow
    <2>2. [chan[g] EXCEPT !.state = "bridged", !.missed = 0] \in AgentChannel
      <3>1. chan[g] \in AgentChannel /\ 0 \in 0..MaxNoAnswer /\ "bridged" \in ChanStates
        BY <1>0 DEF ChanStates
      <3> QED BY Zenon, <3>1 DEF AgentChannel
    <2>3. RowsTyped' /\ Fits(g)'
      BY <1>0, <2>1, <2>2 DEF RowsTyped, Fits, RowType, RowStates, AgentChannel
    <2> QED BY Zenon, <1>0, <2>1, <2>3, RowsOne
  <1>6. CASE Missed(g)
    <2> DEFINE n == IF chan[g].missed < MaxNoAnswer THEN chan[g].missed + 1 ELSE MaxNoAnswer
    <2>1. n \in 0..MaxNoAnswer
      BY <1>0 DEF AgentChannel
    <2> HIDE DEF n
    <2>2. /\ chan' = [chan EXCEPT ![g] = [state |-> "missed", timeout |-> TRUE, missed |-> n]]
          /\ row' = [row EXCEPT ![g] = NoRow] /\ UNCHANGED agent
      BY Zenon, <1>6 DEF Missed, Free, n
    <2>3. RowsTyped' /\ Fits(g)'
      BY Zenon, <1>0, <2>1, <2>2 DEF NoRow, RowsTyped, Fits, RowType, RowStates, AgentChannel, ChanStates
    <2> QED BY Zenon, <1>0, <2>2, <2>3, RowsOne
  <1>7. CASE NotNeeded(g)
    <2>1. RowsTyped' /\ Fits(g)'
      BY <1>0, <1>7 DEF NotNeeded, Free, NoRow, RowsTyped, Fits, RowType, RowStates, AgentChannel, ChanStates
    <2> QED BY Zenon, <1>0, <1>7, <2>1, RowsOne DEF NotNeeded, Free
  <1>8. CASE Ended(g)
    <2>1. PICK wrap \in BOOLEAN :
              chan' = [chan EXCEPT ![g] = [state |-> IF wrap THEN "wrap_time" ELSE "waiting",
                                           timeout |-> wrap, missed |-> 0]]
      BY Zenon, <1>8 DEF Ended
    <2>2. row[g].state = "bridged" /\ row' = [row EXCEPT ![g].state = "leaving"] /\ UNCHANGED agent
      BY Zenon, <1>8 DEF Ended, SetRow
    <2>3. RowsTyped' /\ Fits(g)'
      BY <1>0, <2>1, <2>2 DEF RowsTyped, Fits, RowType, RowStates, AgentChannel, ChanStates
    <2> QED BY Zenon, <1>0, <2>1, <2>2, <2>3, RowsOne
  <1>9. CASE SaveToHistory(g)
    <2>1. RowsTyped' /\ Fits(g)'
      BY Zenon, <1>0, <1>9 DEF SaveToHistory, Free, NoRow, RowsTyped, Fits, RowType, RowStates
    <2> QED BY Zenon, <1>0, <1>9, <2>1, RowsOne DEF SaveToHistory, Free
  <1>10. CASE WaitingChannel(g) \/ ChannelTimeout(g)
    <2>1. /\ chan' = [chan EXCEPT ![g] = [@ EXCEPT !.state = "waiting", !.timeout = FALSE]]
          /\ UNCHANGED <<agent, row>>
          /\ row[g].state \in {"none", "leaving"} \/ chan[g].timeout
      BY Zenon, <1>10 DEF WaitingChannel, ChannelTimeout
    <2>2. [chan[g] EXCEPT !.state = "waiting", !.timeout = FALSE] \in AgentChannel
      <3>1. chan[g] \in AgentChannel /\ "waiting" \in ChanStates
        BY Zenon, <1>0 DEF ChanStates
      <3> QED BY Zenon, <3>1 DEF AgentChannel
    <2>3. RowsTyped' /\ Fits(g)'
      BY Zenon, <1>0, <2>1, <2>2 DEF RowsTyped, Fits, RowType, RowStates, AgentChannel
    <2> QED BY Zenon, <1>0, <2>1, <2>3, RowsOne
  <1> QED BY Zenon, <1>1, <1>2, <1>3, <1>4, <1>5, <1>6, <1>7, <1>8, <1>9, <1>10 DEF Distribution

\* A login: the channel of an agent without attempt becomes free.
LEMMA RowsOnline ==
    ASSUME RowsInv, NEW g \in Agents, SetOnlineAtomic(g), UNCHANGED row PROVE RowsInv'
  <1>0. /\ agent \in [Agents -> AgentRow] /\ chan \in [Agents -> AgentChannel] /\ row \in [Agents -> RowType]
        /\ MaxNoAnswer \in Nat \ {0} /\ Fits(g)
    BY Zenon, NumbersAssumption DEF RowsInv, RowsTyped
  <1> DEFINE c == [state |-> IF row[g].state = "none" THEN "waiting" ELSE chan[g].state,
                   timeout |-> IF row[g].state = "none" THEN FALSE ELSE chan[g].timeout,
                   missed |-> 0]
  <1>1. c \in AgentChannel
    <2>1. chan[g] \in AgentChannel /\ 0 \in 0..MaxNoAnswer /\ "waiting" \in ChanStates
      BY <1>0 DEF ChanStates
    <2> QED BY Zenon, <2>1 DEF AgentChannel
  <1>2. /\ agent' = [agent EXCEPT ![g] = [@ EXCEPT !.status = "online", !.online = TRUE]]
        /\ chan' = [chan EXCEPT ![g] = c]
    BY Zenon DEF SetOnlineAtomic
  <1>3. [agent[g] EXCEPT !.status = "online", !.online = TRUE] \in AgentRow
    BY Zenon, <1>0 DEF AgentRow, Statuses
  <1>4. RowsTyped' /\ Fits(g)'
    BY Zenon, <1>0, <1>1, <1>2, <1>3 DEF RowsTyped, Fits, AgentRow
  <1> QED BY Zenon, <1>0, <1>2, <1>4, RowsOne

\* Another status: not while the agent is booked.
LEMMA RowsStatus ==
    ASSUME RowsInv, NEW g \in Agents, NEW s \in Statuses \ {"online"}, SetStatus(g, s), UNCHANGED <<row, chan>>
    PROVE  RowsInv'
  <1>0. /\ agent \in [Agents -> AgentRow] /\ chan \in [Agents -> AgentChannel] /\ row \in [Agents -> RowType]
        /\ Fits(g)
    BY Zenon DEF RowsInv, RowsTyped
  <1>1. CASE row[g].state = "wait_agent"
    BY Zenon, <1>1, RowsSame DEF SetStatus
  <1>2. CASE row[g].state # "wait_agent"
    <2>1. agent' = [agent EXCEPT ![g] = [@ EXCEPT !.status = s, !.online = FALSE]]
      BY Zenon, <1>2 DEF SetStatus
    <2>2. [agent[g] EXCEPT !.status = s, !.online = FALSE] \in AgentRow
      BY Zenon, <1>0 DEF AgentRow
    <2>3. RowsTyped' /\ Fits(g)'
      BY Zenon, <1>0, <1>2, <2>1, <2>2 DEF RowsTyped, Fits, AgentRow
    <2> QED BY Zenon, <1>0, <2>1, <2>3, RowsOne
  <1> QED BY Zenon, <1>1, <1>2

\* The hang up of the offers that ring.
LEMMA RowsHangup ==
    ASSUME RowsInv, NEW g \in Agents, HangupNoAnswer(g), UNCHANGED <<agent, chan>> PROVE RowsInv'
  <1>0. /\ agent \in [Agents -> AgentRow] /\ chan \in [Agents -> AgentChannel] /\ row \in [Agents -> RowType]
        /\ Fits(g)
    BY Zenon DEF RowsInv, RowsTyped
  <1>1. RowsTyped' /\ Fits(g)'
    BY Zenon, <1>0 DEF HangupNoAnswer, RowsTyped, Fits, RowType
  <1> QED BY Zenon, <1>0, <1>1, RowsOne DEF HangupNoAnswer

------------------------------------------------------------------------------
(* The calls and the views of the status. *)

\* The types of the calls and of what they tell.
CallsTyped ==
    /\ call \in [Procs -> Begun \cup {NoCall}] /\ known \in [Agents -> SUBSET Views]
    /\ gone \subseteq Agents /\ apart \in [Agents -> BOOLEAN]

\* Call p is about agent g.
About(p, g) == call[p] # NoCall /\ call[p].agent = g

\* After the statement of the call.
Telling(p, g) == About(p, g) /\ call[p].pc \in {"store", "publish"}

\* While the changes of an agent's status do not overlap, at most one call is
\* about the agent; the views are right unless it is telling them, and what it
\* tells them is the status, to the cache first.
ViewsFollow(g) ==
    apart[g] =>
        /\ \A p, q \in Procs : About(p, g) /\ About(q, g) => p = q
        /\ known[g] = Views \/ \E p \in Procs : Telling(p, g)
        /\ \A p \in Procs : Telling(p, g) =>
               /\ agent[g].status = Target(call[p].kind)
               /\ call[p].pc = "publish" => "cache" \in known[g]

\* The inductive invariant behind ViewsAgree.
ViewsInv == CallsTyped /\ \A g \in Agents : ViewsFollow(g)

\* A call begins, goes on and returns.
LEMMA BeginIs ==
    ASSUME CallsTyped, NEW p \in Procs, NEW g \in Agents, NEW k \in Statuses \cup {"auto"},
           NEW l \in {"check", "cut", "set", "store", "publish"}, Begin(p, g, k, l)
    PROVE  /\ call' \in [Procs -> Begun \cup {NoCall}] /\ \A q \in Procs \ {p} : call'[q] = call[q]
           /\ call'[p] # NoCall /\ call'[p].agent = g /\ call'[p].kind = k /\ call'[p].pc = l
  <1>1. [pc |-> l, kind |-> k, agent |-> g] \in Begun /\ [pc |-> l, kind |-> k, agent |-> g] # NoCall
    BY Zenon DEF Begun, NoCall
  <1> QED BY Zenon, <1>1 DEF Begin, CallsTyped

LEMMA StepIs ==
    ASSUME CallsTyped, NEW p \in Procs, call[p] # NoCall,
           NEW l \in {"check", "cut", "set", "store", "publish"}, Step(p, l)
    PROVE  /\ call' \in [Procs -> Begun \cup {NoCall}] /\ \A q \in Procs \ {p} : call'[q] = call[q]
           /\ call'[p] # NoCall /\ call'[p].agent = call[p].agent
           /\ call'[p].kind = call[p].kind /\ call'[p].pc = l
  <1>1. call[p] \in Begun
    BY Zenon DEF CallsTyped
  <1>2. call' = [call EXCEPT ![p] = [@ EXCEPT !.pc = l]]
    BY Zenon DEF Step
  <1>3. [call[p] EXCEPT !.pc = l] \in Begun /\ [call[p] EXCEPT !.pc = l] # NoCall
    BY Zenon, <1>1 DEF Begun, NoCall
  <1> QED BY Zenon, <1>1, <1>2, <1>3 DEF CallsTyped, Begun

LEMMA ReturnIs ==
    ASSUME CallsTyped, NEW p \in Procs, Return(p)
    PROVE  /\ call' \in [Procs -> Begun \cup {NoCall}] /\ \A q \in Procs \ {p} : call'[q] = call[q]
           /\ call'[p] = NoCall
  BY Zenon DEF CallsTyped, Return

\* A call has not returned while it is at a step.
LEMMA Going ==
    ASSUME CallsTyped, NEW p \in Procs, call[p] # NoCall \/ call[p].pc \in {"check", "cut", "set", "store", "publish"}
    PROVE  call[p] \in Begun /\ call[p] # NoCall /\ call[p].agent \in Agents
  BY DEF CallsTyped, Begun, NoCall

\* A step of one call leaves the other agents' views alone.
LEMMA ViewsOne ==
    ASSUME ViewsInv, CallsTyped', NEW p \in Procs, NEW g \in Agents,
           \A q \in Procs \ {p} : call'[q] = call[q],
           call[p] # NoCall => call[p].agent = g, call'[p] # NoCall => call'[p].agent = g,
           \A x \in Agents \ {g} : known'[x] = known[x] /\ apart'[x] = apart[x] /\ agent'[x] = agent[x],
           ViewsFollow(g)'
    PROVE  ViewsInv'
  <1> SUFFICES ASSUME NEW x \in Agents \ {g} PROVE ViewsFollow(x)'
    BY Zenon DEF ViewsInv
  <1>1. \A q \in Procs : /\ About(q, x)' <=> About(q, x)
                         /\ Telling(q, x)' <=> Telling(q, x)
                         /\ About(q, x) => call'[q] = call[q]
    BY DEF About, Telling
  <1>2. ViewsFollow(x)
    BY Zenon DEF ViewsInv
  <1> QED BY <1>1, <1>2 DEF ViewsFollow, Telling, Target

\* A call that begins before its statement: the agent is apart if no other call is about it.
LEMMA ViewsBegin ==
    ASSUME ViewsInv, NEW p \in Procs, NEW g \in Agents, NEW k \in Statuses \cup {"auto"},
           NEW l \in {"check", "cut", "set"}, call[p] = NoCall, Begin(p, g, k, l),
           apart' = [apart EXCEPT ![g] = @ /\ ~Busy(g, p)], UNCHANGED <<agent, known>>, gone' \subseteq Agents
    PROVE  ViewsInv'
  <1>1. /\ call' \in [Procs -> Begun \cup {NoCall}] /\ \A q \in Procs \ {p} : call'[q] = call[q]
        /\ call'[p] # NoCall /\ call'[p].agent = g /\ call'[p].kind = k /\ call'[p].pc = l
    BY BeginIs DEF ViewsInv
  <1>2. CallsTyped'
    BY Zenon, <1>1 DEF ViewsInv, CallsTyped
  <1>3. ViewsFollow(g)'
    <2> SUFFICES ASSUME apart'[g]
                 PROVE  /\ \A q, r \in Procs : About(q, g)' /\ About(r, g)' => q = r
                        /\ known[g] = Views
                        /\ \A q \in Procs : ~Telling(q, g)'
      BY Zenon DEF ViewsFollow
    <2>1. apart[g] /\ \A q \in Procs \ {p} : ~About(q, g)
      BY Zenon DEF ViewsInv, CallsTyped, Busy, About
    <2>2. \A q \in Procs : ~About(q, g) /\ ~Telling(q, g)
      BY Zenon, <2>1 DEF About, Telling
    <2>3. known[g] = Views
      BY Zenon, <2>1, <2>2 DEF ViewsInv, ViewsFollow
    <2>4. \A q \in Procs \ {p} : ~About(q, g)'
      BY Zenon, <1>1, <2>1 DEF About
    <2> QED BY Zenon, <1>1, <2>3, <2>4 DEF Telling
  <1>4. \A x \in Agents \ {g} : known'[x] = known[x] /\ apart'[x] = apart[x] /\ agent'[x] = agent[x]
    BY Zenon DEF ViewsInv, CallsTyped
  <1> QED BY Zenon, <1>1, <1>2, <1>3, <1>4, ViewsOne

\* The statement of a call took effect, and no other call is about the agent.
LEMMA ViewsSet ==
    ASSUME ViewsInv, CallsTyped', NEW p \in Procs, NEW g \in Agents,
           \A q \in Procs \ {p} : call'[q] = call[q], call[p] # NoCall => call[p].agent = g,
           call'[p] # NoCall, call'[p].agent = g, call'[p].pc = "store",
           apart'[g] => ~Busy(g, p) /\ agent'[g].status = Target(call'[p].kind),
           \A x \in Agents \ {g} : known'[x] = known[x] /\ apart'[x] = apart[x] /\ agent'[x] = agent[x]
    PROVE  ViewsInv'
  <1>1. ViewsFollow(g)'
    <2> SUFFICES ASSUME apart'[g]
                 PROVE  /\ \A q, r \in Procs : About(q, g)' /\ About(r, g)' => q = r
                        /\ \E q \in Procs : Telling(q, g)'
                        /\ \A q \in Procs : Telling(q, g)' =>
                              /\ agent'[g].status = Target(call'[q].kind)
                              /\ call'[q].pc = "publish" => "cache" \in known'[g]
      BY Zenon DEF ViewsFollow, Target
    <2>1. \A q \in Procs \ {p} : ~About(q, g)'
      BY Zenon DEF Busy, About
    <2>2. About(p, g)' /\ Telling(p, g)'
      BY Zenon DEF About, Telling
    <2> QED BY Zenon, <2>1, <2>2 DEF Telling
  <1> QED BY Zenon, <1>1, ViewsOne

\* A step of a call before its statement: it goes on, or returns.
LEMMA ViewsWait ==
    ASSUME ViewsInv, NEW p \in Procs, call[p].pc \in {"check", "cut", "set"},
           Return(p) \/ (\E l \in {"check", "cut", "set"} : Step(p, l)), UNCHANGED <<agent, known, apart, gone>>
    PROVE  ViewsInv'
  <1>0. call[p] # NoCall /\ call[p].agent \in Agents /\ CallsTyped
    BY Zenon, Going DEF ViewsInv
  <1>g. PICK g \in Agents : g = call[p].agent
    BY Zenon, <1>0
  <1>1. /\ call' \in [Procs -> Begun \cup {NoCall}] /\ \A q \in Procs \ {p} : call'[q] = call[q]
        /\ call'[p] = NoCall \/ (call'[p].agent = g /\ call'[p].pc \in {"check", "cut", "set"})
    <2>1. CASE Return(p)
      BY Zenon, <1>0, <2>1, ReturnIs
    <2>2. ASSUME NEW l \in {"check", "cut", "set"}, Step(p, l)
          PROVE  /\ call' \in [Procs -> Begun \cup {NoCall}] /\ \A q \in Procs \ {p} : call'[q] = call[q]
                 /\ call'[p].agent = g /\ call'[p].pc = l
      BY Zenon, <1>0, <1>g, <2>2, StepIs
    <2> QED BY Zenon, <2>1, <2>2
  <1>2. CallsTyped'
    BY Zenon, <1>0, <1>1 DEF CallsTyped
  <1>3. ViewsFollow(g)
    BY Zenon, <1>0 DEF ViewsInv
  <1>4. ~Telling(p, g) /\ ~Telling(p, g)' /\ (About(p, g)' => About(p, g))
    BY Zenon, <1>0, <1>g, <1>1 DEF Telling, About
  <1>5. \A q \in Procs \ {p} : (About(q, g)' <=> About(q, g)) /\ (Telling(q, g)' <=> Telling(q, g))
    BY Zenon, <1>1 DEF About, Telling
  <1>6. ViewsFollow(g)'
    <2> SUFFICES ASSUME apart[g]
                 PROVE  /\ \A q, r \in Procs : About(q, g)' /\ About(r, g)' => q = r
                        /\ known[g] = Views \/ \E q \in Procs : Telling(q, g)'
                        /\ \A q \in Procs : Telling(q, g)' =>
                              /\ agent[g].status = Target(call'[q].kind)
                              /\ call'[q].pc = "publish" => "cache" \in known[g]
      BY Zenon DEF ViewsFollow, Target
    <2>1. \A q, r \in Procs : About(q, g)' /\ About(r, g)' => q = r
      BY Zenon, <1>3, <1>4, <1>5 DEF ViewsFollow
    <2>2. known[g] = Views \/ \E q \in Procs : Telling(q, g)'
      BY Zenon, <1>3, <1>4, <1>5 DEF ViewsFollow
    <2>3. \A q \in Procs : Telling(q, g)' => Telling(q, g) /\ call'[q] = call[q]
      BY Zenon, <1>1, <1>4, <1>5
    <2> QED BY Zenon, <1>3, <2>1, <2>2, <2>3 DEF ViewsFollow
  <1> QED BY Zenon, <1>0, <1>g, <1>1, <1>2, <1>6, ViewsOne

\* A call tells the views the status: the cache, then the desktop and the hook.
LEMMA ViewsStore ==
    ASSUME ViewsInv, NEW p \in Procs, StoreStatus(p) PROVE ViewsInv'
  <1>0. call[p] # NoCall /\ call[p].agent \in Agents /\ CallsTyped /\ call[p].pc = "store"
    BY Zenon, Going DEF ViewsInv, StoreStatus
  <1>g. PICK g \in Agents : g = call[p].agent
    BY Zenon, <1>0
  <1>1. /\ call' \in [Procs -> Begun \cup {NoCall}] /\ \A q \in Procs \ {p} : call'[q] = call[q]
        /\ call'[p] # NoCall /\ call'[p].agent = g /\ call'[p].kind = call[p].kind /\ call'[p].pc = "publish"
    BY Zenon, <1>0, <1>g, StepIs DEF StoreStatus
  <1>2. /\ known' = [known EXCEPT ![g] = IF Target(call[p].kind) = agent[g].status THEN @ \cup {"cache"}
                                         ELSE @ \ {"cache"}]
        /\ UNCHANGED <<agent, gone, apart>>
    BY Zenon, <1>g DEF StoreStatus, Show, data
  <1>3. CallsTyped'
    BY Zenon, <1>0, <1>1, <1>2 DEF CallsTyped, Views
  <1>4. ViewsFollow(g)
    BY Zenon, <1>0 DEF ViewsInv
  <1>5. Telling(p, g) /\ Telling(p, g)'
    BY Zenon, <1>0, <1>g, <1>1 DEF Telling, About
  <1>6. ViewsFollow(g)'
    <2> SUFFICES ASSUME apart[g]
                 PROVE  /\ \A q, r \in Procs : About(q, g)' /\ About(r, g)' => q = r
                        /\ \A q \in Procs : Telling(q, g)' =>
                              /\ agent[g].status = Target(call'[q].kind)
                              /\ call'[q].pc = "publish" => "cache" \in known'[g]
      BY Zenon, <1>2, <1>5 DEF ViewsFollow, Target
    <2>1. \A q \in Procs \ {p} : ~About(q, g)
      BY Zenon, <1>4, <1>5 DEF ViewsFollow, Telling
    <2>2. \A q \in Procs \ {p} : ~About(q, g)'
      BY Zenon, <1>1, <2>1 DEF About
    <2>3. agent[g].status = Target(call[p].kind)
      BY Zenon, <1>4, <1>5 DEF ViewsFollow
    <2>4. "cache" \in known'[g]
      BY Zenon, <1>0, <1>2, <2>3 DEF CallsTyped
    <2> QED BY Zenon, <1>1, <2>2, <2>3, <2>4 DEF Telling
  <1>7. \A x \in Agents \ {g} : known'[x] = known[x] /\ apart'[x] = apart[x] /\ agent'[x] = agent[x]
    BY Zenon, <1>0, <1>2 DEF CallsTyped
  <1> QED BY Zenon, <1>0, <1>1, <1>3, <1>6, <1>7, <1>g, ViewsOne

LEMMA ViewsTell ==
    ASSUME ViewsInv, NEW p \in Procs, AgentChangeStatus(p) PROVE ViewsInv'
  <1>0. call[p] # NoCall /\ call[p].agent \in Agents /\ CallsTyped /\ call[p].pc = "publish"
    BY Zenon, Going DEF ViewsInv, AgentChangeStatus
  <1>g. PICK g \in Agents : g = call[p].agent
    BY Zenon, <1>0
  <1>1. /\ call' \in [Procs -> Begun \cup {NoCall}] /\ \A q \in Procs \ {p} : call'[q] = call[q]
        /\ call'[p] = NoCall
    BY Zenon, <1>0, ReturnIs DEF AgentChangeStatus
  <1>2. PICK v \in SUBSET Views :
           /\ known' = [known EXCEPT ![g] = IF Target(call[p].kind) = agent[g].status THEN @ \cup v ELSE @ \ v]
           /\ \/ v = {"desktop"} \cup HookAgent(g) /\ UNCHANGED apart
              \/ apart' = [apart EXCEPT ![g] = FALSE]
    <2>1. {} \in SUBSET Views /\ HookAgent(g) \in SUBSET Views /\ {"desktop"} \cup HookAgent(g) \in SUBSET Views
      BY Zenon DEF Views, HookAgent
    <2>2. CASE Show(g, Target(call[p].kind), {"desktop"} \cup HookAgent(g)) /\ UNCHANGED apart
      BY Zenon, <2>1, <2>2 DEF Show
    <2>3. CASE /\ Show(g, Target(call[p].kind), IF call[p].kind = "online" THEN HookAgent(g) ELSE {})
               /\ apart' = [apart EXCEPT ![g] = FALSE]
      BY Zenon, <2>1, <2>3 DEF Show
    <2> QED BY Zenon, <1>g, <2>2, <2>3 DEF AgentChangeStatus
  <1>3. UNCHANGED <<agent, gone>>
    BY Zenon DEF AgentChangeStatus, data
  <1>4. CallsTyped'
    BY Zenon, <1>0, <1>1, <1>2, <1>3 DEF CallsTyped
  <1>5. ViewsFollow(g) /\ Telling(p, g)
    BY Zenon, <1>0, <1>g DEF ViewsInv, Telling, About
  <1>6. ViewsFollow(g)'
    <2> SUFFICES ASSUME apart'[g] PROVE known'[g] = Views /\ \A q \in Procs : ~About(q, g)'
      BY Zenon DEF ViewsFollow, Telling
    <2>1. v = {"desktop"} \cup HookAgent(g) /\ apart[g]
      BY Zenon, <1>0, <1>2 DEF CallsTyped
    <2>2. \A q \in Procs \ {p} : ~About(q, g)
      BY Zenon, <1>5, <2>1 DEF ViewsFollow, Telling
    <2>3. \A q \in Procs : ~About(q, g)'
      BY Zenon, <1>1, <2>2 DEF About
    <2>4. agent[g].status = Target(call[p].kind) /\ "cache" \in known[g]
      BY Zenon, <1>0, <1>5, <2>1 DEF ViewsFollow
    <2>5. known'[g] = known[g] \cup {"desktop", "hook"} /\ known[g] \subseteq Views
      BY Zenon, <1>0, <1>2, <2>1, <2>4 DEF CallsTyped, HookAgent
    <2> QED BY Zenon, <2>3, <2>4, <2>5 DEF Views
  <1>7. \A x \in Agents \ {g} : known'[x] = known[x] /\ apart'[x] = apart[x] /\ agent'[x] = agent[x]
    BY Zenon, <1>0, <1>2, <1>3 DEF CallsTyped
  <1> QED BY Zenon, <1>0, <1>1, <1>4, <1>6, <1>7, <1>g, ViewsOne

\* Nothing of the calls and views is touched.
LEMMA ViewsSame ==
    ASSUME ViewsInv, UNCHANGED <<agent, known, call, apart>>, gone' \subseteq Agents PROVE ViewsInv'
  BY DEF ViewsInv, CallsTyped, ViewsFollow, About, Telling, Target

------------------------------------------------------------------------------
(* Every step keeps both. *)

StatusInv == RowsInv /\ ViewsInv

\* Initially all agents are offline and all views say so.
LEMMA StatusInit == Init => StatusInv
  <1> SUFFICES ASSUME Init PROVE StatusInv
    BY Zenon
  <1>1. RowsTyped
    BY NumbersAssumption DEF Init, RowsTyped, AgentRow, Statuses, AgentChannel, ChanStates, NoRow, RowType, RowStates
  <1>2. \A g \in Agents : Fits(g)
    BY Zenon DEF Init, Fits, NoRow
  <1>3. CallsTyped
    BY Zenon DEF Init, CallsTyped, Views
  <1>4. \A g \in Agents : ViewsFollow(g)
    BY Zenon DEF Init, ViewsFollow, About, Telling
  <1> QED BY Zenon, <1>1, <1>2, <1>3, <1>4 DEF StatusInv, RowsInv, ViewsInv

\* The steps of the desktop's calls up to the statement.
LEMMA StatusRequest ==
    ASSUME StatusInv, NEW r \in Requests, Request(r) PROVE StatusInv'
  <1>0. RowsInv /\ ViewsInv /\ CallsTyped /\ gone \subseteq Agents /\ r \in Procs
    BY Zenon DEF StatusInv, ViewsInv, CallsTyped, Procs
  <1>1. ASSUME NEW g \in Agents, AgentGoOnline(r, g) PROVE StatusInv'
    <2>1. RowsInv'
      BY Zenon, <1>0, <1>1, RowsOnline DEF AgentGoOnline
    <2>2. /\ call' \in [Procs -> Begun \cup {NoCall}] /\ \A q \in Procs \ {r} : call'[q] = call[q]
          /\ call'[r] # NoCall /\ call'[r].agent = g /\ call'[r].kind = "online" /\ call'[r].pc = "store"
      BY Zenon, <1>0, <1>1, BeginIs DEF AgentGoOnline, Statuses
    <2>3. /\ call[r] = NoCall /\ apart' = [apart EXCEPT ![g] = ~Busy(g, r)] /\ known' = [known EXCEPT ![g] = {}]
          /\ agent' = [agent EXCEPT ![g].status = "online", ![g].online = TRUE] /\ UNCHANGED gone
      BY Zenon, <1>1 DEF AgentGoOnline, SetOnlineAtomic
    <2>4. CallsTyped'
      BY Zenon, <1>0, <2>2, <2>3 DEF CallsTyped
    <2>5. agent'[g].status = "online" /\ \A x \in Agents \ {g} : agent'[x] = agent[x]
      BY Zenon, <1>0, <2>3 DEF RowsInv, RowsTyped, AgentRow
    <2>6. apart'[g] = ~Busy(g, r) /\ \A x \in Agents \ {g} : known'[x] = known[x] /\ apart'[x] = apart[x]
      BY Zenon, <1>0, <2>3 DEF CallsTyped
    <2>7. ViewsInv'
      <3>1. apart'[g] => ~Busy(g, r) /\ agent'[g].status = Target(call'[r].kind)
        BY Zenon, <2>2, <2>5, <2>6 DEF Target
      <3>2. \A x \in Agents \ {g} : known'[x] = known[x] /\ apart'[x] = apart[x] /\ agent'[x] = agent[x]
        BY Zenon, <2>5, <2>6
      <3>3. call[r] # NoCall => call[r].agent = g
        BY Zenon, <2>3
      <3> QED BY Zenon, <1>0, <2>2, <2>4, <3>1, <3>2, <3>3, ViewsSet
    <2> QED BY Zenon, <2>1, <2>7 DEF StatusInv
  <1>2. ASSUME NEW g \in Agents, SetAgentLogout(r, g) \/ SetAgentPause(r, g) PROVE StatusInv'
    <2>1. RowsInv'
      BY Zenon, <1>0, <1>2, RowsSame DEF SetAgentLogout, SetAgentPause, data
    <2>2. CASE SetAgentLogout(r, g)
      BY Zenon, <1>0, <2>1, <2>2, ViewsBegin DEF SetAgentLogout, data, Statuses, StatusInv
    <2>3. CASE SetAgentPause(r, g)
      BY Zenon, <1>0, <2>1, <2>3, ViewsBegin DEF SetAgentPause, data, Statuses, StatusInv
    <2> QED BY Zenon, <1>2, <2>2, <2>3
  <1>3. CASE PauseCheck(r)
    <2>1. RowsInv'
      BY Zenon, <1>0, <1>3, RowsSame DEF PauseCheck, data
    <2>2. call[r].pc = "check" /\ (Return(r) \/ Step(r, "cut")) /\ UNCHANGED <<agent, known, apart, gone>>
      BY Zenon, <1>3 DEF PauseCheck, data
    <2> QED BY Zenon, <1>0, <2>1, <2>2, ViewsWait DEF StatusInv
  <1>4. CASE HangupNoAnswerChannels(r)
    <2>1. /\ call[r].pc = "cut" /\ Step(r, "set") /\ UNCHANGED <<agent, chan, known, apart, gone>>
          /\ HangupNoAnswer(call[r].agent) \/ UNCHANGED row
      BY Zenon, <1>4 DEF HangupNoAnswerChannels
    <2>2. call[r].agent \in Agents
      BY Zenon, <1>0, <2>1, Going
    <2>3. RowsInv'
      BY Zenon, <1>0, <2>1, <2>2, RowsSame, RowsHangup
    <2> QED BY Zenon, <1>0, <2>1, <2>3, ViewsWait DEF StatusInv
  <1> QED BY Zenon, <1>1, <1>2, <1>3, <1>4 DEF Request

\* The statement of a call, and what it tells the views.
LEMMA StatusContinue ==
    ASSUME StatusInv, NEW p \in Procs, Continue(p) PROVE StatusInv'
  <1>0. RowsInv /\ ViewsInv /\ CallsTyped
    BY Zenon DEF StatusInv, ViewsInv
  <1>1. ASSUME NEW s \in Statuses \ {"online"}, call[p] # NoCall, Target(call[p].kind) = s, setAgentStatus(p, s)
        PROVE  StatusInv'
    <2>0. call[p].pc = "set" /\ call[p].agent \in Agents
      BY Zenon, <1>0, <1>1, Going DEF setAgentStatus
    <2>g. PICK g \in Agents : g = call[p].agent
      BY Zenon, <2>0
    <2>1. UNCHANGED <<chan, row, gone>>
      BY Zenon, <1>1 DEF setAgentStatus
    <2>2. CASE Return(p) /\ UNCHANGED <<agent, apart, known>>
      <3>1. RowsInv'
        BY Zenon, <1>0, <2>1, <2>2, RowsSame
      <3> QED BY Zenon, <1>0, <2>0, <2>1, <2>2, <3>1, ViewsWait DEF StatusInv
    <2>3. CASE /\ SetStatus(g, s) /\ known' = [known EXCEPT ![g] = {}] /\ Step(p, "store")
               /\ apart' = [apart EXCEPT ![g] = ~Busy(g, p) /\ row[g].state # "wait_agent"]
      <3>1. RowsInv'
        BY Zenon, <1>0, <2>1, <2>3, RowsStatus
      <3>2. /\ call' \in [Procs -> Begun \cup {NoCall}] /\ \A q \in Procs \ {p} : call'[q] = call[q]
            /\ call'[p] # NoCall /\ call'[p].agent = g /\ call'[p].kind = call[p].kind /\ call'[p].pc = "store"
        BY Zenon, <1>0, <1>1, <2>g, <2>3, StepIs
      <3>3. CallsTyped'
        BY Zenon, <1>0, <2>1, <2>3, <3>2 DEF CallsTyped
      <3>4. /\ apart'[g] => ~Busy(g, p) /\ row[g].state # "wait_agent"
            /\ \A x \in Agents \ {g} : known'[x] = known[x] /\ apart'[x] = apart[x]
        BY Zenon, <1>0, <2>3 DEF CallsTyped
      <3>5. /\ row[g].state # "wait_agent" => agent'[g].status = s
            /\ \A x \in Agents \ {g} : agent'[x] = agent[x]
        BY Zenon, <1>0, <2>3 DEF SetStatus, RowsInv, RowsTyped, AgentRow
      <3>6. apart'[g] => ~Busy(g, p) /\ agent'[g].status = Target(call'[p].kind)
        BY Zenon, <1>1, <3>2, <3>4, <3>5
      <3>7. ViewsInv'
        BY Zenon, <1>0, <2>g, <3>2, <3>3, <3>4, <3>5, <3>6, ViewsSet
      <3> QED BY Zenon, <3>1, <3>7 DEF StatusInv
    <2> QED BY Zenon, <1>1, <2>g, <2>2, <2>3 DEF setAgentStatus
  <1>2. CASE SetOffline(p)
    BY Zenon, <1>1, <1>2 DEF SetOffline, Statuses
  <1>3. CASE SetPause(p)
    BY Zenon, <1>1, <1>3 DEF SetPause, Statuses, Target
  <1>4. CASE SetBreakOut(p)
    BY Zenon, <1>1, <1>4 DEF SetBreakOut, Statuses, Target
  <1>5. CASE StoreStatus(p)
    BY Zenon, <1>0, <1>5, RowsSame, ViewsStore DEF StoreStatus, data, StatusInv
  <1>6. CASE AgentChangeStatus(p)
    BY Zenon, <1>0, <1>6, RowsSame, ViewsTell DEF AgentChangeStatus, data, StatusInv
  <1> QED BY Zenon, <1>2, <1>3, <1>4, <1>5, <1>6 DEF Continue

\* The distribution leaves the views alone, but for the call of a last miss.
LEMMA StatusDistribution ==
    ASSUME StatusInv, NEW g \in Agents, Distribution(g) PROVE StatusInv'
  <1>0. RowsInv /\ ViewsInv /\ CallsTyped /\ gone \subseteq Agents
    BY Zenon DEF StatusInv, ViewsInv, CallsTyped
  <1>1. RowsInv'
    BY Zenon, <1>0, RowsDistribution
  <1>2. CASE Missed(g)
    <2>p. PICK p \in Procs : p = <<"attempt", g>>
      BY Zenon DEF Procs
    <2>1. UNCHANGED <<agent, known, gone>> /\ call[p] = NoCall
      BY Zenon, <1>2, <2>p DEF Missed
    <2>2. CASE UNCHANGED <<call, apart>>
      BY Zenon, <1>0, <1>1, <2>1, <2>2, ViewsSame DEF StatusInv
    <2>3. CASE Begin(p, g, "break_out", "set") /\ apart' = [apart EXCEPT ![g] = @ /\ ~Busy(g, p)]
      BY Zenon, <1>0, <1>1, <2>1, <2>3, ViewsBegin DEF StatusInv, Statuses
    <2> QED BY Zenon, <1>2, <2>p, <2>2, <2>3 DEF Missed
  <1>3. CASE ~Missed(g)
    <2>1. UNCHANGED <<agent, known, call, gone, apart>>
      BY Zenon, <1>3 DEF Distribution, Book, Handoff, DirectTask, Offering, Bridged, NotNeeded, Ended, SaveToHistory,
         WaitingChannel, ChannelTimeout
    <2> QED BY Zenon, <1>0, <1>1, <2>1, ViewsSame DEF StatusInv
  <1> QED BY Zenon, <1>2, <1>3

\* Every step keeps the invariant.
LEMMA StatusStep == StatusInv /\ [Next]_vars => StatusInv'
  <1> SUFFICES ASSUME StatusInv, [Next]_vars PROVE StatusInv'
    BY Zenon
  <1>0. RowsInv /\ ViewsInv /\ CallsTyped /\ gone \subseteq Agents
    BY Zenon DEF StatusInv, ViewsInv, CallsTyped
  <1>1. CASE ListGone
    <2>1. UNCHANGED <<agent, chan, row, known, call, apart>> /\ gone' \subseteq Agents
      BY Zenon, <1>1 DEF ListGone, OnlineWithOutActive, data
    <2> QED BY Zenon, <1>0, <2>1, RowsSame, ViewsSame DEF StatusInv
  <1>2. ASSUME NEW g \in Agents, LogoutGone(g) PROVE StatusInv'
    <2>1. /\ UNCHANGED <<agent, chan, row, known>> /\ gone' \subseteq Agents /\ call[Watcher] = NoCall
          /\ Begin(Watcher, g, "auto", "set") /\ apart' = [apart EXCEPT ![g] = @ /\ ~Busy(g, Watcher)]
          /\ Watcher \in Procs
      BY Zenon, <1>0, <1>2 DEF LogoutGone, data, Procs
    <2> QED BY Zenon, <1>0, <2>1, RowsSame, ViewsBegin DEF StatusInv
  <1>3. ASSUME NEW g \in Agents, Socket(g) PROVE StatusInv'
    <2>1. UNCHANGED <<agent, chan, row, known, call, apart, gone>>
      BY Zenon, <1>3 DEF Socket
    <2> QED BY Zenon, <1>0, <2>1, RowsSame, ViewsSame DEF StatusInv
  <1>4. CASE UNCHANGED vars
    <2>1. UNCHANGED <<agent, chan, row, known, call, apart, gone>>
      BY Zenon, <1>4 DEF vars, data
    <2> QED BY Zenon, <1>0, <2>1, RowsSame, ViewsSame DEF StatusInv
  <1> QED BY Zenon, <1>1, <1>2, <1>3, <1>4, StatusRequest, StatusContinue, StatusDistribution DEF Next

LEMMA StatusInvariant == Spec => []StatusInv
  BY StatusInit, StatusStep, PTL DEF Spec

\* An agent the distribution has just booked stays online until the booking is
\* handed over: SetStatus changes nothing while the row is in wait_agent, whoever
\* calls it, and the channels are closed by no other statement.
THEOREM BookedStaysOnline == Spec => []BookedIsOnline
  <1>1. StatusInv => BookedIsOnline
    BY Zenon DEF StatusInv, RowsInv, Fits, BookedIsOnline
  <1> QED BY <1>1, StatusInvariant, PTL

\* The channels are open exactly while the agent is online: every statement on the
\* status sets both.
THEOREM ChannelsOfStatus == Spec => []ChannelsFollowStatus
  <1>1. StatusInv => ChannelsFollowStatus
    BY Zenon DEF StatusInv, RowsInv, Fits, ChannelsFollowStatus
  <1> QED BY <1>1, StatusInvariant, PTL

\* The channel of an agent who is rung or talks is not free, whatever logins, the
\* dispatcher's time-outs and the desktop's release do meanwhile: no timeout runs
\* from the booking on.
THEOREM BusyAgentNotFree == Spec => []BusyIsNotFree
  <1>1. StatusInv => BusyIsNotFree
    BY Zenon DEF StatusInv, RowsInv, Fits, BusyIsNotFree
  <1> QED BY <1>1, StatusInvariant, PTL

\* Whatever number of calls change an agent's status, when none is in progress the
\* cache, the desktop and the hook have it, unless calls overlapped, a message was
\* lost or the agent had been booked.
THEOREM ViewsHaveStatus == Spec => []ViewsAgree
  <1>1. StatusInv => ViewsAgree
    <2> SUFFICES ASSUME StatusInv, NEW g \in Agents, apart[g],
                        \A p \in Procs : call[p] = NoCall \/ call[p].agent # g
                 PROVE  known[g] = Views
      BY Zenon DEF ViewsAgree
    <2> QED BY Zenon DEF StatusInv, ViewsInv, ViewsFollow, Telling, About
  <1> QED BY <1>1, StatusInvariant, PTL

\* The connections.
SocksTyped == sock \in [Agents -> BOOLEAN]

\* The rows, the calls and the views stay in their types.
THEOREM TypeCorrect == Spec => []TypeOK
  <1>1. Init => SocksTyped
    BY Zenon DEF Init, SocksTyped
  <1>2. SocksTyped /\ [Next]_vars => SocksTyped'
    <2> SUFFICES ASSUME SocksTyped, [Next]_vars PROVE sock' \in [Agents -> BOOLEAN]
      BY Zenon DEF SocksTyped
    <2>1. ASSUME NEW g \in Agents, Socket(g) PROVE sock' \in [Agents -> BOOLEAN]
      BY Zenon, <2>1 DEF Socket, SocksTyped
    <2>2. ASSUME NEW g \in Agents, LogoutGone(g) \/ Distribution(g) PROVE UNCHANGED sock
      BY Zenon, <2>2 DEF LogoutGone, data, Distribution, Book, Handoff, DirectTask, Offering, Bridged, Missed, NotNeeded,
         Ended, SaveToHistory, WaitingChannel, ChannelTimeout
    <2>3. ASSUME NEW p \in Procs, Continue(p) PROVE UNCHANGED sock
      BY Zenon, <2>3 DEF Continue, SetOffline, SetPause, SetBreakOut, setAgentStatus, StoreStatus, AgentChangeStatus, data
    <2>4. ASSUME NEW r \in Requests, Request(r) PROVE UNCHANGED sock
      BY Zenon, <2>4 DEF Request, AgentGoOnline, SetAgentLogout, SetAgentPause, PauseCheck, HangupNoAnswerChannels, data
    <2>5. ListGone \/ UNCHANGED vars => UNCHANGED sock
      BY Zenon DEF ListGone, vars, data
    <2> QED BY Zenon, <2>1, <2>2, <2>3, <2>4, <2>5 DEF Next, SocksTyped
  <1>3. StatusInv /\ SocksTyped => TypeOK
    BY Zenon DEF SocksTyped, StatusInv, RowsInv, RowsTyped, RowType, ViewsInv, CallsTyped, TypeOK
  <1> QED BY <1>1, <1>2, <1>3, StatusInvariant, PTL DEF Spec
==============================================================================
