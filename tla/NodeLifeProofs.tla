--------------------------- MODULE NodeLifeProofs ----------------------------
(***************************************************************************)
(* NodeLife, proved for any number of nodes and rows: who holds a row when *)
(* nodes reserve, take, stop, crash and start again.                       *)
(***************************************************************************)
EXTENDS NodeLife, TLAPS

(* The types the argument about NodeLife needs. *)
LifeType ==
    /\ attempt \in [Rows -> [state : {"none", "idle", "live", "over"}, node : Nodes \cup {Nobody}]]
    /\ app \in [Nodes -> {"down", "engine", "up", "unreserve", "drain", "signal", "dispatcher"}]
    /\ taken \in [Nodes -> SUBSET Rows] /\ cache \in [Nodes -> SUBSET Rows]
    /\ reserved \in [Nodes -> SUBSET Rows] /\ input \in [Nodes -> Rows \cup {Nobody}]
    /\ kept \subseteq Rows

(* What a process has taken, is about to send or runs is its own live row. *)
HeldIsOwn ==
    \A n \in Nodes : \A a \in taken[n] \cup cache[n] :
        attempt[a].state = "live" /\ attempt[a].node = n

(* A row is sent once, and the one that is offered is in the cache. *)
SentOnce ==
    \A n \in Nodes : /\ taken[n] \cap cache[n] = {}
                     /\ input[n] # Nobody => input[n] \in cache[n]

(* Only a node makes a row idle. *)
IdleHasNode == \A a \in Rows : attempt[a].state = "idle" => attempt[a].node \in Nodes

(* The inductive invariant behind the theorems about NodeLife. *)
LifeInv == LifeType /\ HeldIsOwn /\ SentOnce /\ IdleHasNode /\ ~clash /\ ReservedByTheLiving

(* Initially no row is held. *)
LEMMA LifeInit == NodeInit => LifeInv
  <1> SUFFICES ASSUME NodeInit PROVE LifeInv
    OBVIOUS
  <1>1. LifeType
    BY DEF NodeInit, LifeType
  <1>2. HeldIsOwn /\ SentOnce
    BY DEF NodeInit, HeldIsOwn, SentOnce
  <1>3. IdleHasNode /\ ReservedByTheLiving
    BY DEF NodeInit, IdleHasNode, ReservedByTheLiving
  <1> QED BY <1>1, <1>2, <1>3 DEF NodeInit, LifeInv

(* Steps that concern neither rows nor what a process holds. *)
LEMMA LifeQuiet ==
    ASSUME LifeInv, UNCHANGED <<attempt, taken, input, cache, reserved, kept, clash>>,
           NEW n \in Nodes, NEW p \in {"down", "engine", "up", "unreserve", "drain", "signal", "dispatcher"},
           app' = At(app, n, p), app[n] # "down"
    PROVE  LifeInv'
  <1>1. LifeType'
    BY DEF At, LifeInv, LifeType
  <1>2. HeldIsOwn' /\ SentOnce' /\ IdleHasNode'
    BY DEF LifeInv, HeldIsOwn, SentOnce, IdleHasNode
  <1>3. ReservedByTheLiving'
    BY DEF At, LifeInv, LifeType, IdleHasNode, ReservedByTheLiving
  <1> QED BY <1>1, <1>2, <1>3 DEF LifeInv

(* The end of a process. *)
LEMMA LifeEnds ==
    ASSUME LifeInv, NEW n \in Nodes, ProcessEnds(n), UNCHANGED <<attempt, kept, clash>>
    PROVE  LifeInv'
  <1>1. LifeType'
    BY DEF At, LifeInv, LifeType, ProcessEnds
  <1>2. /\ \A m \in Nodes \ {n} : /\ taken'[m] = taken[m] /\ cache'[m] = cache[m] /\ input'[m] = input[m]
                                  /\ reserved'[m] = reserved[m] /\ app'[m] = app[m]
        /\ taken'[n] = {} /\ cache'[n] = {} /\ input'[n] = Nobody /\ app'[n] = "down"
    BY DEF At, LifeInv, LifeType, ProcessEnds
  <1>3. HeldIsOwn' /\ SentOnce' /\ IdleHasNode'
    BY <1>2 DEF LifeInv, HeldIsOwn, SentOnce, IdleHasNode
  <1>4. ReservedByTheLiving'
    BY <1>2 DEF LifeInv, IdleHasNode, ReservedByTheLiving
  <1> QED BY <1>1, <1>3, <1>4 DEF LifeInv

(* UnReserveMembers leaves held rows alone, and no idle row of the node but those *)
(* it keeps.                                                                       *)
LEMMA UnReserveIs ==
    ASSUME LifeInv, NEW n \in Nodes, UnReserveMembers(n)
    PROVE  /\ attempt' \in [Rows -> [state : {"none", "idle", "live", "over"}, node : Nodes \cup {Nobody}]]
           /\ kept' \subseteq Rows /\ kept \subseteq kept'
           /\ \A a \in Rows : attempt[a].state # "idle" => attempt'[a] = attempt[a]
           /\ \A a \in Rows : attempt'[a].state = "idle" => attempt'[a] = attempt[a]
           /\ \A a \in Rows : attempt'[a].state = "idle" /\ attempt[a].node = n => a \in kept'
  <1> USE DEF LifeInv, LifeType
  <1>1. CASE attempt' = UnReserveMembersByNode(n) /\ UNCHANGED kept
    <2>1. \A a \in Rows : attempt'[a] = IF attempt[a] = [state |-> "idle", node |-> n]
                                        THEN [attempt[a] EXCEPT !.state = "over"] ELSE attempt[a]
      BY <1>1 DEF UnReserveMembersByNode
    <2>2. \A a \in Rows : attempt'[a] \in [state : {"none", "idle", "live", "over"}, node : Nodes \cup {Nobody}]
      BY Zenon, <2>1
    <2>3. attempt' \in [Rows -> [state : {"none", "idle", "live", "over"}, node : Nodes \cup {Nobody}]]
      BY <1>1, <2>1, <2>2 DEF UnReserveMembersByNode
    <2>4. \A a \in Rows : attempt[a].state = "idle" /\ attempt[a].node = n => attempt'[a].state = "over"
      BY Zenon, <2>1
    <2> QED BY <1>1, <2>1, <2>3, <2>4
  <1>2. CASE /\ kept' = kept \cup {a \in Rows : attempt[a] = [state |-> "idle", node |-> n]}
             /\ UNCHANGED attempt
    BY <1>2
  <1> QED BY <1>1, <1>2 DEF UnReserveMembers

(* The start of the engine releases what the last process had reserved. *)
LEMMA LifeUnReserves ==
    ASSUME LifeInv, NEW n \in Nodes, UnReserveMembers(n),
           NEW p \in {"engine", "drain"}, app' = At(app, n, p),
           UNCHANGED <<taken, input, cache, reserved, clash>>
    PROVE  LifeInv'
  <1>0. /\ attempt' \in [Rows -> [state : {"none", "idle", "live", "over"}, node : Nodes \cup {Nobody}]]
        /\ kept' \subseteq Rows /\ kept \subseteq kept'
        /\ \A a \in Rows : attempt[a].state # "idle" => attempt'[a] = attempt[a]
        /\ \A a \in Rows : attempt'[a].state = "idle" => attempt'[a] = attempt[a]
        /\ \A a \in Rows : attempt'[a].state = "idle" /\ attempt[a].node = n => a \in kept'
    BY UnReserveIs
  <1>1. LifeType'
    BY <1>0 DEF At, LifeInv, LifeType
  <1>2. HeldIsOwn'
    BY <1>0 DEF LifeInv, LifeType, HeldIsOwn
  <1>3. SentOnce'
    BY DEF LifeInv, SentOnce
  <1>4. IdleHasNode'
    <2> SUFFICES ASSUME NEW a \in Rows, attempt'[a].state = "idle" PROVE attempt'[a].node \in Nodes
      BY DEF IdleHasNode
    <2>1. attempt'[a] = attempt[a]
      BY <1>0
    <2> QED BY <2>1 DEF LifeInv, IdleHasNode
  <1>5. ReservedByTheLiving'
    <2> SUFFICES ASSUME NEW a \in Rows \ kept', attempt'[a].state = "idle"
                 PROVE  a \in reserved[attempt'[a].node] \/ app'[attempt'[a].node] = "down"
      BY DEF ReservedByTheLiving
    <2>0. a \in Rows /\ a \notin kept' /\ a \notin kept /\ attempt'[a] = attempt[a]
      BY <1>0
    <2>1. attempt'[a] = attempt[a] /\ attempt[a].node \in Nodes \ {n} /\ a \notin kept
      BY <1>0, <2>0 DEF LifeInv, IdleHasNode
    <2>2. app'[attempt[a].node] = app[attempt[a].node]
      BY <2>1 DEF At, LifeInv, LifeType
    <2> QED BY <2>1, <2>2 DEF LifeInv, ReservedByTheLiving
  <1> QED BY <1>1, <1>2, <1>3, <1>4, <1>5 DEF LifeInv

(* Rows end only while the process that ends them holds them. *)
LEMMA LifeRowEnds ==
    ASSUME LifeInv, NEW n \in Nodes, NEW closed \in SUBSET cache[n],
           attempt' \in [Rows -> [state : {"none", "idle", "live", "over"}, node : Nodes \cup {Nobody}]],
           \A a \in closed : attempt'[a].state = "over",
           \A a \in Rows \ closed : attempt'[a] = attempt[a],
           cache' = At(cache, n, cache[n] \ closed),
           app' = app \/ (app[n] # "down" /\ app' = At(app, n, "signal")),
           input' = At(input, n, Nobody) \/ (input' = input /\ input[n] \notin closed),
           UNCHANGED <<taken, reserved, kept, clash>>
    PROVE  LifeInv'
  <1>1. LifeType'
    BY DEF At, LifeInv, LifeType
  <1>2. /\ cache'[n] = cache[n] \ closed
        /\ \A m \in Nodes \ {n} : cache'[m] = cache[m] /\ input'[m] = input[m] /\ app'[m] = app[m]
        /\ app'[n] = "down" => app[n] = "down"
        /\ app'[n] # "down" => app[n] # "down"
        /\ input'[n] = Nobody \/ (input'[n] = input[n] /\ input[n] \notin closed)
    BY DEF At, LifeInv, LifeType
  <1>3. \A m \in Nodes : taken[m] \cap closed = {} /\ (m # n => cache[m] \cap closed = {})
    BY DEF LifeInv, LifeType, HeldIsOwn, SentOnce
  <1>4. HeldIsOwn'
    <2> SUFFICES ASSUME NEW m \in Nodes, NEW a \in taken[m] \cup cache'[m]
                 PROVE  attempt'[a].state = "live" /\ attempt'[a].node = m
      BY Zenon DEF HeldIsOwn
    <2>1. a \in Rows \ closed /\ a \in taken[m] \cup cache[m]
      BY Zenon, <1>2, <1>3 DEF LifeInv, LifeType
    <2> QED BY <2>1 DEF LifeInv, HeldIsOwn
  <1>5. SentOnce'
    <2> SUFFICES ASSUME NEW m \in Nodes
                 PROVE  taken[m] \cap cache'[m] = {} /\ (input'[m] # Nobody => input'[m] \in cache'[m])
      BY Zenon DEF SentOnce
    <2> QED BY Zenon, <1>2 DEF LifeInv, SentOnce
  <1>6. \A a \in Rows : attempt'[a].state = "idle" => attempt'[a] = attempt[a]
    OBVIOUS
  <1>7. IdleHasNode'
    BY <1>6 DEF LifeInv, IdleHasNode
  <1>8. ReservedByTheLiving'
    BY <1>2, <1>6 DEF LifeInv, IdleHasNode, ReservedByTheLiving
  <1> QED BY <1>1, <1>4, <1>5, <1>7, <1>8 DEF LifeInv

(* The end of a row keeps its type. *)
LEMMA OverType ==
    ASSUME LifeInv, NEW a \in Rows
    PROVE  LET f == [attempt EXCEPT ![a].state = "over"]
           IN /\ f \in [Rows -> [state : {"none", "idle", "live", "over"}, node : Nodes \cup {Nobody}]]
              /\ f[a].state = "over" /\ \A b \in Rows \ {a} : f[b] = attempt[b]
  BY DEF LifeInv, LifeType

(* The engine reserves a row nobody holds. *)
LEMMA LifeReserve ==
    ASSUME LifeInv, NEW n \in Nodes, NEW a \in Rows, ReserveMembers(n, a)
    PROVE  LifeInv'
  <1>1. /\ attempt'[a] = [state |-> "idle", node |-> n]
        /\ \A b \in Rows \ {a} : attempt'[b] = attempt[b]
        /\ reserved'[n] = reserved[n] \cup {a}
        /\ \A m \in Nodes \ {n} : reserved'[m] = reserved[m]
        /\ attempt[a].state = "none"
    BY DEF At, ReserveMembers, ReserveMembersByNode, LifeInv, LifeType
  <1>2. LifeType'
    BY DEF At, ReserveMembers, ReserveMembersByNode, LifeInv, LifeType
  <1>3. UNCHANGED <<app, taken, input, cache, kept, clash>>
    BY DEF ReserveMembers
  <1>4. HeldIsOwn'
    <2>1. \A m \in Nodes : a \notin taken[m] \cup cache[m]
      BY <1>1 DEF LifeInv, HeldIsOwn
    <2> QED BY <1>1, <1>3, <2>1 DEF LifeInv, LifeType, HeldIsOwn
  <1>5. SentOnce'
    BY <1>3 DEF LifeInv, SentOnce
  <1>6. IdleHasNode'
    BY <1>1 DEF LifeInv, IdleHasNode
  <1>7. ReservedByTheLiving'
    <2> SUFFICES ASSUME NEW b \in Rows \ kept, attempt'[b].state = "idle"
                 PROVE  b \in reserved'[attempt'[b].node] \/ app[attempt'[b].node] = "down"
      BY <1>3 DEF ReservedByTheLiving
    <2>1. CASE b = a
      BY <1>1, <2>1
    <2>2. CASE b # a
      BY <1>1, <2>2 DEF LifeInv, IdleHasNode, ReservedByTheLiving
    <2> QED BY <2>1, <2>2
  <1> QED BY <1>2, <1>3, <1>4, <1>5, <1>6, <1>7 DEF LifeInv

(* The dispatcher takes the idle rows of all nodes, and nobody held them. *)
LEMMA LifeRoute ==
    ASSUME LifeInv, NEW n \in Nodes, RouteIdleAttempts(n)
    PROVE  LifeInv'
  <1>0. PICK gone \in SUBSET ActiveMembers(n) :
            /\ attempt' = GetActiveMembersAttempt(n, gone)
            /\ taken' = At(taken, n, ActiveMembers(n) \ gone)
    BY Zenon DEF RouteIdleAttempts
  <1>1. UNCHANGED <<app, input, cache, reserved, kept, clash>>
    BY DEF RouteIdleAttempts
  <1>2. ActiveMembers(n) \subseteq Rows /\ \A a \in Rows : a \in ActiveMembers(n) <=> attempt[a].state = "idle"
    BY DEF ActiveMembers
  <1>3. /\ \A a \in gone : attempt'[a] = [state |-> "over", node |-> n]
        /\ \A a \in ActiveMembers(n) \ gone : attempt'[a] = [state |-> "live", node |-> n]
        /\ \A a \in Rows \ ActiveMembers(n) : attempt'[a] = attempt[a]
    BY <1>0, <1>2 DEF GetActiveMembersAttempt
  <1>4. LifeType'
    <2>1. \A a \in Rows : attempt'[a] \in [state : {"none", "idle", "live", "over"}, node : Nodes \cup {Nobody}]
      BY <1>0, <1>2, <1>3 DEF LifeInv, LifeType
    <2>2. attempt' \in [Rows -> [state : {"none", "idle", "live", "over"}, node : Nodes \cup {Nobody}]]
      BY <1>0, <2>1 DEF GetActiveMembersAttempt
    <2> QED BY <1>0, <1>1, <1>2, <2>2 DEF At, LifeInv, LifeType
  <1>5. /\ taken'[n] = ActiveMembers(n) \ gone
        /\ \A m \in Nodes \ {n} : taken'[m] = taken[m]
    BY <1>0 DEF At, LifeInv, LifeType
  <1>6. \A m \in Nodes : (taken[m] \cup cache[m]) \cap ActiveMembers(n) = {}
    BY <1>2 DEF LifeInv, HeldIsOwn
  <1>7. HeldIsOwn'
    <2> SUFFICES ASSUME NEW m \in Nodes, NEW a \in taken'[m] \cup cache[m]
                 PROVE  attempt'[a].state = "live" /\ attempt'[a].node = m
      BY <1>1 DEF HeldIsOwn
    <2>1. CASE a \in taken[m] \cup cache[m]
      BY <1>3, <1>6, <2>1 DEF LifeInv, LifeType, HeldIsOwn
    <2>2. CASE m = n /\ a \in ActiveMembers(n) \ gone
      BY <1>3, <2>2
    <2> QED BY <1>5, <2>1, <2>2
  <1>8. SentOnce'
    BY <1>1, <1>5, <1>6 DEF LifeInv, SentOnce
  <1>9. \A a \in Rows : attempt'[a].state # "idle"
    BY <1>0, <1>2, <1>3
  <1> QED BY <1>1, <1>4, <1>7, <1>8, <1>9 DEF LifeInv, IdleHasNode, ReservedByTheLiving

(* CreateAttemptIfNotExists finds no attempt of the name. *)
LEMMA LifeCreate ==
    ASSUME LifeInv, NEW n \in Nodes, CreateAttempt(n)
    PROVE  LifeInv'
  <1>1. UNCHANGED <<attempt, app, reserved, kept>>
    BY DEF CreateAttempt
  <1>2. CASE UNCHANGED <<taken, input, cache, clash>>
    BY <1>1, <1>2 DEF LifeInv, LifeType, HeldIsOwn, SentOnce, IdleHasNode, ReservedByTheLiving
  <1>3. ASSUME NEW a \in taken[n],
               taken' = At(taken, n, taken[n] \ {a}), input' = At(input, n, a),
               cache' = At(cache, n, cache[n] \cup {a}), clash' = (clash \/ a \in cache[n])
        PROVE  LifeInv'
    <2>1. a \in Rows /\ a \notin cache[n]
      BY DEF LifeInv, LifeType, SentOnce
    <2>2. /\ taken'[n] = taken[n] \ {a} /\ cache'[n] = cache[n] \cup {a} /\ input'[n] = a
          /\ \A m \in Nodes \ {n} : taken'[m] = taken[m] /\ cache'[m] = cache[m] /\ input'[m] = input[m]
      BY <1>3 DEF At, LifeInv, LifeType
    <2>3. LifeType'
      BY <1>1, <1>3, <2>1 DEF At, LifeInv, LifeType
    <2>4. \A m \in Nodes : taken'[m] \cup cache'[m] = taken[m] \cup cache[m]
      BY <2>2
    <2>5. HeldIsOwn'
      BY <1>1, <2>4 DEF LifeInv, HeldIsOwn
    <2>6. SentOnce'
      BY <2>1, <2>2 DEF LifeInv, SentOnce
    <2>7. ~clash'
      BY Zenon, <1>3, <2>1 DEF LifeInv
    <2> QED BY <1>1, <2>3, <2>5, <2>6, <2>7 DEF LifeInv, IdleHasNode, ReservedByTheLiving
  <1> QED BY Zenon, <1>2, <1>3 DEF CreateAttempt

(* A flow that joins uses a row of its own. *)
LEMMA LifeJoin ==
    ASSUME LifeInv, NEW n \in Nodes, NEW a \in Rows, Join(n, a)
    PROVE  LifeInv'
  <1>1. /\ attempt'[a] = [state |-> "live", node |-> n]
        /\ \A b \in Rows \ {a} : attempt'[b] = attempt[b]
        /\ cache'[n] = cache[n] \cup {a}
        /\ \A m \in Nodes \ {n} : cache'[m] = cache[m]
        /\ attempt[a].state = "none"
    BY DEF At, Join, LifeInv, LifeType
  <1>2. LifeType'
    BY DEF At, Join, LifeInv, LifeType
  <1>3. UNCHANGED <<app, taken, input, reserved, kept, clash>>
    BY DEF Join
  <1>4. \A m \in Nodes : a \notin taken[m] \cup cache[m]
    BY <1>1 DEF LifeInv, HeldIsOwn
  <1>5. HeldIsOwn'
    <2> SUFFICES ASSUME NEW m \in Nodes, NEW b \in taken[m] \cup cache'[m]
                 PROVE  attempt'[b].state = "live" /\ attempt'[b].node = m
      BY <1>3 DEF HeldIsOwn
    <2>1. CASE b = a
      BY <1>1, <1>4, <2>1
    <2>2. CASE b # a
      BY <1>1, <2>2 DEF LifeInv, LifeType, HeldIsOwn
    <2> QED BY <2>1, <2>2
  <1>6. SentOnce'
    BY <1>1, <1>3, <1>4 DEF LifeInv, SentOnce
  <1>7. \A b \in Rows : attempt'[b].state = "idle" => attempt'[b] = attempt[b]
    BY <1>1
  <1> QED BY <1>2, <1>3, <1>5, <1>6, <1>7 DEF LifeInv, IdleHasNode, ReservedByTheLiving

(* What the loop of the manager does with an attempt it receives. *)
LEMMA LifeReceive ==
    ASSUME LifeInv, NEW n \in Nodes, Receive(n)
    PROVE  LifeInv'
  <1>1. input[n] \in cache[n] /\ input[n] \in Rows
    BY DEF Receive, LifeInv, LifeType, SentOnce
  <1>2. PICK closed \in SUBSET cache[n] :
            /\ cache' = At(cache, n, cache[n] \ closed)
            /\ attempt' \in [Rows -> [state : {"none", "idle", "live", "over"}, node : Nodes \cup {Nobody}]]
            /\ \A b \in closed : attempt'[b].state = "over"
            /\ \A b \in Rows \ closed : attempt'[b] = attempt[b]
    <2>1. CASE UNCHANGED <<cache, attempt>>
      <3>1. cache' = At(cache, n, cache[n] \ {})
        BY <2>1 DEF At, LifeInv, LifeType
      <3> QED BY Zenon, <2>1, <3>1, {} \in SUBSET cache[n] DEF LifeInv, LifeType
    <2>2. CASE /\ cache' = At(cache, n, cache[n] \ {input[n]})
               /\ attempt' = [attempt EXCEPT ![input[n]].state = "over"]
      <3>1. /\ attempt' \in [Rows -> [state : {"none", "idle", "live", "over"}, node : Nodes \cup {Nobody}]]
            /\ attempt'[input[n]].state = "over"
            /\ \A b \in Rows \ {input[n]} : attempt'[b] = attempt[b]
        BY <1>1, <2>2, OverType
      <3>2. {input[n]} \in SUBSET cache[n]
        BY <1>1
      <3> WITNESS {input[n]} \in SUBSET cache[n]
      <3> QED BY <2>2, <3>1
    <2> QED BY Zenon, <2>1, <2>2 DEF Receive
  <1>3. /\ app' = app \/ (app[n] # "down" /\ app' = At(app, n, "signal"))
        /\ input' = At(input, n, Nobody) \/ (input' = input /\ input[n] \notin closed)
        /\ UNCHANGED <<taken, reserved, kept, clash>>
    BY DEF Receive
  <1> QED BY <1>2, <1>3, LifeRowEnds

(* A distributed attempt that ends. *)
LEMMA LifeAttemptEnds ==
    ASSUME LifeInv, NEW n \in Nodes, NEW a \in Rows, AttemptEnds(n, a)
    PROVE  LifeInv'
  <1>1. /\ attempt' \in [Rows -> [state : {"none", "idle", "live", "over"}, node : Nodes \cup {Nobody}]]
        /\ attempt'[a].state = "over" /\ \A b \in Rows \ {a} : attempt'[b] = attempt[b]
    BY OverType DEF AttemptEnds
  <1>2. PICK closed \in SUBSET cache[n] : closed = {a}
    BY Zenon DEF AttemptEnds
  <1>3. /\ app' = app \/ (app[n] # "down" /\ app' = At(app, n, "signal"))
        /\ input' = At(input, n, Nobody) \/ (input' = input /\ input[n] \notin closed)
        /\ UNCHANGED <<taken, reserved, kept, clash>>
        /\ cache' = At(cache, n, cache[n] \ closed)
        /\ \A b \in closed : attempt'[b].state = "over"
        /\ \A b \in Rows \ closed : attempt'[b] = attempt[b]
    BY <1>1, <1>2 DEF AttemptEnds
  <1> QED BY <1>1, <1>3, LifeRowEnds

(* Shutdown closes what is in the cache. *)
LEMMA LifeWait ==
    ASSUME LifeInv, NEW n \in Nodes, WaitTimeout(n)
    PROVE  LifeInv'
  <1>1. PICK failing \in SUBSET cache[n] :
            LET closed == cache[n] \ (failing \cup {input[n]})
            IN /\ cache' = At(cache, n, cache[n] \ closed)
               /\ attempt' = [a \in Rows |-> IF a \in closed THEN [attempt[a] EXCEPT !.state = "over"]
                                             ELSE attempt[a]]
    BY Zenon DEF WaitTimeout
  <1> DEFINE closed == cache[n] \ (failing \cup {input[n]})
  <1>2. closed \in SUBSET cache[n] /\ input[n] \notin closed /\ closed \subseteq Rows
    BY DEF LifeInv, LifeType
  <1>3. \A a \in Rows : attempt'[a] = IF a \in closed THEN [attempt[a] EXCEPT !.state = "over"] ELSE attempt[a]
    BY <1>1
  <1>4. \A a \in Rows : attempt'[a] \in [state : {"none", "idle", "live", "over"}, node : Nodes \cup {Nobody}]
    <2> SUFFICES ASSUME NEW a \in Rows
                 PROVE  attempt'[a] \in [state : {"none", "idle", "live", "over"}, node : Nodes \cup {Nobody}]
      OBVIOUS
    <2>1. attempt[a] \in [state : {"none", "idle", "live", "over"}, node : Nodes \cup {Nobody}]
      BY DEF LifeInv, LifeType
    <2>2. attempt'[a] = [attempt[a] EXCEPT !.state = "over"] \/ attempt'[a] = attempt[a]
      BY <1>3
    <2> QED BY <2>1, <2>2
  <1>5. attempt' \in [Rows -> [state : {"none", "idle", "live", "over"}, node : Nodes \cup {Nobody}]]
    BY <1>1, <1>4
  <1>6. /\ \A a \in closed : attempt'[a].state = "over"
        /\ \A a \in Rows \ closed : attempt'[a] = attempt[a]
    BY Zenon, <1>2, <1>3 DEF LifeInv, LifeType
  <1>7. cache' = At(cache, n, cache[n] \ closed)
    BY <1>1
  <1>8. /\ app[n] # "down" /\ app' = At(app, n, "signal") /\ input' = input
        /\ UNCHANGED <<taken, reserved, kept, clash>>
    BY DEF WaitTimeout
  <1> HIDE DEF closed
  <1> QED BY <1>2, <1>5, <1>6, <1>7, <1>8, LifeRowEnds

(* Every step of a node keeps the invariant. *)
LEMMA LifeStep == LifeInv /\ [NodeNext]_nodeVars => LifeInv'
  <1> SUFFICES ASSUME LifeInv, [NodeNext]_nodeVars PROVE LifeInv'
    OBVIOUS
  <1>1. CASE UNCHANGED nodeVars
    BY <1>1 DEF nodeVars, LifeInv, LifeType, HeldIsOwn, SentOnce, IdleHasNode, ReservedByTheLiving
  <1>2. ASSUME NEW n \in Nodes,
               \/ EngineStart(n) \/ MainStep(n) \/ DispatcherStep(n) \/ Receive(n)
               \/ Connected(n) \/ Disconnected(n) \/ EngineStop(n) \/ Crash(n)
               \/ \E a \in Rows : ReserveMembers(n, a) \/ AttemptEnds(n, a) \/ Join(n, a)
        PROVE  LifeInv'
    <2>1. CASE EngineStart(n) \/ EngineStopped(n)
      <3>1. PICK p \in {"engine", "drain"} : app' = At(app, n, p)
        BY Zenon, <2>1 DEF EngineStart, EngineStopped
      <3>2. UnReserveMembers(n) /\ UNCHANGED <<taken, input, cache, reserved, clash>>
        BY Zenon, <2>1 DEF EngineStart, EngineStopped
      <3> QED BY <3>1, <3>2, LifeUnReserves
    <2>2. CASE DialingStart(n) \/ LoopStops(n) \/ EngineStop(n)
      BY Zenon, <2>2, LifeQuiet DEF DialingStart, LoopStops, EngineStop
    <2>3. CASE Connected(n) \/ Disconnected(n)
      <3>1. UNCHANGED <<attempt, app, taken, input, cache, reserved, kept, clash>>
        BY Zenon, <2>3 DEF Connected, Disconnected
      <3> QED BY <3>1 DEF LifeInv, LifeType, HeldIsOwn, SentOnce, IdleHasNode, ReservedByTheLiving
    <2>4. CASE DispatcherStops(n) \/ SendPanics(n) \/ Crash(n)
      BY <2>4, LifeEnds DEF DispatcherStops, SendPanics, Crash
    <2>5. CASE WaitTimeout(n)
      BY <2>5, LifeWait
    <2>6. CASE RouteIdleAttempts(n) \/ CreateAttempt(n)
      BY <2>6, LifeRoute, LifeCreate
    <2>7. CASE Receive(n)
      BY <2>7, LifeReceive
    <2>8. ASSUME NEW a \in Rows, ReserveMembers(n, a) \/ AttemptEnds(n, a) \/ Join(n, a)
          PROVE  LifeInv'
      BY <2>8, LifeReserve, LifeAttemptEnds, LifeJoin
    <2> QED BY <1>2, <2>1, <2>2, <2>3, <2>4, <2>5, <2>6, <2>7, <2>8 DEF MainStep, DispatcherStep
  <1> QED BY <1>1, <1>2 DEF NodeNext

(* The invariant holds of every behaviour of the nodes. *)
LEMMA LifeInvariant == NodeSpec => []LifeInv
  BY LifeInit, LifeStep, PTL DEF NodeSpec

(* The panic of CreateAttemptIfNotExists is never reached, with any number of nodes *)
(* that reserve, take, join, shut down, crash and start again.                       *)
THEOREM NoDuplicate == NodeSpec => []NoDuplicateAttempt
  <1>1. LifeInv => NoDuplicateAttempt
    BY DEF LifeInv, NoDuplicateAttempt
  <1> QED BY <1>1, LifeInvariant, PTL

(* An idle row belongs to the process that reserved it, or that node is down, or *)
(* UnReserveMembers failed on it.                                                *)
THEOREM ReservedCorrect == NodeSpec => []ReservedByTheLiving
  <1>1. LifeInv => ReservedByTheLiving
    BY DEF LifeInv
  <1> QED BY <1>1, LifeInvariant, PTL

(* No row is held by two processes. *)
THEOREM HeldByOneProcess == NodeSpec => []HeldByOne
  <1>1. LifeInv => HeldByOne
    BY DEF LifeInv, HeldIsOwn, HeldByOne
  <1> QED BY <1>1, LifeInvariant, PTL


==============================================================================
