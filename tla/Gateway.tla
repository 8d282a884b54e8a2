------------------------------ MODULE Gateway ------------------------------
(***************************************************************************)
(* The gateway half of voiceagent-saas/server.js: the two registries of    *)
(* calls (callsBySipId) and of channels (channelToCall), the ARI event     *)
(* handler, initiateCall, handleInboundCall, the cleanup of Asterisk       *)
(* resources and the media socket's entry points.                          *)
(*                                                                         *)
(* A call record is an immutable-looking object: markCall copies the       *)
(* object its caller holds, overlays the new status and stores the copy.   *)
(* A handler that awaits a request between reading and marking therefore   *)
(* writes back an old record.  `holds` is the set of objects such handlers *)
(* hold; `cur` says that the object is still the one in the registry, in   *)
(* which case attachChannel, the one function that assigns to a field of   *)
(* the stored object, changes the held object too.                         *)
(*                                                                         *)
(* A customer channel here is a Voicenter channel, a media channel an      *)
(* externalMedia one.  Asterisk is external: what it does with a request   *)
(* and the events it sends are the actions of its section.  The code       *)
(* between two requests runs alone, so it is one step.                     *)
(***************************************************************************)
EXTENDS Integers, Sequences, FiniteSets

CONSTANTS
  Out,        \* calls the worker dials
  In,         \* call objects for callers who ring in
  Shows,      \* Shows[ch]: the calls whose number a channel's payload shows
  Connects,   \* the calls whose media channel Asterisk brings up
  EndEvents,  \* call-ending events a customer channel sends as it goes
  MaxEvents,  \* events on their way at a time
  MaxAdds,    \* addChannel requests unanswered at a time
  MaxTrouble, \* endings that somebody starts and faults, together
  None

Calls    == Out \cup In
Customer(c) == <<c, "customer">>
Media(c)    == <<c, "media">>
Customers   == {Customer(c) : c \in Calls}
Channels    == Customers \cup {Media(c) : c \in Calls}

ASSUME GatewayAssumption ==
  /\ Out \cap In = {}
  /\ Shows \in [Customers -> SUBSET Calls]
  /\ Connects \subseteq Calls
  /\ EndEvents \in Nat \ {0}
  /\ MaxEvents \in Nat \ {0, 1}
  /\ MaxAdds \in Nat \ {0}
  /\ MaxTrouble \in Nat
  /\ None \notin Calls \cup Channels

VARIABLES
  rec,      \* callsBySipId
  order,    \* the insertion order of callsBySipId
  chan,     \* channelToCall
  holds,    \* the call objects held across an await
  sweeps,   \* the running cleanupAsteriskResources calls
  dial,     \* where each initiateCall is
  inb,      \* where each handleInboundCall is, and its channel
  sockets,  \* the media socket of each call
  ast,      \* Asterisk: the channels
  mixing,   \* Asterisk: the mixing bridges
  events,   \* Asterisk's events on their way
  online,   \* the event socket is open
  trouble,  \* endings that somebody started and faults, so far
  left      \* history: customer channels the gateway let go of while alive

gatewayVars ==
  <<rec, order, chan, holds, sweeps, dial, inb, sockets, ast, mixing, events,
    online, trouble, left>>

pbx     == <<ast, mixing, events, online>>
tasks   == <<dial, inb, sockets>>

----------------------------------------------------------------------------
(* Records and the two registries                                          *)

Statuses == {"creating", "dialing", "ringing", "connected", "media_connected",
             "bridge_failed", "failed", "ended"}

Record == [status: Statuses, cust: Customers \cup {None},
           pend: Customers \cup {None}, custIn: BOOLEAN]

ASSUME NoneIsNoRecord == None \notin Record

NewCall(status, cust, pend) ==
  [status |-> status, cust |-> cust, pend |-> pend, custIn |-> FALSE]

\* The channels that Asterisk still has.
Alive(ch) == ast[ch] \in {"ringing", "up"}

\* The objects handlers hold once call c is stored again, its object having
\* been given the customer channel ch (None: not changed) just before.
Outdated(c, ch) ==
  {IF h.call # c THEN h
   ELSE [h EXCEPT !.cur  = FALSE,
                  !.snap.cust = IF h.cur /\ ch # None THEN ch ELSE @] :
     h \in holds}

\* markCall, attachMedia and detachMedia: a new object takes the entry.
Store(c, r) ==
  /\ rec' = [rec EXCEPT ![c] = r]
  /\ holds' = Outdated(c, None)

\* The first call, in order of insertion, that a channel may belong to.
MayOwn(c, ch) ==
  /\ rec[c].status \notin {"failed", "ended"}
  /\ \/ ch \in {rec[c].cust, rec[c].pend}
     \/ c \in Shows[ch]

CallForCustomerChannel(ch) ==
  LET able == {k \in DOMAIN order : MayOwn(order[k], ch)}
  IN IF able = {} THEN None
     ELSE order[CHOOSE k \in able : \A j \in able : k <= j]

\* The call an event is about; a media channel is found only by its id.
CallOf(ch) ==
  IF chan[ch] # None THEN chan[ch]
  ELSE IF ch \in Customers THEN CallForCustomerChannel(ch) ELSE None

----------------------------------------------------------------------------
(* The end of a call                                                       *)

\* SweepOf of the media channel alone.
SweepOfMedia(c, r) ==
  [call |-> c, sent |-> FALSE, todo |-> <<Media(c)>>]

\* cleanupAsteriskResources takes the channels the record names, in order.
SweepOf(c, r) ==
  [call |-> c, sent |-> FALSE,
   todo |-> IF r.cust = None THEN <<Media(c)>> ELSE <<r.cust, Media(c)>>]

\* A sweep forgets the customer channels mapped to its call that its record
\* does not name.
Forgotten(c, r) == {ch \in Customers : chan[ch] = c /\ ch # r.cust}

StoreAndSweep(c, r) ==
  /\ rec' = [rec EXCEPT ![c] = r]
  /\ sweeps' = sweeps \cup {SweepOf(c, r)}
  /\ left' = left \cup Forgotten(c, r)

EndsCall(c) ==
  IF rec[c] = None \/ rec[c].status = "ended"
  THEN UNCHANGED <<rec, holds, sweeps, left>>
  ELSE /\ StoreAndSweep(c, [rec[c] EXCEPT !.status = "ended"])
       /\ holds' = Outdated(c, None)

FailCall(c) ==
  IF rec[c] = None \/ rec[c].status \in {"failed", "ended"}
  THEN UNCHANGED <<rec, holds, sweeps, left>>
  ELSE /\ StoreAndSweep(c, [rec[c] EXCEPT !.status = "bridge_failed"])
       /\ holds' = Outdated(c, None)

Trouble == trouble < MaxTrouble /\ trouble' = trouble + 1

\* DELETE /calls/:sipCallId
DeleteCall(c) ==
  /\ rec[c] # None
  /\ rec[c].status # "ended"
  /\ Trouble
  /\ EndsCall(c)
  /\ UNCHANGED <<order, chan, tasks, pbx>>

----------------------------------------------------------------------------
(* Asterisk (external)                                                     *)

\* Events reach the code while the socket is open, in order; others are lost.
Emit(es) ==
  /\ Len(events \o es) <= MaxEvents
  /\ events' = IF online THEN events \o es ELSE events

Event(type, ch) == [type |-> type, ch |-> ch]

\* The channels whose events this step loses.
About(es) == {es[k].ch : k \in DOMAIN es} \cap Customers
Lost(es)  == IF online THEN {} ELSE About(es)

\* A channel that goes sends up to three call-ending events
\* (ChannelHangupRequest, StasisEnd, ChannelDestroyed), which the handler
\* treats alike; a media channel's are told by one.
Ends(ch) ==
  [k \in 1..(IF ch \in Customers THEN EndEvents ELSE 1) |-> Event("end", ch)]

\* A dialled channel enters the application once it is answered.
PicksUp(ch) ==
  LET es == <<Event("Up", ch), Event("StasisStart", ch)>> IN
  /\ ast[ch] = "ringing"
  /\ \E o \in Out : ch = Customer(o)
  /\ ast' = [ast EXCEPT ![ch] = "up"]
  /\ Emit(es)
  /\ left' = left \cup Lost(es)
  /\ UNCHANGED <<rec, order, chan, holds, sweeps, tasks, mixing, online, trouble>>

HangsUp(ch) ==
  /\ Alive(ch)
  /\ Trouble
  /\ ast' = [ast EXCEPT ![ch] = "gone"]
  /\ Emit(Ends(ch))
  /\ UNCHANGED <<rec, order, chan, holds, sweeps, tasks, mixing, online, left>>

CallerRings(i) ==
  LET ch == Customer(i) IN
  /\ ast[ch] = "none"
  /\ ast' = [ast EXCEPT ![ch] = "ringing"]
  /\ Emit(<<Event("StasisStart", ch)>>)
  /\ left' = left \cup Lost(<<Event("StasisStart", ch)>>)
  /\ UNCHANGED <<rec, order, chan, holds, sweeps, tasks, mixing, online, trouble>>

MediaComesUp(c) ==
  IF c \in Connects
  THEN /\ ast' = [ast EXCEPT ![Media(c)] = "up"]
       /\ Emit(<<Event("StasisStart", Media(c))>>)
  ELSE UNCHANGED <<ast, events>>

\* The event socket closes with what it had not delivered, and is opened
\* again by the reconnect timer.
SocketCloses ==
  /\ online
  /\ Trouble
  /\ online' = FALSE
  /\ events' = <<>>
  /\ left' = left \cup About(events)
  /\ UNCHANGED <<rec, order, chan, holds, sweeps, tasks, ast, mixing>>

Reconnects ==
  /\ ~online
  /\ online' = TRUE
  /\ UNCHANGED <<rec, order, chan, holds, sweeps, tasks, ast, mixing, events,
                 trouble, left>>

----------------------------------------------------------------------------
(* Channels and bridges of a call                                          *)

\* addChannelToBridge up to its request: the handler holds object r of call
\* c, and a flag tells whether it is that record's customer. The flag of the
\* media channel, which enters the application once, is never read again.
IsCustomer(r, ch) == ch = r.cust

AddOf(c, r, ch) ==
  IF IsCustomer(r, ch) /\ r.custIn THEN {}
  ELSE {[who |-> "add", call |-> c, ch |-> ch, mine |-> IsCustomer(r, ch),
         snap |-> r, cur |-> TRUE]}

\* The answer to POST /bridges/:id/addChannel. On success the held object,
\* however old, is stored with its flag; a refusal is only logged.
AddAnswered(h) ==
  LET joins == mixing[h.call] = "up" /\ Alive(h.ch)
      r == [h.snap EXCEPT !.custIn = @ \/ h.mine]
  IN /\ h \in holds
     /\ h.who = "add"
     /\ rec' = IF joins THEN [rec EXCEPT ![h.call] = r] ELSE rec
     /\ holds' = (IF joins THEN Outdated(h.call, None) ELSE holds)
                   \ {h, [h EXCEPT !.cur = FALSE]}
     /\ left' = IF joins /\ r.status \in {"failed", "ended"}
                THEN left \cup {ch \in Customers : chan[ch] = h.call} ELSE left
     /\ UNCHANGED <<order, chan, sweeps, tasks, pbx, trouble>>

\* attachChannel and the markCall after it: the channel takes the place of
\* the one the record has.
WithCustomer(c, ch) == [rec[c] EXCEPT !.cust = ch, !.pend = None]

AttachCustomer(c, ch) ==
  LET old == rec[c].cust
      out == IF old \in {None, ch} THEN {} ELSE {old}
  IN /\ chan' = [x \in Channels |->
                   IF x = ch THEN c ELSE IF x \in out THEN None ELSE chan[x]]
     /\ left' = left \cup out

----------------------------------------------------------------------------
(* The ARI event handler                                                   *)

InFlight == {inb[i].ch : i \in {j \in In : inb[j].stage \notin {"none", "live", "over"}}}

\* A channel no call claims is an inbound caller. In bounds the call objects:
\* a channel that finds none is let go.
StartsInbound(ch) ==
  LET free == {i \in In : inb[i].stage = "none"} IN
  /\ IF ch \in InFlight THEN UNCHANGED <<inb, left>>
     ELSE IF free = {} THEN left' = left \cup {ch} /\ UNCHANGED inb
     ELSE /\ \E i \in free :
               inb' = [inb EXCEPT ![i] = [stage |-> "route", ch |-> ch]]
          /\ UNCHANGED left
  /\ UNCHANGED <<rec, holds, chan, sweeps>>

OnStasisStart(ch) ==
  LET c == CallOf(ch) IN
  \/ /\ c = None
     /\ ch \in Customers
     /\ StartsInbound(ch)
  \/ /\ c = None
     /\ ch \notin Customers
     /\ UNCHANGED <<rec, holds, chan, sweeps, inb, left>>
  \/ /\ c # None
     /\ ch \notin Customers
     /\ holds' = holds \cup AddOf(c, rec[c], ch)
     /\ UNCHANGED <<rec, chan, sweeps, inb, left>>
  \/ /\ c # None
     /\ ch \in Customers
     /\ rec' = [rec EXCEPT ![c] = WithCustomer(c, ch)]
     /\ AttachCustomer(c, ch)
     /\ holds' = Outdated(c, ch) \cup AddOf(c, WithCustomer(c, ch), ch)
     /\ UNCHANGED <<sweeps, inb>>

\* Neither status is tested: the event may bring an ended call back.
OnStateChange(ch, status) ==
  LET c == CallOf(ch) IN
  /\ IF c = None THEN UNCHANGED <<rec, holds, chan, left>>
     ELSE IF rec[c].cust = ch
     THEN /\ Store(c, [rec[c] EXCEPT !.status = status])
          /\ UNCHANGED <<chan, left>>
     ELSE /\ rec' = [rec EXCEPT ![c] = [WithCustomer(c, ch) EXCEPT !.status = status]]
          /\ AttachCustomer(c, ch)
          /\ holds' = Outdated(c, ch)
  /\ UNCHANGED <<sweeps, inb>>


OnEnd(ch) ==
  /\ IF CallOf(ch) = None THEN UNCHANGED <<rec, holds, sweeps, left>>
     ELSE EndsCall(CallOf(ch))
  /\ UNCHANGED <<chan, inb>>

Deliver ==
  LET e == Head(events) IN
  /\ events # <<>>
  /\ Cardinality({h \in holds : h.who = "add"}) < MaxAdds
  /\ events' = Tail(events)
  /\ \/ e.type = "StasisStart" /\ OnStasisStart(e.ch)
     \/ e.type = "Ringing" /\ OnStateChange(e.ch, "ringing")
     \/ e.type = "Up" /\ OnStateChange(e.ch, "connected")
     \/ e.type = "end" /\ OnEnd(e.ch)
  /\ UNCHANGED <<order, dial, sockets, ast, mixing, online, trouble>>

----------------------------------------------------------------------------
(* cleanupAsteriskResources                                                *)

\* One DELETE /channels: what Asterisk does with it, or its failure.
SweepAsks(s) ==
  LET ch == Head(s.todo) IN
  /\ s \in sweeps
  /\ ~s.sent
  /\ \/ /\ IF Alive(ch)
           THEN ast' = [ast EXCEPT ![ch] = "gone"] /\ Emit(Ends(ch))
           ELSE UNCHANGED <<ast, events>>
        /\ UNCHANGED <<trouble, left>>
     \/ /\ Trouble
        /\ left' = left \cup ({ch} \cap Customers)
        /\ UNCHANGED <<ast, events>>
  /\ sweeps' = (sweeps \ {s}) \cup {[s EXCEPT !.sent = TRUE]}
  /\ UNCHANGED <<rec, order, chan, holds, tasks, mixing, online>>

\* Its answer, whatever it was: the channel is unmapped; after the last one
\* the mixing bridge goes.
SweepAnswered(s) ==
  LET ch == Head(s.todo) IN
  /\ s \in sweeps
  /\ s.sent
  /\ chan' = [chan EXCEPT ![ch] = None]
  /\ IF Len(s.todo) = 1
     THEN /\ sweeps' = sweeps \ {s}
          /\ mixing' = [mixing EXCEPT ![s.call] =
                           IF @ = "up" THEN "gone" ELSE @]
     ELSE /\ sweeps' = (sweeps \ {s}) \cup
                         {[s EXCEPT !.sent = FALSE, !.todo = Tail(@)]}
          /\ UNCHANGED mixing
  /\ UNCHANGED <<rec, order, holds, tasks, ast, events, online, trouble, left>>

----------------------------------------------------------------------------
(* initiateCall                                                            *)

HoldOf(who, c) == CHOOSE h \in holds : h.who = who /\ h.call = c

\* The record, the two registries, and the channels mapped ahead.
Dials(o) ==
  LET r == NewCall("creating", None, Customer(o)) IN
  /\ dial[o] = "none"
  /\ dial' = [dial EXCEPT ![o] = "bridge"]
  /\ rec' = [rec EXCEPT ![o] = r]
  /\ order' = Append(order, o)
  /\ chan' = [chan EXCEPT ![Media(o)] = o, ![Customer(o)] = o]
  /\ holds' = holds \cup {[who |-> "dial", call |-> o, ch |-> Customer(o),
                           mine |-> TRUE, snap |-> r, cur |-> TRUE]}
  /\ UNCHANGED <<sweeps, inb, sockets, pbx, trouble, left>>

\* POST /bridges and POST /channels/externalMedia.
DialsMedia(o) ==
  /\ dial[o] = "bridge"
  /\ dial' = [dial EXCEPT ![o] = "customer"]
  /\ mixing' = [mixing EXCEPT ![o] = "up"]
  /\ MediaComesUp(o)
  /\ UNCHANGED <<rec, order, chan, holds, sweeps, inb, sockets, online, trouble, left>>

\* Asterisk rings the customer before the answer to POST /channels is read.
DialsCustomer(o) ==
  /\ dial[o] = "customer"
  /\ dial' = [dial EXCEPT ![o] = "answer"]
  /\ ast' = [ast EXCEPT ![Customer(o)] = "ringing"]
  /\ Emit(<<Event("Ringing", Customer(o))>>)
  /\ left' = left \cup Lost(<<Event("Ringing", Customer(o))>>)
  /\ UNCHANGED <<rec, order, chan, holds, sweeps, inb, sockets, mixing, online,
                 trouble>>

\* Both markCalls take the object initiateCall made, not the stored one.
Dialled(o) ==
  LET h == HoldOf("dial", o) IN
  /\ dial[o] = "answer"
  /\ dial' = [dial EXCEPT ![o] = "over"]
  /\ rec' = [rec EXCEPT ![o] = [h.snap EXCEPT !.status = "dialing"]]
  /\ holds' = {g \in Outdated(o, None) : ~(g.who = "dial" /\ g.call = o)}
  /\ UNCHANGED <<order, chan, sweeps, inb, sockets, pbx, trouble, left>>


InitiateFails(o) ==
  LET h == HoldOf("dial", o) IN
  /\ dial[o] \in {"bridge", "customer", "answer"}
  /\ Trouble
  /\ dial' = [dial EXCEPT ![o] = "over"]
  /\ StoreAndSweep(o, [h.snap EXCEPT !.status = "failed"])
  /\ holds' = {g \in Outdated(o, None) : ~(g.who = "dial" /\ g.call = o)}
  /\ UNCHANGED <<order, chan, inb, sockets, pbx>>

----------------------------------------------------------------------------
(* handleInboundCall                                                       *)

InboundMoves(i, from, to) ==
  /\ inb[i].stage = from
  /\ inb' = [inb EXCEPT ![i].stage = to]

\* DELETE of the caller's channel, tried once.
DropsCaller(ch) ==
  \/ /\ IF Alive(ch)
        THEN ast' = [ast EXCEPT ![ch] = "gone"] /\ Emit(Ends(ch))
        ELSE UNCHANGED <<ast, events>>
     /\ UNCHANGED left
  \/ /\ left' = left \cup {ch}
     /\ UNCHANGED <<ast, events>>

\* No route, no campaign, or a campaign that is not ready.
InboundRejected(i) ==
  /\ InboundMoves(i, "route", "over")
  /\ DropsCaller(inb[i].ch)
  /\ UNCHANGED <<rec, order, chan, holds, sweeps, dial, sockets, mixing, online,
                 trouble>>

\* A route, a contact and a campaign are found and the channel is answered.
InboundAnswered(i) ==
  LET ch == inb[i].ch IN
  \/ /\ InboundMoves(i, "route", "row")
     /\ Alive(ch)
     /\ ast' = [ast EXCEPT ![ch] = "up"]
     /\ Emit(IF ast[ch] = "up" THEN <<>> ELSE <<Event("Up", ch)>>)
     /\ UNCHANGED <<rec, order, chan, holds, sweeps, dial, sockets, mixing, online,
                    trouble, left>>
  \/ /\ InboundMoves(i, "route", "over")
     /\ IF Alive(ch) THEN Trouble /\ left' = left \cup {ch}
        ELSE UNCHANGED <<trouble, left>>
     /\ UNCHANGED <<rec, order, chan, holds, sweeps, dial, sockets, pbx>>

\* The calls row is there: bridge, record and both registries at once.
InboundRegistered(i) ==
  LET ch == inb[i].ch
      r  == NewCall("connected", ch, None)
  IN /\ InboundMoves(i, "row", "bridge")
     /\ rec' = [rec EXCEPT ![i] = r]
     /\ order' = Append(order, i)
     /\ chan' = [chan EXCEPT ![ch] = i, ![Media(i)] = i]
     /\ holds' = holds \cup {[who |-> "inbound", call |-> i, ch |-> ch,
                              mine |-> TRUE, snap |-> r, cur |-> TRUE]}
     /\ UNCHANGED <<sweeps, dial, sockets, pbx, trouble, left>>

InboundMedia(i) ==
  /\ InboundMoves(i, "bridge", "add")
  /\ mixing' = [mixing EXCEPT ![i] = "up"]
  /\ MediaComesUp(i)
  /\ UNCHANGED <<rec, order, chan, holds, sweeps, dial, sockets, online, trouble, left>>

\* addChannelToBridge with the object handleInboundCall made.
InboundAdds(i) ==
  LET h == HoldOf("inbound", i)
      joins == mixing[i] = "up" /\ Alive(h.ch)
  IN /\ InboundMoves(i, "add", "live")
     /\ IF joins THEN Store(i, [h.snap EXCEPT !.custIn = IsCustomer(h.snap, h.ch)])
        ELSE UNCHANGED <<rec, holds>>
     /\ UNCHANGED <<order, chan, sweeps, dial, sockets, pbx, trouble, left>>

\* The caller is dropped; bridge, record and media channel stay.
InboundFails(i) ==
  /\ inb[i].stage \in {"row", "bridge"}
  /\ Trouble
  /\ inb' = [inb EXCEPT ![i].stage = "over"]
  /\ DropsCaller(inb[i].ch)
  /\ holds' = {h \in holds : ~(h.who = "inbound" /\ h.call = i)}
  /\ UNCHANGED <<rec, order, chan, sweeps, dial, sockets, mixing, online>>

\* finalizeInboundBridge: only its failure path cleans up, and it takes the
\* channels from the object handleInboundCall made.
InboundFinalized(i) ==
  LET h == HoldOf("inbound", i) IN
  /\ InboundMoves(i, "live", "over")
  /\ holds' = holds \ {h}
  /\ \/ UNCHANGED <<sweeps, trouble, left>>
     \/ /\ Trouble
        /\ sweeps' = sweeps \cup {SweepOf(i, h.snap)}
        /\ left' = left \cup Forgotten(i, h.snap)
  /\ UNCHANGED <<rec, order, chan, dial, sockets, pbx>>

----------------------------------------------------------------------------
(* The media socket                                                        *)

\* Its opening, and MEDIA_START, the first message; the status is not tested.
MediaStarts(c) ==
  /\ sockets[c] = "none"
  /\ rec[c] # None
  /\ ast[Media(c)] = "up"
  /\ sockets' = [sockets EXCEPT ![c] = "started"]
  /\ Store(c, [rec[c] EXCEPT !.status = "media_connected"])
  /\ UNCHANGED <<order, chan, sweeps, dial, inb, pbx, trouble, left>>

\* Either side closes it; Asterisk hangs up the channel of a closed socket.
MediaCloses(c) ==
  /\ sockets[c] = "started"
  /\ IF Alive(Media(c)) THEN Trouble ELSE UNCHANGED trouble
  /\ sockets' = [sockets EXCEPT ![c] = "closed"]
  /\ IF rec[c].status = "ended"
     THEN Store(c, rec[c]) /\ UNCHANGED <<sweeps, left>>
     ELSE EndsCall(c)
  /\ IF Alive(Media(c))
     THEN ast' = [ast EXCEPT ![Media(c)] = "gone"] /\ Emit(Ends(Media(c)))
     ELSE UNCHANGED <<ast, events>>
  /\ UNCHANGED <<order, chan, dial, inb, mixing, online>>

MediaErrs(c) ==
  /\ sockets[c] = "started"
  /\ Trouble
  /\ FailCall(c)
  /\ UNCHANGED <<order, chan, tasks, pbx>>

----------------------------------------------------------------------------
GatewayInit ==
  /\ rec = [c \in Calls |-> None]
  /\ order = <<>>
  /\ chan = [ch \in Channels |-> None]
  /\ holds = {}
  /\ sweeps = {}
  /\ dial = [o \in Out |-> "none"]
  /\ inb = [i \in In |-> [stage |-> "none", ch |-> None]]
  /\ sockets = [c \in Calls |-> "none"]
  /\ ast = [ch \in Channels |-> "none"]
  /\ mixing = [c \in Calls |-> "none"]
  /\ events = <<>>
  /\ online = TRUE
  /\ trouble = 0
  /\ left = {}

PbxStep ==
  \/ \E ch \in Customers : PicksUp(ch) \/ HangsUp(ch)
  \/ \E i \in In : CallerRings(i)
  \/ SocketCloses
  \/ Reconnects

DialStep(o) ==
  \/ Dials(o)
  \/ DialsMedia(o)
  \/ DialsCustomer(o)
  \/ Dialled(o)
  \/ InitiateFails(o)

InboundStep(i) ==
  \/ InboundRejected(i)
  \/ InboundAnswered(i)
  \/ InboundRegistered(i)
  \/ InboundMedia(i)
  \/ InboundAdds(i)
  \/ InboundFails(i)
  \/ InboundFinalized(i)

MediaStep(c) ==
  \/ MediaStarts(c)
  \/ MediaCloses(c)
  \/ MediaErrs(c)

GatewayNext ==
  \/ PbxStep
  \/ Deliver
  \/ \E o \in Out : DialStep(o)
  \/ \E i \in In : InboundStep(i)
  \/ \E c \in Calls : MediaStep(c) \/ DeleteCall(c)
  \/ \E h \in holds : AddAnswered(h)
  \/ \E s \in sweeps : SweepAsks(s) \/ SweepAnswered(s)

GatewaySpec == GatewayInit /\ [][GatewayNext]_gatewayVars

----------------------------------------------------------------------------
(* Properties                                                              *)

Hold == [who: {"dial", "inbound", "add"}, call: Calls, ch: Channels,
         mine: BOOLEAN, snap: Record, cur: BOOLEAN]

\* Each registry, task and resource keeps to its kind of value, and an object
\* held across a request as the stored one is the stored one.
RegistriesOK ==
  /\ rec \in [Calls -> Record \cup {None}]
  /\ chan \in [Channels -> Calls \cup {None}]
  /\ \A h \in holds : h \in Hold /\ (h.cur => h.snap = rec[h.call])
  /\ \A s \in sweeps : s.call \in Calls /\ s.todo # <<>>
  /\ ast \in [Channels -> {"none", "ringing", "up", "gone"}]
  /\ left \subseteq Customers
  /\ trouble \in 0..MaxTrouble

\* No handler is between two requests and no event is on its way.
Quiet ==
  /\ \A h \in holds : h.who = "inbound" /\ inb[h.call].stage = "live"
  /\ sweeps = {}
  /\ InFlight = {}
  /\ events = <<>>

\* When nothing is under way, a customer's channel that Asterisk still has
\* either is in the registry under a call that has not ended, or is one the
\* gateway knowingly let go of: replaced by another channel, unknown to the
\* record when its call was cleaned up, a refused request, a lost event or
\* a caller beyond the bound (server.js:332-344, 406-415).
NoStrayChannel ==
  Quiet => \A ch \in Customers \ left :
             Alive(ch) =>
               /\ chan[ch] # None
               /\ rec[chan[ch]].status \notin {"failed", "ended"}

\* The types, and what is said of channels.
ChannelsSafe == RegistriesOK /\ NoStrayChannel
=============================================================================
