----------------------------- MODULE EventStream -----------------------------
(***************************************************************************)
(* The panel's live feed (api/server.py _stream, api/stream.py              *)
(* authorized_events): one browser tails the ledger over a connection that  *)
(* may break, beside the agents of KnowledgeSpaces that write.              *)
(*                                                                          *)
(* A poll takes the records after its cursor, then asks of each, one by     *)
(* one and on the state of that moment, which object it concerns and        *)
(* whether the viewer may read it; then it writes the events that remain.   *)
(* What was written and not yet read by the browser is lost when the        *)
(* connection breaks; the browser resumes from the last event it has.       *)
(***************************************************************************)
EXTENDS KnowledgeSpaces, SequencesExt

CONSTANTS Viewer,    \* the agent that watches
          MaxBatch,  \* events of one poll (500 in the code)
          MaxDrops   \* bound on broken connections

ASSUME ViewerAssumption == Viewer \in Agent
ASSUME StreamBoundsAssumption == MaxBatch \in Nat \ {0} /\ MaxDrops \in Nat

(* An id tells what kind of object it names (new_id).                       *)
ASSUME IdsAssumption ==
  Obj \cap Space = {} /\ (Obj \cup Space) \cap (Space \X Agent) = {}

VARIABLES pc,        \* where the server's thread is
          since,     \* its cursor
          scan,      \* the records of this poll still to be looked at
          out,       \* the events of this poll still to be written
          wire,      \* written, not yet read by the browser
          received,  \* the event ids the browser has
          drops,     \* the last event the browser had at each break, 0 if none
          stable     \* records readable ever since a moment before the feed passed them

streamVars == <<pc, since, scan, out, wire, received, drops>>
vars == <<spaceVars, streamVars, stable>>

(* is_readable, of knowledge and of the spaces and grants themselves, which *)
(* are objects placed nowhere.                                              *)
MayRead(a, x) ==
  IF x \in Obj THEN CanRead(a, x)
  ELSE LET record == IF x \in Space THEN space[x] ELSE grant[x]
       IN  /\ record # Absent /\ SameTenant(a, record.owner)
           /\ IsAdmin(a) \/ record.owner = a

(* concerned_object_id finds the object in a payload by one of four keys;   *)
(* these two events name theirs by another.                                 *)
Concerns(r) == r.op \notin {"fact_superseded", "capability_revoked"}

Passes(r) ==
  /\ SameTenant(Viewer, r.actor)
  /\ Concerns(r)
  /\ MayRead(Viewer, r.about)
-----------------------------------------------------------------------------
StreamInit ==
  /\ Init
  /\ pc = "poll" /\ since = 0
  /\ scan = << >> /\ out = << >> /\ wire = << >> /\ received = << >>
  /\ drops = << >> /\ stable = {}

(* What a reconnection resumes from: EventSource sends Last-Event-ID.       *)
Resumed == IF received = << >> THEN 0 ELSE Last(received)

(* Records the feed has not passed: it has still to look at them, in this   *)
(* poll or in the next.                                                     *)
Ahead(i) ==
  /\ pc = "down" => i > Resumed
  /\ pc # "down" => i > since
  /\ scan # << >> => i >= Head(scan)
  /\ out # << >> => i > Last(out)

(* Stable are the records that are readable when they are committed, or     *)
(* become so before the feed has passed them, for as long as they stay so.  *)
RecordIsReadable(i) == MayRead(Viewer, ledger[i].about)

StillStable ==
  stable' = {i \in 1 .. Len(ledger') : (i \in stable \/ Ahead(i)) /\ RecordIsReadable(i)'}

Write == Next /\ StillStable /\ UNCHANGED streamVars

From(i) == [k \in 1 .. Len(ledger) - i |-> i + k]

(* read_events(since_seq = since): a snapshot.                              *)
Poll ==
  /\ pc = "poll" /\ since < Len(ledger)
  /\ scan' = From(since)
  /\ pc' = "filter"
  /\ UNCHANGED <<spaceVars, stable, since, out, wire, received, drops>>

Filter ==
  /\ pc = "filter" /\ scan # << >> /\ Len(out) < MaxBatch
  /\ out' = IF Passes(ledger[Head(scan)]) THEN Append(out, Head(scan)) ELSE out
  /\ scan' = Tail(scan)
  /\ UNCHANGED <<spaceVars, stable, pc, since, wire, received, drops>>

EndFilter ==
  /\ pc = "filter" /\ (scan = << >> \/ Len(out) = MaxBatch)
  /\ scan' = << >>
  /\ pc' = "send"
  /\ UNCHANGED <<spaceVars, stable, since, out, wire, received, drops>>

(* The cursor follows the events written, not the records looked at.        *)
Send ==
  /\ pc = "send" /\ out # << >>
  /\ since' = Head(out)
  /\ wire' = Append(wire, Head(out))
  /\ out' = Tail(out)
  /\ UNCHANGED <<spaceVars, stable, pc, scan, received, drops>>

(* Mutant: a finished batch moves the cursor to the end of the ledger.      *)
EndSendAtHead ==
  /\ pc = "send" /\ out = << >>
  /\ pc' = "poll" /\ since' = Len(ledger)
  /\ UNCHANGED <<spaceVars, stable, scan, out, wire, received, drops>>

EndSend ==
  /\ pc = "send" /\ out = << >>
  /\ pc' = "poll"
  /\ UNCHANGED <<spaceVars, stable, since, scan, out, wire, received, drops>>

Receive ==
  /\ wire # << >>
  /\ received' = Append(received, Head(wire))
  /\ wire' = Tail(wire)
  /\ UNCHANGED <<spaceVars, stable, pc, since, scan, out, drops>>

Drop ==
  /\ pc # "down" /\ Len(drops) < MaxDrops
  /\ pc' = "down" /\ drops' = Append(drops, Resumed)
  /\ scan' = << >> /\ out' = << >> /\ wire' = << >>
  /\ UNCHANGED <<spaceVars, stable, since, received>>

(* Mutants: the server keeps the cursor of the broken connection; the whole *)
(* ledger is sent again.                                                    *)
ReconnectAtCursor ==
  /\ pc = "down"
  /\ pc' = "poll"
  /\ UNCHANGED <<spaceVars, stable, since, scan, out, wire, received, drops>>

ReconnectFromStart ==
  /\ pc = "down"
  /\ since' = 0 /\ pc' = "poll"
  /\ UNCHANGED <<spaceVars, stable, scan, out, wire, received, drops>>

Reconnect ==
  /\ pc = "down"
  /\ since' = Resumed
  /\ pc' = "poll"
  /\ UNCHANGED <<spaceVars, stable, scan, out, wire, received, drops>>

Feed == \/ Poll \/ Filter \/ EndFilter \/ Send \/ EndSend \/ Receive \/ Reconnect

StreamNext == Write \/ Feed \/ Drop

StreamSpec == StreamInit /\ [][StreamNext]_vars

(* The server polls on a timer, the browser reads and reconnects by itself. *)
FairStreamSpec ==
  /\ StreamSpec
  /\ WF_vars(Poll) /\ WF_vars(Filter) /\ WF_vars(EndFilter)
  /\ WF_vars(Send) /\ WF_vars(EndSend) /\ WF_vars(Receive) /\ WF_vars(Reconnect)
-----------------------------------------------------------------------------
(* The browser gets events in ledger order and none twice, across breaks.   *)
InOrderOnce == \A i, j \in 1 .. Len(received) : i < j => received[i] < received[j]

(* No gap (ADR-031): an event the viewer can read, and could ever since     *)
(* some moment before the feed passed it, is never skipped, wherever a      *)
(* batch ends or a connection breaks, and however readability of the other  *)
(* events changes meanwhile.                                                *)
NoGap ==
  received # << >> =>
    \A i \in stable : i < Last(received) /\ Concerns(ledger[i]) =>
                        i \in ToSet(received)

(* ... and it does reach the browser, once connections stop breaking.       *)
StableIsDelivered ==
  \A i \in 1 .. MaxEvents :
    i \in stable /\ Concerns(ledger[i]) ~> i \in ToSet(received) \/ i \notin stable
-----------------------------------------------------------------------------
(* ADR-031 lines 23-25: the server resumes from Last-Event-ID, so that no   *)
(* authorized event is missed across a reconnect.  Between the event the    *)
(* browser resumed from and the last one it has, it then has every one it   *)
(* could read.                                                              *)
NoAuthorizedEventMissed ==
  received # << >> =>
    \A resumedFrom \in ToSet(drops) \ {0} :
      \A i \in stable : resumedFrom < i /\ i < Last(received) => i \in ToSet(received)
=============================================================================
