----------------------------- MODULE RoomPoll -----------------------------
(***************************************************************************)
(* The factory's room and its readers.  The factory keeps the last         *)
(* messages (api/public.rs); an automaton polls its own at the end of the  *)
(* PollInbox job and keeps them as observations (scheduler.rs, stable.rs). *)
(* The factory answers with the room as it is then; the answer is applied  *)
(* later, after whatever other poll came back in between.                  *)
(***************************************************************************)
EXTENDS Naturals, FiniteSetsExt

CONSTANTS RoomKept,         \* MAX_ROOM_MESSAGES_RETAINED
          RoomPage,         \* ROOM_POLL_PAGE_LIMIT
          MaxObservations,  \* MAX_ROOM_OBSERVATIONS
          MaxRoom,          \* bound: messages posted
          MaxRoomPolls      \* bound: polls begun

ASSUME RoomAssumption ==
  /\ RoomKept \in Nat \ {0} /\ RoomPage \in Nat \ {0} /\ MaxObservations \in Nat \ {0}
  /\ MaxRoom \in Nat /\ MaxRoomPolls \in Nat

VARIABLES room,      \* next_seq, and the messages kept as [seq, mine]
          seen,      \* room_poll.last_seen_seq, 0 for none
          observed,  \* room_observations, by seq
          gone,      \* history: messages evicted at the factory, observations evicted here
          asking,    \* the two polls
          asked      \* history: polls begun

roomVars == <<room, seen, observed, gone, asking, asked>>

Quiet == [pc |-> "idle", after |-> 0, page |-> {}, last |-> 0]

RoomTypeOK ==
  /\ room.next \in 1 .. MaxRoom + 1 /\ room.kept \subseteq [seq : 1..MaxRoom, mine : BOOLEAN]
  /\ Cardinality(room.kept) <= RoomKept
  /\ seen \in 0..MaxRoom /\ gone \subseteq 1..MaxRoom /\ asked \in 0..MaxRoomPolls
  /\ observed \subseteq 1..MaxRoom /\ Cardinality(observed) <= MaxObservations
  /\ asking \in [1..2 -> [pc : {"idle", "asked", "answered"}, after : 0..MaxRoom,
                          page : SUBSET (1..MaxRoom), last : 0..MaxRoom]]

RoomInit ==
  /\ room = [next |-> 1, kept |-> {}] /\ seen = 0 /\ observed = {} /\ gone = {}
  /\ asking = [p \in 1..2 |-> Quiet] /\ asked = 0

(***************************************************************************)
(* The factory.                                                            *)
(***************************************************************************)
Oldest == CHOOSE m \in room.kept : \A n \in room.kept : m.seq <= n.seq

\* mine: without mentions, or with a mention of this automaton
PostRoomMessage(mine) ==
  LET full == Cardinality(room.kept) = RoomKept
      old  == IF full THEN {Oldest} ELSE {}
  IN  /\ room.next <= MaxRoom
      /\ room' = [next |-> room.next + 1,
                  kept |-> (room.kept \cup {[seq |-> room.next, mine |-> mine]}) \ old]
      /\ gone' = gone \cup {m.seq : m \in old}
      /\ UNCHANGED <<seen, observed, asking, asked>>

\* room_message_matches_target
ForMe(after) == {m \in room.kept : m.mine /\ m.seq > after}

\* read_room_page
PageAfter(after) ==
  {m.seq : m \in {m \in ForMe(after) : Cardinality({n \in ForMe(after) : n.seq < m.seq}) < RoomPage}}

(***************************************************************************)
(* The automaton.                                                          *)
(***************************************************************************)
\* A mutant of LastSeen: a page that is not the last one counts as the whole room.
LastSeenLatest(page, more, latest, was) == IF latest # 0 THEN latest ELSE was

LastSeen(page, more, latest, was) ==
  IF ~more /\ latest # 0 THEN latest ELSE IF page # {} THEN Max(page) ELSE was

\* store_room_observations: the newest ones are kept.
Newest(set) == {s \in set : Cardinality({r \in set : r > s}) < MaxObservations}

\* maybe_poll_factory_room, after the directory of peers and the payments (Counterparty).
AskRoom(p) ==
  /\ asking[p].pc = "idle" /\ asked < MaxRoomPolls
  /\ p = 2 => asking[1].pc # "idle"
  /\ asking' = [asking EXCEPT ![p] = [Quiet EXCEPT !.pc = "asked", !.after = seen]]
  /\ asked' = asked + 1
  /\ UNCHANGED <<room, seen, observed, gone>>

RoomAnswers(p) ==
  LET after == asking[p].after
      page  == PageAfter(after)
      more  == Cardinality(ForMe(after)) > RoomPage
  IN  /\ asking[p].pc = "asked"
      /\ asking' = [asking EXCEPT ![p].pc = "answered", ![p].page = page,
                                  ![p].last = LastSeen(page, more, room.next - 1, after)]
      /\ UNCHANGED <<room, seen, observed, gone, asked>>

\* record_room_poll_success
RoomReturns(p) ==
  LET all == observed \cup asking[p].page
  IN  /\ asking[p].pc = "answered"
      /\ observed' = Newest(all)
      /\ gone' = gone \cup (all \ Newest(all))
      /\ seen' = IF asking[p].last # 0 THEN asking[p].last ELSE seen
      /\ asking' = [asking EXCEPT ![p] = Quiet]
      /\ UNCHANGED <<room, asked>>

\* record_room_poll_error: nothing but the telemetry changes.
RoomPollFails(p) ==
  /\ asking[p].pc # "idle"
  /\ asking' = [asking EXCEPT ![p] = Quiet]
  /\ UNCHANGED <<room, seen, observed, gone, asked>>

RoomNext ==
  \/ \E mine \in BOOLEAN : PostRoomMessage(mine)
  \/ \E p \in 1..2 : AskRoom(p) \/ RoomAnswers(p) \/ RoomReturns(p) \/ RoomPollFails(p)

RoomSpec == RoomInit /\ [][RoomNext]_roomVars

\* A room message for this automaton is not passed over: once last_seen is past it, it is
\* observed, or was evicted for its age, whatever overlapping polls write over each other.
NoRoomMessagePassedOver ==
  \A m \in room.kept : m.mine /\ m.seq <= seen => m.seq \in observed \cup gone

=============================================================================
