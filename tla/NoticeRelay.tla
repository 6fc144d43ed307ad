---------------------------- MODULE NoticeRelay ----------------------------
(***************************************************************************)
(* The relay that turns the notices into banners on the game servers.      *)
(* Every fifteen seconds it reads what is shown and its state file, sends  *)
(* each notice to each server that does not have it yet, and writes the    *)
(* file after each notice.  It may be killed at any point, an RCON answer  *)
(* may be lost, and the file keeps the last KeepNotices records only.      *)
(*                                                                         *)
(* A server that sleeps and one without a player to show the banner to are *)
(* skipped alike, so a server is only the set of members who play on it.   *)
(* Names stand for their members; a text or a name the relay refuses, and  *)
(* a table it cannot read, send nothing and are left out.                  *)
(***************************************************************************)
EXTENDS Notices, SequencesExt

CONSTANTS
  Server,
  Nowhere,      \* a member who plays on no server
  Seats,        \* where the members play when the relay starts
  KeepNotices,  \* KEEP_NOTICES
  MaxFaults,    \* bound of the model: kills and RCON answers lost
  MaxMoves      \* bound of the model: members coming to a server or leaving one

ASSUME RelayAssumption ==
  /\ KeepNotices \in Nat \ {0} /\ MaxFaults \in Nat /\ MaxMoves \in Nat
  /\ Nowhere \notin Server /\ Seats \in [User -> Server \cup {Nowhere}]

VARIABLES
  fresh,    \* the notices less than MAX_AGE_MS old
  playing,  \* where each member plays
  file,     \* state.notices on disk, oldest record first
  relay,    \* the relay's tick: what it read, its records, where it stands
  banner,   \* how often a notice was shown on a server
  excused,  \* where a kill, a lost answer or an evicted record hid a banner sent
  unsent,   \* where a closing connection passed for a delivery
  faults, moves

relayVars == <<fresh, playing, file, relay, banner, excused, unsent, faults, moves>>
vars == <<memberVars, tableVars, screenVars, relayVars>>

Place == (1..MaxNotices) \X Server
Record == [id : 1..MaxNotices, units : SUBSET Server, stale : BOOLEAN]
Off == [at |-> "off"]
Asleep == [at |-> "sleep"]

TypeOK ==
  /\ MemberTypeOK /\ TableTypeOK /\ ScreenTypeOK
  /\ fresh \subseteq Rows
  /\ playing \in [User -> Server \cup {Nowhere}]
  /\ file \in Seq(Record) /\ Len(file) <= KeepNotices
  /\ \/ relay \in {Off, Asleep}
     \/ /\ relay.at \in {"next", "send"}
        /\ relay.queue \in Seq(Rows) /\ relay.records \in Seq(Record)
        /\ relay.todo \subseteq Server /\ relay.changed \in BOOLEAN
  /\ banner \in [Place -> 0..2]
  /\ excused \subseteq Place /\ unsent \subseteq Place
  /\ faults \in 0..MaxFaults /\ moves \in 0..MaxMoves

Init ==
  /\ MemberInit /\ TableInit /\ ScreenInit
  /\ fresh = {} /\ file = <<>> /\ relay = Off
  /\ playing = [u \in User |-> Nowhere]
  /\ banner = [p \in Place |-> 0]
  /\ excused = {} /\ unsent = {} /\ faults = 0 /\ moves = 0

-----------------------------------------------------------------------------
\* Who would see the banner of notice n on server s.
Players(n, s) == {u \in User : playing[u] = s /\ notice[n] \in {u, Everyone}}

Has(records, n) == \E i \in DOMAIN records : records[i].id = n
Units(records, n) ==
  UNION {records[i].units : i \in {j \in DOMAIN records : records[j].id = n}}

\* Mutant: the record is made anew at every poll (= for ??=).
WithNewRecord(records, n) ==
  Append(SelectSeq(records, LAMBDA r : r.id # n), [id |-> n, units |-> {}, stale |-> FALSE])

\* state.notices[id] ??= {}: the record there is, or a new one after the others.
WithRecord(records, n) ==
  IF Has(records, n) THEN records
  ELSE Append(records, [id |-> n, units |-> {}, stale |-> FALSE])

\* Mutant: delivery is kept per notice and not per (notice, server).
MarkedAll(records, n, s) ==
  [i \in DOMAIN records |->
     IF records[i].id = n THEN [records[i] EXCEPT !.units = Server] ELSE records[i]]

Marked(records, n, s) ==
  [i \in DOMAIN records |->
     IF records[i].id = n THEN [records[i] EXCEPT !.units = @ \cup {s}] ELSE records[i]]

Staled(records, n) ==
  [i \in DOMAIN records |->
     IF records[i].id = n THEN [records[i] EXCEPT !.stale = TRUE] ELSE records[i]]

Lasting(records) ==
  SubSeq(records, Len(records) + 1 - Lesser(Len(records), KeepNotices), Len(records))

Places(records) == {p \in Place : p[2] \in Units(records, p[1])}

\* writeState: what the kept records no longer say is forgotten.
Saved(records) ==
  /\ file' = Lasting(records)
  /\ excused' = excused \cup (Places(records) \ Places(Lasting(records)))

-----------------------------------------------------------------------------
\* The screen and the relay share nothing but the table, so a behaviour has one or
\* the other, and the relay runs among members who are settled: a bound of the model.
Start ==
  /\ relay = Off /\ signIns = 0
  /\ request = {} /\ Admins = {Founder} /\ \A u \in User : Member(u)
  /\ \A c \in Code : invite[c] # NoInvite /\ invite[c].left = 0
  /\ relay' = Asleep /\ playing' = Seats
  /\ UNCHANGED <<memberVars, tableVars, screenVars, fresh, file, banner, excused,
                 unsent, faults, moves>>

\* The shown notices in the order they are handled: everyone's first, then the newest.
Queue ==
  SetToSeq(ShownTo(Everyone))
    \o SetToSortSeq(shown \ ShownTo(Everyone), LAMBDA m, n : m > n)

Tick ==
  /\ relay = Asleep
  /\ relay' = [at |-> "next", queue |-> Queue, records |-> file, todo |-> {},
               changed |-> FALSE]
  /\ UNCHANGED <<file, banner, excused, unsent, faults>>

Finish ==
  /\ relay.at = "next" /\ relay.queue = <<>>
  /\ relay' = Asleep
  /\ UNCHANGED <<file, banner, excused, unsent, faults>>

\* A notice older than ten minutes is marked, once; any other is sent where its
\* record does not name the server.
Take ==
  /\ relay.at = "next" /\ relay.queue # <<>>
  /\ LET n == Head(relay.queue)
         records == WithRecord(relay.records, n)
         marked == Staled(records, n)
     IN  \/ /\ n \in fresh
            /\ relay' = [relay EXCEPT !.at = "send", !.records = records,
                                      !.todo = Server \ Units(records, n),
                                      !.changed = FALSE]
            /\ UNCHANGED <<file, excused>>
         \/ /\ n \notin fresh
            /\ IF marked = records THEN UNCHANGED <<file, excused>> ELSE Saved(marked)
            /\ relay' = [relay EXCEPT !.queue = Tail(@), !.records =
                           IF marked = records THEN records ELSE Lasting(marked)]
  /\ UNCHANGED <<banner, unsent, faults>>

Sending(s) == relay.at = "send" /\ s \in relay.todo
Reached(s) == Players(Head(relay.queue), s) # {}
Here(s) == <<Head(relay.queue), s>>
Shown(s) == banner' = [banner EXCEPT ![Here(s)] = Lesser(@ + 1, 2)]
Past(s) == relay' = [relay EXCEPT !.todo = @ \ {s}]
Recorded(s) ==
  relay' = [relay EXCEPT !.todo = @ \ {s}, !.changed = TRUE,
                         !.records = Marked(@, Head(relay.queue), s)]

Deliver(s) ==
  /\ Sending(s) /\ Reached(s)
  /\ Shown(s) /\ Recorded(s)
  /\ UNCHANGED <<file, excused, unsent, faults>>

\* Asleep, the member elsewhere, or "no player was found": tried again next time.
Skip(s) ==
  /\ Sending(s) /\ ~Reached(s)
  /\ Past(s)
  /\ UNCHANGED <<file, banner, excused, unsent, faults>>

Fault == faults < MaxFaults /\ faults' = faults + 1

\* RCON does not answer: the command was carried out, or it was not.
NoReply(s) ==
  /\ Sending(s) /\ Reached(s)
  /\ Fault /\ Past(s)
  /\ \/ Shown(s) /\ excused' = excused \cup {Here(s)}
     \/ UNCHANGED <<banner, excused>>
  /\ UNCHANGED <<file, unsent>>

\* A server that stops closes the connection, which rconCommand takes for an answer.
Closed(s) ==
  /\ Sending(s)
  /\ Reached(s) \/ notice[Head(relay.queue)] = Everyone
  /\ Fault /\ Recorded(s)
  /\ unsent' = unsent \cup {Here(s)}
  /\ UNCHANGED <<file, banner, excused>>

\* The servers are done; the file is written if one of them took the notice.
NextNotice ==
  /\ relay.at = "send" /\ relay.todo = {}
  /\ IF relay.changed THEN Saved(relay.records) ELSE UNCHANGED <<file, excused>>
  /\ relay' = [relay EXCEPT !.at = "next", !.queue = Tail(@), !.records =
                 IF relay.changed THEN Lasting(@) ELSE @]
  /\ UNCHANGED <<banner, unsent, faults>>

\* systemd starts the relay again with nothing but its file.
Kill ==
  /\ relay.at \in {"next", "send"}
  /\ Fault
  /\ relay' = Asleep
  /\ excused' = excused \cup (Places(relay.records) \ Places(file))
  /\ UNCHANGED <<file, banner, unsent>>

RelayWork ==
  /\ \/ Tick \/ Finish \/ Take \/ NextNotice
     \/ \E s \in Server : Deliver(s) \/ Skip(s)
  /\ UNCHANGED <<memberVars, tableVars, screenVars, fresh, playing, moves>>

RelayMishap ==
  /\ Kill \/ \E s \in Server : NoReply(s) \/ Closed(s)
  /\ UNCHANGED <<memberVars, tableVars, screenVars, fresh, playing, moves>>

-----------------------------------------------------------------------------
PlayerMoves(u, place) ==
  /\ relay # Off /\ moves < MaxMoves /\ playing[u] # place
  /\ playing' = [playing EXCEPT ![u] = place]
  /\ moves' = moves + 1
  /\ UNCHANGED <<memberVars, tableVars, screenVars, fresh, file, relay, banner,
                 excused, unsent, faults>>

\* Ten minutes have passed since the oldest of the fresh notices.
TenMinutes ==
  /\ relay # Off /\ fresh # {}
  /\ fresh' = fresh \ {CHOOSE n \in fresh : \A m \in fresh : n <= m}
  /\ UNCHANGED <<memberVars, tableVars, screenVars, playing, file, relay, banner,
                 excused, unsent, faults, moves>>

Posting ==
  /\ TableStep /\ request = {}
  /\ fresh' = fresh \cup (DOMAIN notice' \ Rows)
  /\ UNCHANGED <<playing, file, relay, banner, excused, unsent, faults, moves>>

Apart ==
  /\ relay = Off
  /\ \/ /\ MemberStep
        /\ signIns > 0 => request' = {}
        /\ UNCHANGED <<tableVars, screenVars>>
     \/ ScreenStep /\ request = {}
  /\ UNCHANGED relayVars

Next ==
  \/ Apart \/ Posting \/ Start \/ RelayWork \/ RelayMishap \/ TenMinutes
  \/ \E u \in User, place \in Server \cup {Nowhere} : PlayerMoves(u, place)

Spec == Init /\ [][Next]_vars

FairSpec == Spec /\ WF_vars(RelayWork)

-----------------------------------------------------------------------------
\* A banner reaches a server once per notice, over restarts of the relay, except
\* where the relay was killed after sending and before writing, an answer got lost,
\* or more notices were shown than the file keeps (createRelay, writeState).
OncePerServer == \A p \in Place : banner[p] > 1 => p \in excused

Due(n, s) == relay # Off /\ n \in shown \cap fresh /\ Players(n, s) # {}

\* While a notice is shown and fresh and its audience plays on a server, the banner
\* gets there, whatever happened to the relay and to other servers before, unless a
\* connection that closed was taken for a delivery.
Announced ==
  \A n \in 1..MaxNotices, s \in Server :
    Due(n, s) ~> (~Due(n, s) \/ banner[<<n, s>>] > 0 \/ <<n, s>> \in unsent)

=============================================================================
