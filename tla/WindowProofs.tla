----------------------------- MODULE WindowProofs -----------------------------
(***************************************************************************)
(* Theorems about Window: its types, and what the window was told, asked   *)
(* for and waits for, for any receivers, controls and bounds.              *)
(***************************************************************************)
EXTENDS Window, TLAPS

Values == {"On", "Standby", "low", "high", "stereo", "movie", "cd", "game",
           "muted", "audible"}
ReadKinds == {"ReadHttpInformation", "ReadSourceCatalog", "ReadQuickSelectNames"}
Connection == [session : Nat, epoch : Nat]
State == [session : Nat, epoch : Nat, current : BOOLEAN,
          values : [Fields -> Values], shows : SUBSET Nat]
Cache == [freshness : {"Unknown", "Live", "Partial", "Invalidated"},
          generation : Nat, from : SUBSET Connection]
Lifecycles == {"NoReceiver", "Selected", "Connecting", "Connected",
               "Reconnecting", "Disconnected"}
Intent == [control : Controls, value : Values]

SelectCommand == [kind : {"Select"}, id : Nat, receiver : Receivers]
RefreshCommand == [kind : {"Refresh"}, id : Nat]
ControlCommand == [kind : {"Control"}, id : Nat, guard : SUBSET SUBSET Values,
                   intent : Intent]
ReadCommand == [kind : ReadKinds, generation : Nat, from : Connection]
Command == SelectCommand \cup RefreshCommand \cup ControlCommand \cup ReadCommand

WindowFields ==
  {"selection", "lifecycle", "generation", "subscription", "state", "snapshot",
   "requests", "connection", "information", "catalog", "names",
   "http_read_in_flight", "http_read_again", "catalog_read_in_flight",
   "names_read_in_flight", "catalog_auto_generation", "volume", "sound_mode",
   "launch_ready", "loaded", "closing", "closed", "out"}

\* A record of the window's fields.
IsWindow(w) == w = [f \in WindowFields |-> w[f]]

\* Such a record with the same fields as w, those named in S perhaps excepted.
Keeps(v, w, S) == IsWindow(v) /\ \A f \in WindowFields \ S : v[f] = w[f]

\* The types of a window's fields.
WindowTypes(w) ==
  /\ IsWindow(w)
  /\ w.selection \in SUBSET Receivers /\ w.lifecycle \in Lifecycles
  /\ w.generation \in Nat /\ w.subscription \in Nat /\ w.requests \in Nat
  /\ w.state \in SUBSET State /\ w.snapshot \in [Fields -> SUBSET Values]
  /\ w.connection \in Connection
  /\ w.information \in Cache /\ w.catalog \in Cache /\ w.names \in Cache
  /\ w.http_read_in_flight \in BOOLEAN /\ w.http_read_again \in BOOLEAN
  /\ w.catalog_read_in_flight \in BOOLEAN /\ w.names_read_in_flight \in BOOLEAN
  /\ w.volume \in SUBSET Nat /\ w.sound_mode \in SUBSET Nat
  /\ w.loaded \in BOOLEAN /\ w.closing \in BOOLEAN /\ w.closed \in BOOLEAN
  /\ w.out \in Seq(Command)

-----------------------------------------------------------------------------
\* What the window's operators change.

Waiting == {"volume", "sound_mode"}
Caches == {"names", "catalog", "information"}

\* The three caches are empty.
Emptied(w) == /\ w.names \in Cache /\ w.names.from = None
              /\ w.catalog \in Cache /\ w.catalog.from = None
              /\ w.information \in Cache /\ w.information.from = None

LEMMA ForgottenIsEmpty ==
  ASSUME NEW freshness \in {"Unknown", "Invalidated"}, NEW generation \in Nat
  PROVE  /\ Forgotten(freshness, generation) \in Cache
         /\ Forgotten(freshness, generation).from = None
BY DEF Forgotten, Cache, None

LEMMA InvalidateSupplemental ==
  ASSUME NEW w, IsWindow(w), w.generation \in Nat
  PROVE  LET v == invalidate_supplemental(w)
         IN Keeps(v, w, Caches) /\ Emptied(v)
<1> DEFINE v == invalidate_supplemental(w)
           empty == Forgotten("Invalidated", w.generation)
<1>1. /\ Keeps(v, w, Caches)
      /\ v.names = empty /\ v.catalog = empty /\ v.information = empty
  BY DEF IsWindow, WindowFields, invalidate_supplemental, Keeps, Caches
<1>2. empty \in Cache /\ empty.from = None
  BY ForgottenIsEmpty
<1>3. QED
  BY <1>1, <1>2 DEF Emptied

LEMMA ResetPendingControls ==
  ASSUME NEW w, IsWindow(w)
  PROVE  LET v == reset_pending_controls(w)
         IN Keeps(v, w, Waiting) /\ v.volume = None /\ v.sound_mode = None
BY DEF IsWindow, WindowFields, reset_pending_controls, Keeps, Waiting

LEMMA ConnectionLost ==
  ASSUME NEW w, WindowTypes(w)
  PROVE  LET v == connection_lost(w)
         IN /\ Keeps(v, w, {"generation", "lifecycle", "snapshot"} \cup Waiting \cup Caches)
            /\ v.generation = w.generation + 1 /\ v.lifecycle = "Reconnecting"
            /\ v.snapshot = NotQueried /\ v.volume = None /\ v.sound_mode = None
            /\ Emptied(v)
<1> DEFINE a == [w EXCEPT !.generation = @ + 1, !.lifecycle = "Reconnecting",
                          !.snapshot = NotQueried]
           b == invalidate_supplemental(a)
           v == reset_pending_controls(b)
<1>1. /\ Keeps(a, w, {"generation", "lifecycle", "snapshot"})
      /\ a.generation = w.generation + 1 /\ a.lifecycle = "Reconnecting"
      /\ a.snapshot = NotQueried
  BY DEF WindowTypes, IsWindow, WindowFields, Keeps
<1>2. IsWindow(a) /\ a.generation \in Nat
  BY <1>1 DEF Keeps, WindowTypes
<1> HIDE DEF a
<1>3. Keeps(b, a, Caches) /\ Emptied(b)
  BY <1>2, InvalidateSupplemental
<1>4. IsWindow(b)
  BY <1>3 DEF Keeps
<1> HIDE DEF b
<1>5. Keeps(v, b, Waiting) /\ v.volume = None /\ v.sound_mode = None
  BY <1>4, ResetPendingControls
<1>6. v = connection_lost(w)
  BY DEF connection_lost, a, b
<1> HIDE DEF v
<1>7. Keeps(v, w, {"generation", "lifecycle", "snapshot"} \cup Waiting \cup Caches)
  BY <1>1, <1>3, <1>5 DEF Keeps, Waiting, Caches, WindowFields
<1>8. /\ v.generation = a.generation /\ v.lifecycle = a.lifecycle
      /\ v.snapshot = a.snapshot
      /\ v.names = b.names /\ v.catalog = b.catalog /\ v.information = b.information
  BY <1>3, <1>5 DEF Keeps, Waiting, Caches, WindowFields
<1>9. QED
  BY <1>1, <1>3, <1>5, <1>6, <1>7, <1>8 DEF Emptied

LEMMA ConnectFailed ==
  ASSUME NEW w, WindowTypes(w)
  PROVE  LET v == connect_failed(w)
         IN /\ Keeps(v, w, {"lifecycle", "state", "snapshot", "launch_ready"}
                             \cup Waiting \cup Caches)
            /\ v.lifecycle = "Disconnected" /\ v.state = None
            /\ v.snapshot = NotQueried /\ v.volume = None /\ v.sound_mode = None
            /\ Emptied(v)
<1> DEFINE a == [w EXCEPT !.lifecycle = "Disconnected", !.state = None,
                          !.snapshot = NotQueried, !.launch_ready = TRUE]
           b == invalidate_supplemental(a)
           v == reset_pending_controls(b)
<1>1. /\ Keeps(a, w, {"lifecycle", "state", "snapshot", "launch_ready"})
      /\ a.lifecycle = "Disconnected" /\ a.state = None
      /\ a.snapshot = NotQueried
  BY DEF WindowTypes, IsWindow, WindowFields, Keeps
<1>2. IsWindow(a) /\ a.generation \in Nat
  BY <1>1 DEF Keeps, WindowTypes, WindowFields
<1> HIDE DEF a
<1>3. Keeps(b, a, Caches) /\ Emptied(b)
  BY <1>2, InvalidateSupplemental
<1>4. IsWindow(b)
  BY <1>3 DEF Keeps
<1> HIDE DEF b
<1>5. Keeps(v, b, Waiting) /\ v.volume = None /\ v.sound_mode = None
  BY <1>4, ResetPendingControls
<1>6. v = connect_failed(w)
  BY DEF connect_failed, a, b
<1> HIDE DEF v
<1>7. Keeps(v, w, {"lifecycle", "state", "snapshot", "launch_ready"} \cup Waiting \cup Caches)
  BY <1>1, <1>3, <1>5 DEF Keeps, Waiting, Caches, WindowFields
<1>8. /\ v.lifecycle = a.lifecycle /\ v.state = a.state
      /\ v.snapshot = a.snapshot
      /\ v.names = b.names /\ v.catalog = b.catalog /\ v.information = b.information
  BY <1>3, <1>5 DEF Keeps, Waiting, Caches, WindowFields
<1>9. QED
  BY <1>1, <1>3, <1>5, <1>6, <1>7, <1>8 DEF Emptied

\* The read w would ask for.
LEMMA ReadTyped ==
  ASSUME NEW w, WindowTypes(w), NEW kind \in ReadKinds
  PROVE  /\ Read(kind, w) \in ReadCommand
         /\ Read(kind, w).kind = kind /\ Read(kind, w).generation = w.generation
         /\ Read(kind, w).from = w.connection
BY DEF WindowTypes, Read, ReadCommand

LEMMA RequestHttp ==
  ASSUME NEW w, WindowTypes(w)
  PROVE  LET v == request_http_information(w)
         IN \/ v = w
            \/ /\ Keeps(v, w, {"information"})
               /\ v.information \in Cache /\ v.information.from = None
            \/ Keeps(v, w, {"http_read_again"}) /\ v.http_read_again = TRUE
            \/ /\ Keeps(v, w, {"http_read_in_flight", "out"})
               /\ v.http_read_in_flight = TRUE
               /\ v.out = Append(w.out, Read("ReadHttpInformation", w))
BY DEF WindowTypes, IsWindow, WindowFields, request_http_information, Leave,
   Forgotten, Keeps, Cache, None

LEMMA RequestCatalog ==
  ASSUME NEW w, WindowTypes(w)
  PROVE  LET v == request_source_catalog(w)
         IN \/ v = w
            \/ /\ Keeps(v, w, {"catalog_read_in_flight", "out"})
               /\ v.catalog_read_in_flight = TRUE
               /\ v.out = Append(w.out, Read("ReadSourceCatalog", w))
BY DEF WindowTypes, IsWindow, WindowFields, request_source_catalog, Leave, Keeps

LEMMA RequestNames ==
  ASSUME NEW w, WindowTypes(w)
  PROVE  LET v == request_quick_select_names(w)
         IN \/ v = w
            \/ /\ Keeps(v, w, {"names_read_in_flight", "out"})
               /\ v.names_read_in_flight = TRUE
               /\ v.out = Append(w.out, Read("ReadQuickSelectNames", w))
BY DEF WindowTypes, IsWindow, WindowFields, request_quick_select_names, Leave, Keeps

\* The kinds of the reads that w waits for.
InFlight(w) ==
  {k \in ReadKinds : \/ k = "ReadHttpInformation" /\ w.http_read_in_flight
                     \/ k = "ReadSourceCatalog" /\ w.catalog_read_in_flight
                     \/ k = "ReadQuickSelectNames" /\ w.names_read_in_flight}

Has(s, kind) == \E i \in 1 .. Len(s) : s[i].kind = kind

\* What a message leaves is reads, asked in the connection the window now shows,
\* and it waits for none but those and what it waited for before.
Leaves(v, before) ==
  /\ v.out \in Seq(ReadCommand)
  /\ \A i \in 1 .. Len(v.out) : /\ v.out[i].generation = v.generation
                                /\ v.out[i].from = v.connection
  /\ \A k \in InFlight(v) : k \in before \/ Has(v.out, k)

\* Nothing is shown in v that is not shown in w.
Narrower(v, w) == /\ v.information.from \subseteq w.information.from
                  /\ v.catalog.from \subseteq w.catalog.from
                  /\ v.names.from \subseteq w.names.from

AskFields == {"information", "http_read_again", "http_read_in_flight",
              "catalog_read_in_flight", "names_read_in_flight",
              "catalog_auto_generation", "out"}

\* From w to v the window only asked for reads.
Asks(v, w) ==
  /\ WindowTypes(v) /\ Keeps(v, w, AskFields) /\ Narrower(v, w)
  /\ \A before : Leaves(w, before) => Leaves(v, before)

LEMMA AsksNothing == ASSUME NEW w, WindowTypes(w) PROVE Asks(w, w)
BY DEF Asks, Keeps, Narrower, WindowTypes

LEMMA AsksTransitive ==
  ASSUME NEW u, NEW v, NEW w, Asks(u, v), Asks(v, w)
  PROVE  Asks(u, w)
<1>1. Keeps(u, w, AskFields)
  BY DEF Asks, Keeps
<1>2. QED
  BY <1>1 DEF Asks, Narrower

LEMMA ReadsAreCommands == ReadCommand \subseteq Command
BY DEF Command

\* One more read is asked for.
LEMMA AsksOne ==
  ASSUME NEW w, WindowTypes(w), NEW v, WindowTypes(v), NEW kind \in ReadKinds,
         Keeps(v, w, AskFields), Narrower(v, w),
         v.out = Append(w.out, Read(kind, w)),
         InFlight(v) \subseteq InFlight(w) \cup {kind}
  PROVE  Asks(v, w)
<1> SUFFICES ASSUME NEW before, Leaves(w, before)
             PROVE  Leaves(v, before)
  BY DEF Asks
<1> DEFINE r == Read(kind, w)
<1>1. /\ r \in ReadCommand /\ r.kind = kind /\ r.generation = w.generation
      /\ r.from = w.connection
  BY ReadTyped
<1>2. v.generation = w.generation /\ v.connection = w.connection
  BY DEF Keeps, AskFields, WindowFields
<1> HIDE DEF r
<1>3. w.out \in Seq(ReadCommand) /\ v.out = Append(w.out, r)
  BY DEF Leaves, r
<1>4. /\ v.out \in Seq(ReadCommand) /\ Len(v.out) = Len(w.out) + 1
      /\ \A i \in 1 .. Len(w.out) : v.out[i] = w.out[i]
      /\ v.out[Len(w.out) + 1] = r /\ Len(w.out) \in Nat
  BY <1>1, <1>3
<1>5. \A i \in 1 .. Len(v.out) : /\ v.out[i].generation = v.generation
                                 /\ v.out[i].from = v.connection
  BY <1>1, <1>2, <1>4 DEF Leaves
<1>6. \A k : Has(w.out, k) => Has(v.out, k)
  BY <1>4 DEF Has
<1>7. Has(v.out, kind)
  BY <1>1, <1>4 DEF Has
<1>8. QED
  BY <1>4, <1>5, <1>6, <1>7 DEF Leaves

LEMMA AsksHttp ==
  ASSUME NEW w, WindowTypes(w)
  PROVE  Asks(request_http_information(w), w)
<1> DEFINE v == request_http_information(w)
<1>1. CASE v = w
  BY <1>1, AsksNothing
<1>2. CASE /\ Keeps(v, w, {"information"})
           /\ v.information \in Cache /\ v.information.from = None
  <2> HIDE DEF v
  <2>1. WindowTypes(v)
    BY <1>2 DEF WindowTypes, Keeps, WindowFields
  <2>2. Keeps(v, w, AskFields) /\ Narrower(v, w)
    BY <1>2 DEF Keeps, WindowFields, AskFields, Narrower, None
  <2>3. InFlight(v) = InFlight(w)
    BY <1>2 DEF InFlight, Keeps, WindowFields
  <2>4. v.out = w.out /\ v.generation = w.generation /\ v.connection = w.connection
    BY <1>2 DEF Keeps, WindowFields
  <2>5. Asks(v, w)
    BY <2>1, <2>2, <2>3, <2>4 DEF Asks, Leaves
  <2>6. QED
    BY <2>5 DEF v
<1>3. CASE Keeps(v, w, {"http_read_again"}) /\ v.http_read_again = TRUE
  <2> HIDE DEF v
  <2>1. WindowTypes(v)
    BY <1>3 DEF WindowTypes, Keeps, WindowFields
  <2>2. Keeps(v, w, AskFields) /\ Narrower(v, w)
    BY <1>3 DEF Keeps, WindowFields, AskFields, Narrower, None
  <2>3. InFlight(v) = InFlight(w)
    BY <1>3 DEF InFlight, Keeps, WindowFields
  <2>4. v.out = w.out /\ v.generation = w.generation /\ v.connection = w.connection
    BY <1>3 DEF Keeps, WindowFields
  <2>5. Asks(v, w)
    BY <2>1, <2>2, <2>3, <2>4 DEF Asks, Leaves
  <2>6. QED
    BY <2>5 DEF v
<1>4. CASE /\ Keeps(v, w, {"http_read_in_flight", "out"})
           /\ v.http_read_in_flight = TRUE
           /\ v.out = Append(w.out, Read("ReadHttpInformation", w))
  <2> HIDE DEF v
  <2>1. v.out \in Seq(Command)
    BY <1>4, ReadTyped, ReadsAreCommands DEF WindowTypes, ReadKinds
  <2>2. WindowTypes(v)
    BY <1>4, <2>1 DEF WindowTypes, Keeps, WindowFields
  <2>3. Keeps(v, w, AskFields) /\ Narrower(v, w)
    BY <1>4 DEF Keeps, WindowFields, AskFields, Narrower, None
  <2>4. InFlight(v) \subseteq InFlight(w) \cup {"ReadHttpInformation"}
    BY <1>4 DEF InFlight, Keeps, WindowFields
  <2>5. Asks(v, w)
    BY <1>4, <2>2, <2>3, <2>4, AsksOne DEF ReadKinds
  <2>6. QED
    BY <2>5 DEF v
<1>5. QED
  BY <1>1, <1>2, <1>3, <1>4, RequestHttp

LEMMA AsksCatalog ==
  ASSUME NEW w, WindowTypes(w)
  PROVE  Asks(request_source_catalog(w), w)
<1> DEFINE v == request_source_catalog(w)
<1>1. CASE v = w
  BY <1>1, AsksNothing
<1>2. CASE /\ Keeps(v, w, {"catalog_read_in_flight", "out"})
           /\ v.catalog_read_in_flight = TRUE
           /\ v.out = Append(w.out, Read("ReadSourceCatalog", w))
  <2> HIDE DEF v
  <2>1. v.out \in Seq(Command)
    BY <1>2, ReadTyped, ReadsAreCommands DEF WindowTypes, ReadKinds
  <2>2. WindowTypes(v)
    BY <1>2, <2>1 DEF WindowTypes, Keeps, WindowFields
  <2>3. Keeps(v, w, AskFields) /\ Narrower(v, w)
    BY <1>2 DEF Keeps, WindowFields, AskFields, Narrower, None
  <2>4. InFlight(v) \subseteq InFlight(w) \cup {"ReadSourceCatalog"}
    BY <1>2 DEF InFlight, Keeps, WindowFields
  <2>5. Asks(v, w)
    BY <1>2, <2>2, <2>3, <2>4, AsksOne DEF ReadKinds
  <2>6. QED
    BY <2>5 DEF v
<1>3. QED
  BY <1>1, <1>2, RequestCatalog

LEMMA AsksNames ==
  ASSUME NEW w, WindowTypes(w)
  PROVE  Asks(request_quick_select_names(w), w)
<1> DEFINE v == request_quick_select_names(w)
<1>1. CASE v = w
  BY <1>1, AsksNothing
<1>2. CASE /\ Keeps(v, w, {"names_read_in_flight", "out"})
           /\ v.names_read_in_flight = TRUE
           /\ v.out = Append(w.out, Read("ReadQuickSelectNames", w))
  <2> HIDE DEF v
  <2>1. v.out \in Seq(Command)
    BY <1>2, ReadTyped, ReadsAreCommands DEF WindowTypes, ReadKinds
  <2>2. WindowTypes(v)
    BY <1>2, <2>1 DEF WindowTypes, Keeps, WindowFields
  <2>3. Keeps(v, w, AskFields) /\ Narrower(v, w)
    BY <1>2 DEF Keeps, WindowFields, AskFields, Narrower, None
  <2>4. InFlight(v) \subseteq InFlight(w) \cup {"ReadQuickSelectNames"}
    BY <1>2 DEF InFlight, Keeps, WindowFields
  <2>5. Asks(v, w)
    BY <1>2, <2>2, <2>3, <2>4, AsksOne DEF ReadKinds
  <2>6. QED
    BY <2>5 DEF v
<1>3. QED
  BY <1>1, <1>2, RequestNames

\* The fields a state, the end of a session or a failed connect may change.
FollowFields == {"generation", "lifecycle", "snapshot", "launch_ready", "state",
                 "connection"} \cup Waiting \cup Caches \cup AskFields

\* How v follows from w when the newest state names an epoch: the connection is
\* lost, it goes on, it is a later one, or there was none.
Followed(v, w, epoch) ==
  \/ /\ epoch = 0 /\ w.lifecycle = "Reconnecting"
     /\ v.lifecycle = "Reconnecting" /\ v.generation = w.generation
     /\ Narrower(v, w)
  \/ /\ epoch = 0 /\ w.lifecycle # "Reconnecting"
     /\ v.lifecycle = "Reconnecting" /\ v.generation = w.generation + 1
     /\ Emptied(v)
  \/ /\ epoch # 0 /\ w.lifecycle = "Connected" /\ (w.generation = 0 \/ epoch <= w.generation)
     /\ v.lifecycle = "Connected" /\ v.generation = w.generation
     /\ Narrower(v, w)
  \/ /\ epoch # 0 /\ w.lifecycle = "Connected" /\ w.generation # 0 /\ epoch > w.generation
     /\ v.lifecycle = "Connected" /\ v.generation = epoch
     /\ Emptied(v)
  \/ /\ epoch # 0 /\ w.lifecycle # "Connected"
     /\ v.lifecycle = "Connected" /\ v.generation = epoch
     /\ Narrower(v, w)

LEMMA NotQueriedTyped == NotQueried \in [Fields -> SUBSET Values]
BY DEF NotQueried, None

\* A lost connection has the types, and waits for no read it did not wait for.
LEMMA LostTyped ==
  ASSUME NEW w, WindowTypes(w)
  PROVE  LET v == connection_lost(w)
         IN WindowTypes(v) /\ InFlight(v) = InFlight(w) /\ v.out = w.out
<1> DEFINE v == connection_lost(w)
<1>1. /\ Keeps(v, w, {"generation", "lifecycle", "snapshot"} \cup Waiting \cup Caches)
      /\ v.generation = w.generation + 1 /\ v.lifecycle = "Reconnecting"
      /\ v.snapshot = NotQueried /\ v.volume = None /\ v.sound_mode = None
      /\ Emptied(v)
  BY ConnectionLost
<1> HIDE DEF v
<1>2. WindowTypes(v)
  BY <1>1, NotQueriedTyped
     DEF WindowTypes, Keeps, WindowFields, Waiting, Caches, Emptied, Lifecycles, None
<1>3. InFlight(v) = InFlight(w) /\ v.out = w.out
  BY <1>1 DEF InFlight, Keeps, WindowFields, Waiting, Caches
<1>4. QED
  BY <1>2, <1>3 DEF v

LEMMA FailedTyped ==
  ASSUME NEW w, WindowTypes(w)
  PROVE  LET v == connect_failed(w)
         IN WindowTypes(v) /\ InFlight(v) = InFlight(w) /\ v.out = w.out
<1> DEFINE v == connect_failed(w)
<1>1. /\ Keeps(v, w, {"lifecycle", "state", "snapshot", "launch_ready"}
                     \cup Waiting \cup Caches)
      /\ v.lifecycle = "Disconnected" /\ v.state = None
      /\ v.snapshot = NotQueried /\ v.volume = None /\ v.sound_mode = None
      /\ Emptied(v)
  BY ConnectFailed
<1> HIDE DEF v
<1>2. WindowTypes(v)
  BY <1>1, NotQueriedTyped
     DEF WindowTypes, Keeps, WindowFields, Waiting, Caches, Emptied, Lifecycles, None
<1>3. InFlight(v) = InFlight(w) /\ v.out = w.out
  BY <1>1 DEF InFlight, Keeps, WindowFields, Waiting, Caches
<1>4. QED
  BY <1>2, <1>3 DEF v

LEMMA NothingLeft ==
  ASSUME NEW w, w.out = <<>> PROVE Leaves(w, InFlight(w))
BY DEF Leaves, Has

\* FollowEpoch on a window with no command left.
LEMMA FollowsEpoch ==
  ASSUME NEW w, WindowTypes(w), w.out = <<>>, NEW epoch \in Nat
  PROVE  LET v == FollowEpoch(w, epoch)
         IN /\ WindowTypes(v) /\ Leaves(v, InFlight(w)) /\ Followed(v, w, epoch)
            /\ Keeps(v, w, FollowFields \ {"state", "connection"})
            /\ v.volume \in {w.volume, None}
<1> DEFINE lost == connection_lost(w)
           v == FollowEpoch(w, epoch)
           started(l) == [l EXCEPT !.generation = epoch, !.lifecycle = "Connected"]
<1>1. /\ Keeps(lost, w, {"generation", "lifecycle", "snapshot"} \cup Waiting \cup Caches)
      /\ lost.generation = w.generation + 1 /\ lost.lifecycle = "Reconnecting"
      /\ lost.volume = None /\ Emptied(lost)
  BY ConnectionLost
<1>2. WindowTypes(lost) /\ InFlight(lost) = InFlight(w) /\ lost.out = <<>>
  BY LostTyped
<1>3. Leaves(lost, InFlight(w))
  BY <1>2, NothingLeft
<1>4. Leaves(w, InFlight(w)) /\ Narrower(w, w) /\ Keeps(w, w, FollowFields \ {"state", "connection"})
  BY NothingLeft DEF Narrower, Keeps, WindowTypes
<1>5. Keeps(lost, w, FollowFields \ {"state", "connection"})
  BY <1>1 DEF Keeps, FollowFields, Waiting, Caches, AskFields
<1>6. ASSUME NEW l, WindowTypes(l), l.out = <<>>, InFlight(l) = InFlight(w),
             Keeps(l, w, FollowFields \ {"state", "connection"}),
             l.volume \in {w.volume, None}
      PROVE  LET r == request_quick_select_names(started(l))
             IN /\ WindowTypes(r) /\ Leaves(r, InFlight(w))
                /\ Keeps(r, w, FollowFields \ {"state", "connection"})
                /\ r.volume \in {w.volume, None}
                /\ r.lifecycle = "Connected" /\ r.generation = epoch
                /\ Narrower(r, l)
  <2> DEFINE s == started(l)
             r == request_quick_select_names(s)
  <2>1. /\ Keeps(s, l, {"generation", "lifecycle"})
        /\ s.generation = epoch /\ s.lifecycle = "Connected"
    BY <1>6 DEF WindowTypes, IsWindow, WindowFields, Keeps
  <2> HIDE DEF s
  <2>2. WindowTypes(s)
    BY <1>6, <2>1 DEF WindowTypes, Keeps, WindowFields, Lifecycles
  <2>3. s.out = <<>> /\ InFlight(s) = InFlight(w) /\ s.volume = l.volume /\ Narrower(s, l)
    BY <1>6, <2>1 DEF InFlight, Keeps, WindowFields, Narrower
  <2>4. Leaves(s, InFlight(w))
    BY <2>3, NothingLeft
  <2>5. Asks(r, s)
    BY <2>2, AsksNames
  <2> HIDE DEF r
  <2>6. /\ WindowTypes(r) /\ Leaves(r, InFlight(w)) /\ Keeps(r, s, AskFields)
        /\ Narrower(r, s)
    BY <2>4, <2>5 DEF Asks
  <2>7. r.volume = l.volume /\ r.lifecycle = "Connected" /\ r.generation = epoch
    BY <2>1, <2>3, <2>6 DEF Keeps, AskFields, WindowFields
  <2>8. Keeps(r, w, FollowFields \ {"state", "connection"})
    BY <1>6, <2>1, <2>6 DEF Keeps, FollowFields, AskFields
  <2>9. Narrower(r, l)
    BY <2>3, <2>6 DEF Narrower
  <2>10. QED
    BY <1>6, <2>6, <2>7, <2>8, <2>9 DEF r, s
<1> HIDE DEF lost
<1>7. CASE epoch = 0 /\ w.lifecycle = "Reconnecting"
  <2>1. v = w
    BY <1>7 DEF FollowEpoch
  <2>2. QED
    BY <1>4, <1>7, <2>1 DEF Followed
<1>8. CASE epoch = 0 /\ w.lifecycle # "Reconnecting"
  <2>1. v = lost
    BY <1>8 DEF FollowEpoch, lost
  <2>2. QED
    BY <1>1, <1>2, <1>3, <1>5, <1>8, <2>1 DEF Followed
<1>9. CASE epoch # 0 /\ w.lifecycle = "Connected" /\ (w.generation = 0 \/ epoch <= w.generation)
  <2>1. v = w
    BY <1>9 DEF FollowEpoch, WindowTypes
  <2>2. QED
    BY <1>4, <1>9, <2>1 DEF Followed
<1>10. CASE epoch # 0 /\ w.lifecycle = "Connected" /\ w.generation # 0 /\ epoch > w.generation
  <2>1. v = request_quick_select_names(started(lost))
    BY <1>10 DEF FollowEpoch, lost
  <2> DEFINE r == request_quick_select_names(started(lost))
  <2>2. /\ WindowTypes(r) /\ Leaves(r, InFlight(w))
        /\ Keeps(r, w, FollowFields \ {"state", "connection"})
        /\ r.volume \in {w.volume, None}
        /\ r.lifecycle = "Connected" /\ r.generation = epoch
        /\ Narrower(r, lost)
    BY <1>1, <1>2, <1>5, <1>6
  <2> HIDE DEF r
  <2>3. Emptied(r)
    BY <1>1, <2>2 DEF Emptied, Narrower, WindowTypes, None
  <2>4. Followed(r, w, epoch)
    BY <1>10, <2>2, <2>3 DEF Followed
  <2>5. QED
    BY <2>1, <2>2, <2>4 DEF r
<1>11. CASE epoch # 0 /\ w.lifecycle # "Connected"
  <2>1. v = request_quick_select_names(started(w))
    BY <1>11 DEF FollowEpoch
  <2> DEFINE r == request_quick_select_names(started(w))
  <2>2. /\ WindowTypes(r) /\ Leaves(r, InFlight(w))
        /\ Keeps(r, w, FollowFields \ {"state", "connection"})
        /\ r.volume \in {w.volume, None}
        /\ r.lifecycle = "Connected" /\ r.generation = epoch
        /\ Narrower(r, w)
    BY <1>4, <1>6
  <2> HIDE DEF r
  <2>3. Followed(r, w, epoch)
    BY <1>11, <2>2 DEF Followed
  <2>4. QED
    BY <2>1, <2>2, <2>3 DEF r
<1>12. w.generation \in Nat
  BY DEF WindowTypes
<1>13. QED
  BY <1>7, <1>8, <1>9, <1>10, <1>11, <1>12

LEMMA ProjectTyped ==
  ASSUME NEW x \in State PROVE project(x) \in [Fields -> SUBSET Values]
BY DEF project, usable, State, Some, None

LEMMA CatalogOnce ==
  ASSUME NEW w, WindowTypes(w) PROVE Asks(ReadCatalogOnce(w), w)
<1> DEFINE a == [w EXCEPT !.catalog_auto_generation = Some(w.generation)]
<1>1. Keeps(a, w, {"catalog_auto_generation"})
  BY DEF WindowTypes, IsWindow, WindowFields, Keeps
<1> HIDE DEF a
<1>2. WindowTypes(a)
  BY <1>1 DEF WindowTypes, Keeps, WindowFields
<1>3. /\ Keeps(a, w, AskFields) /\ Narrower(a, w) /\ InFlight(a) = InFlight(w)
      /\ a.out = w.out /\ a.generation = w.generation /\ a.connection = w.connection
  BY <1>1 DEF Keeps, WindowFields, AskFields, Narrower, InFlight
<1>4. Asks(a, w)
  BY <1>2, <1>3 DEF Asks, Leaves
<1>5. Asks(request_source_catalog(a), a)
  BY <1>2, AsksCatalog
<1>6. ReadCatalogOnce(w) \in {w, request_source_catalog(a)}
  BY DEF ReadCatalogOnce, a
<1>7. QED
  BY <1>4, <1>5, <1>6, AsksNothing, AsksTransitive

\* A state taken in by a window with no command left.
LEMMA AppliesState ==
  ASSUME NEW w, WindowTypes(w), w.out = <<>>, NEW x \in State
  PROVE  LET v == apply_state(w, x)
         IN /\ WindowTypes(v) /\ Leaves(v, InFlight(w)) /\ Followed(v, w, x.epoch)
            /\ Keeps(v, w, FollowFields) /\ v.volume \in {w.volume, None}
            /\ v.state = Some(x)
            /\ v.connection = [session |-> x.session, epoch |-> x.epoch]
<1> DEFINE c == [session |-> x.session, epoch |-> x.epoch]
           w1 == [w EXCEPT !.connection = c]
           followed == FollowEpoch(w1, x.epoch)
           shown == project(x)
           showing == [followed EXCEPT
                         !.snapshot = shown, !.state = Some(x),
                         !.information = IF shown.power = Some("Standby")
                                         THEN Forgotten("Invalidated", 0) ELSE @]
           taken == complete_launch_if_ready(showing)
           v == apply_state(w, x)
<1>1. c \in Connection /\ x.epoch \in Nat
  BY DEF Connection, State
<1>2. Keeps(w1, w, {"connection"}) /\ w1.connection = c
  BY DEF WindowTypes, IsWindow, WindowFields, Keeps
<1> HIDE DEF c, w1
<1>3. WindowTypes(w1)
  BY <1>1, <1>2 DEF WindowTypes, Keeps, WindowFields
<1>4. /\ w1.out = <<>> /\ InFlight(w1) = InFlight(w) /\ w1.volume = w.volume
      /\ w1.lifecycle = w.lifecycle /\ w1.generation = w.generation
      /\ Narrower(w1, w) /\ Narrower(w, w1)
  BY <1>2 DEF Keeps, WindowFields, InFlight, Narrower
<1>5. /\ WindowTypes(followed) /\ Leaves(followed, InFlight(w))
      /\ Followed(followed, w1, x.epoch)
      /\ Keeps(followed, w1, FollowFields \ {"state", "connection"})
      /\ followed.volume \in {w.volume, None}
  BY <1>1, <1>3, <1>4, FollowsEpoch
<1> HIDE DEF followed
<1>6. followed.connection = c
  BY <1>2, <1>5 DEF Keeps, FollowFields, Waiting, Caches, AskFields, WindowFields
<1>7. shown \in [Fields -> SUBSET Values]
  BY ProjectTyped
<1> HIDE DEF shown
<1>8. /\ Keeps(showing, followed, {"snapshot", "state", "information"})
      /\ showing.snapshot = shown /\ showing.state = Some(x)
      /\ \/ showing.information = followed.information
         \/ showing.information = Forgotten("Invalidated", 0)
  BY <1>5 DEF WindowTypes, IsWindow, WindowFields, Keeps
<1>9. showing.information \in Cache /\ showing.information.from \subseteq followed.information.from
  <2>1. /\ Forgotten("Invalidated", 0) \in Cache
        /\ Forgotten("Invalidated", 0).from = None
    BY ForgottenIsEmpty
  <2>2. QED
    BY <1>5, <1>8, <2>1 DEF WindowTypes, None
<1> HIDE DEF showing
<1>10. /\ Keeps(taken, showing, {"launch_ready"})
  BY <1>8 DEF complete_launch_if_ready, Keeps, IsWindow, WindowFields
<1> HIDE DEF taken
<1>11. /\ Keeps(taken, followed, {"snapshot", "state", "information", "launch_ready"})
       /\ taken.snapshot = shown /\ taken.state = Some(x)
       /\ taken.information = showing.information
  BY <1>8, <1>10 DEF Keeps, WindowFields
<1>12. WindowTypes(taken)
  BY <1>5, <1>7, <1>9, <1>11 DEF WindowTypes, Keeps, WindowFields, Some
<1>13. /\ InFlight(taken) = InFlight(followed) /\ taken.out = followed.out
       /\ taken.generation = followed.generation /\ taken.connection = c
       /\ taken.lifecycle = followed.lifecycle /\ taken.volume = followed.volume
       /\ Narrower(taken, followed)
  BY <1>6, <1>9, <1>11 DEF Keeps, WindowFields, InFlight, Narrower
<1>14. Leaves(taken, InFlight(w))
  BY <1>5, <1>6, <1>13 DEF Leaves
<1> DEFINE read == IF \/ (shown["power"] # None /\ shown["power"] # followed.snapshot["power"]) /\ shown.power = Some("On")
                      \/ shown["mode"] # None /\ shown["mode"] # followed.snapshot["mode"]
                      \/ shown["input"] # None /\ shown["input"] # followed.snapshot["input"]
                   THEN request_http_information(taken) ELSE taken
<1>15. Asks(read, taken)
  BY <1>12, AsksHttp, AsksNothing
<1>16. v = ReadCatalogOnce(read)
  BY DEF apply_state, read, taken, showing, followed, w1, c, shown
<1> HIDE DEF read
<1>17. Asks(v, taken)
  <2>1. WindowTypes(read)
    BY <1>15 DEF Asks
  <2>2. Asks(v, read)
    BY <1>16, <2>1, CatalogOnce
  <2>3. QED
    BY <1>15, <2>2, AsksTransitive
<1> HIDE DEF v
<1>18. /\ WindowTypes(v) /\ Leaves(v, InFlight(w)) /\ Keeps(v, taken, AskFields)
       /\ Narrower(v, taken)
  BY <1>14, <1>17 DEF Asks
<1>19. /\ v.generation = followed.generation /\ v.lifecycle = followed.lifecycle
       /\ v.connection = c /\ v.state = Some(x) /\ v.volume = followed.volume
  BY <1>11, <1>13, <1>18 DEF Keeps, AskFields, WindowFields
<1>20. Narrower(v, followed)
  BY <1>13, <1>18 DEF Narrower
<1>21. Keeps(v, w, FollowFields)
  BY <1>2, <1>5, <1>11, <1>18 DEF Keeps, FollowFields, AskFields, Caches
<1>22. Followed(v, w, x.epoch)
  <2>1. Emptied(followed) => Emptied(v)
    BY <1>18, <1>20 DEF Emptied, Narrower, WindowTypes, None
  <2>2. Narrower(followed, w1) => Narrower(v, w)
    BY <1>4, <1>20 DEF Narrower
  <2>3. QED
    BY <1>4, <1>5, <1>19, <2>1, <2>2 DEF Followed
<1>23. QED
  BY <1>5, <1>18, <1>19, <1>21, <1>22 DEF v, c

\* What v shows of reads w shows as well, or it is of X.
Within(v, w, X) == /\ v.information.from \subseteq w.information.from \cup X
                   /\ v.catalog.from \subseteq w.catalog.from \cup X
                   /\ v.names.from \subseteq w.names.from \cup X

PlainEvent == [kind : {"SessionEnded", "ConnectFailed", "Refreshed", "Failed"},
               subscription : Nat]
StateEvents == [kind : {"State"}, subscription : Nat, state : State]
ConflictEvent == [kind : {"Control"}, subscription : Nat, id : Nat,
                  report : {"Conflict"}, in : {0}, intent : Intent]
ControlEvent == [kind : {"Control"}, subscription : Nat, receiver : Receivers,
                 id : Nat, intent : Intent, report : {"OtherEnd", "Completed"},
                 in : Nat]
ReadEvent == [kind : ReadKinds, subscription : Nat, generation : Nat,
              ok : BOOLEAN, from : Connection]
Events == PlainEvent \cup StateEvents \cup ConflictEvent \cup ControlEvent \cup ReadEvent

LEMMA EventShape ==
  ASSUME NEW e \in Events
  PROVE  /\ e.subscription \in Nat
         /\ e.kind \in {"SessionEnded", "ConnectFailed", "Refreshed", "Failed",
                        "State", "Control"} \cup ReadKinds
         /\ e.kind = "State" => e.state \in State
         /\ e.kind = "Control" => e.id \in Nat /\ e.intent \in Intent /\ e.in \in Nat
         /\ e.kind \in ReadKinds =>
              e.generation \in Nat /\ e.from \in Connection /\ e.ok \in BOOLEAN
BY DEF Events, PlainEvent, StateEvents, ConflictEvent, ControlEvent, ReadEvent, ReadKinds

LEMMA OnControl ==
  ASSUME NEW w, WindowTypes(w), w.out = <<>>, NEW event
  PROVE  LET v == on_control(w, event)
         IN /\ WindowTypes(v) /\ Leaves(v, InFlight(w))
            /\ Keeps(v, w, AskFields \cup Waiting) /\ Narrower(v, w)
            /\ v.volume = w.volume \ {event.id}
<1> DEFINE ended == [w EXCEPT !.volume = @ \ {event.id}, !.sound_mode = @ \ {event.id}]
           v == on_control(w, event)
<1>1. /\ Keeps(ended, w, Waiting) /\ ended.volume = w.volume \ {event.id}
      /\ ended.sound_mode = w.sound_mode \ {event.id}
  BY DEF WindowTypes, IsWindow, WindowFields, Keeps, Waiting
<1>2. v \in {ended, request_http_information(ended)}
  BY DEF on_control
<1> HIDE DEF ended, v
<1>3. WindowTypes(ended)
  BY <1>1 DEF WindowTypes, Keeps, WindowFields, Waiting
<1>4. ended.out = <<>> /\ InFlight(ended) = InFlight(w) /\ Narrower(ended, w)
  BY <1>1 DEF Keeps, WindowFields, Waiting, InFlight, Narrower
<1>5. Asks(v, ended)
  BY <1>2, <1>3, AsksHttp, AsksNothing
<1>6. /\ WindowTypes(v) /\ Leaves(v, InFlight(w)) /\ Keeps(v, ended, AskFields)
      /\ Narrower(v, ended)
  BY <1>4, <1>5, NothingLeft DEF Asks
<1>7. /\ Keeps(v, w, AskFields \cup Waiting) /\ Narrower(v, w)
      /\ v.volume = w.volume \ {event.id}
  BY <1>1, <1>4, <1>6 DEF Keeps, Narrower, AskFields, Waiting, WindowFields
<1>8. QED
  BY <1>6, <1>7 DEF v

\* What a read leaves in a cache.
LEMMA MergeTyped ==
  ASSUME NEW cache \in Cache, NEW event, event.generation \in Nat,
         event.from \in Connection, event.ok \in BOOLEAN
  PROVE  \A m \in {Merge(cache, event.generation, event),
                   MergeCatalog(cache, event.generation, event),
                   MergeNames(cache, event.generation, event)} :
           m \in Cache /\ m.from \subseteq cache.from \cup {event.from}
<1> DEFINE g == event.generation
           live == [freshness |-> "Live", generation |-> g, from |-> Some(event.from)]
           m == Merge(cache, g, event)
<1>1. live \in Cache /\ live.from \subseteq cache.from \cup {event.from}
  BY DEF Cache, Some
<1>2. /\ m \in Cache /\ m.from \subseteq cache.from \cup {event.from}
  BY <1>1 DEF Merge, Cache, Some
<1> HIDE DEF m
<1>3. /\ [m EXCEPT !.freshness = IF event.ok THEN @ ELSE "Partial"] \in Cache
      /\ [m EXCEPT !.freshness = IF event.ok THEN @ ELSE "Partial"].from = m.from
  BY <1>2 DEF Cache
<1>4. Forgotten("Unknown", g) \in Cache /\ Forgotten("Unknown", g).from = None
  BY ForgottenIsEmpty
<1>5. /\ MergeCatalog(cache, g, event) \in Cache
      /\ MergeCatalog(cache, g, event).from \subseteq cache.from \cup {event.from}
  BY <1>2, <1>3, <1>4 DEF MergeCatalog, m, None
<1>6. MergeNames(cache, g, event) \in {m, cache}
  BY DEF MergeNames, m
<1>7. QED
  BY <1>2, <1>5, <1>6 DEF m

\* A read that comes in: its result is shown only in the generation it was asked in.
TakesRead(v, w, event) ==
  /\ WindowTypes(v) /\ Leaves(v, InFlight(w) \ {event.kind})
  /\ Keeps(v, w, AskFields \cup Caches)
  /\ Within(v, w, IF Fits(w, event) THEN {event.from} ELSE {})

LEMMA OnCatalog ==
  ASSUME NEW w, WindowTypes(w), w.out = <<>>, NEW event \in Events,
         event.kind = "ReadSourceCatalog"
  PROVE  TakesRead(on_catalog(w, event), w, event)
<1> DEFINE v == on_catalog(w, event)
           X == IF Fits(w, event) THEN {event.from} ELSE {}
           merged == MergeCatalog(w.catalog, event.generation, event)
<1>1. merged \in Cache /\ merged.from \subseteq w.catalog.from \cup {event.from}
  BY EventShape, MergeTyped DEF WindowTypes, ReadKinds
<1>2. /\ Keeps(v, w, {"catalog_read_in_flight", "catalog"})
      /\ v.catalog_read_in_flight = FALSE
      /\ v.catalog = IF Fits(w, event) THEN merged ELSE w.catalog
  BY DEF on_catalog, WindowTypes, IsWindow, WindowFields, Keeps
<1> HIDE DEF v, merged
<1>3. WindowTypes(v)
  BY <1>1, <1>2 DEF WindowTypes, Keeps, WindowFields
<1>4. v.out = <<>> /\ InFlight(v) = InFlight(w) \ {event.kind}
  BY <1>2 DEF Keeps, WindowFields, InFlight
<1>5. Keeps(v, w, AskFields \cup Caches)
  BY <1>2 DEF Keeps, AskFields, Caches
<1>6. Within(v, w, X)
  BY <1>1, <1>2 DEF Within, Keeps, WindowFields
<1>7. QED
  BY <1>3, <1>4, <1>5, <1>6, NothingLeft DEF TakesRead, v

LEMMA OnNames ==
  ASSUME NEW w, WindowTypes(w), w.out = <<>>, NEW event \in Events,
         event.kind = "ReadQuickSelectNames"
  PROVE  TakesRead(on_names(w, event), w, event)
<1> DEFINE v == on_names(w, event)
           X == IF Fits(w, event) THEN {event.from} ELSE {}
           merged == MergeNames(w.names, event.generation, event)
<1>1. merged \in Cache /\ merged.from \subseteq w.names.from \cup {event.from}
  BY EventShape, MergeTyped DEF WindowTypes, ReadKinds
<1>2. /\ Keeps(v, w, {"names_read_in_flight", "names"})
      /\ v.names_read_in_flight = FALSE
      /\ v.names = IF Fits(w, event) THEN merged ELSE w.names
  BY DEF on_names, WindowTypes, IsWindow, WindowFields, Keeps
<1> HIDE DEF v, merged
<1>3. WindowTypes(v)
  BY <1>1, <1>2 DEF WindowTypes, Keeps, WindowFields
<1>4. v.out = <<>> /\ InFlight(v) = InFlight(w) \ {event.kind}
  BY <1>2 DEF Keeps, WindowFields, InFlight
<1>5. Keeps(v, w, AskFields \cup Caches)
  BY <1>2 DEF Keeps, AskFields, Caches
<1>6. Within(v, w, X)
  BY <1>1, <1>2 DEF Within, Keeps, WindowFields
<1>7. QED
  BY <1>3, <1>4, <1>5, <1>6, NothingLeft DEF TakesRead, v

LEMMA OnHttpInformation ==
  ASSUME NEW w, WindowTypes(w), w.out = <<>>, NEW event \in Events,
         event.kind = "ReadHttpInformation"
  PROVE  TakesRead(on_http_information(w, event), w, event)
<1> DEFINE v == on_http_information(w, event)
           X == IF Fits(w, event) THEN {event.from} ELSE {}
           result == Merge(w.information, event.generation, event)
           landed == [w EXCEPT !.http_read_in_flight = FALSE, !.http_read_again = FALSE]
           merged == IF Fits(w, event) THEN [landed EXCEPT !.information = Merge(@, event.generation, event)]
                     ELSE landed
<1>1. result \in Cache /\ result.from \subseteq w.information.from \cup {event.from}
  BY EventShape, MergeTyped DEF WindowTypes, ReadKinds
<1>2. /\ Keeps(merged, w, {"http_read_in_flight", "http_read_again", "information"})
      /\ merged.http_read_in_flight = FALSE /\ merged.http_read_again = FALSE
      /\ merged.information = IF Fits(w, event) THEN result ELSE w.information
  BY DEF WindowTypes, IsWindow, WindowFields, Keeps
<1>3. v \in {merged, request_http_information(merged)}
  BY DEF on_http_information
<1> HIDE DEF v, merged, result
<1>4. WindowTypes(merged)
  BY <1>1, <1>2 DEF WindowTypes, Keeps, WindowFields
<1>5. merged.out = <<>> /\ InFlight(merged) = InFlight(w) \ {event.kind}
  BY <1>2 DEF Keeps, WindowFields, InFlight
<1>6. Asks(v, merged)
  BY <1>3, <1>4, AsksHttp, AsksNothing
<1>7. /\ WindowTypes(v) /\ Leaves(v, InFlight(w) \ {event.kind})
      /\ Keeps(v, merged, AskFields) /\ Narrower(v, merged)
  BY <1>5, <1>6, NothingLeft DEF Asks
<1>8. Keeps(v, w, AskFields \cup Caches)
  BY <1>2, <1>7 DEF Keeps, AskFields, Caches
<1>9. Within(merged, w, X)
  BY <1>1, <1>2 DEF Within, Keeps, WindowFields
<1>10. Within(v, w, X)
  BY <1>7, <1>9 DEF Within, Narrower
<1>11. QED
  BY <1>7, <1>8, <1>10 DEF TakesRead, v

-----------------------------------------------------------------------------
\* The types.

Chosen == [receiver : Receivers, subscription : Nat]
Session == [open : BOOLEAN, last : Nat, state : State]
RefreshTask == [kind : {"Refresh"}, subscription : Nat]
ControlTask == [kind : {"Control"}, subscription : Nat, receiver : Receivers,
                id : Nat, intent : Intent, report : {"running", "Completed"},
                in : Nat]
ReadTask == [kind : ReadKinds, subscription : Nat, generation : Nat,
             from : Connection]
Tasks == RefreshTask \cup ControlTask \cup ReadTask
Report == [id : Nat, in : Nat, subscription : Nat]
Active == [session : Nat, last : SUBSET State]

\* An option holds one value at most.
AtMostOne(option) == \A x, y \in option : x = y

\* What the variables hold between two steps: the commands of a message are in
\* the channel by then.
TypeOK ==
  /\ WindowTypes(win) /\ win.out = <<>> /\ AtMostOne(win.volume)
  /\ commands \in Seq(Command) /\ events \in Seq(Events)
  /\ selected \in SUBSET Chosen /\ AtMostOne(selected)
  /\ active \in SUBSET Active /\ AtMostOne(active)
  /\ \A a \in active : AtMostOne(a.last)
  /\ tasks \in SUBSET Tasks /\ reported \in SUBSET Report
  /\ svc \in [Receivers -> Session] /\ sessions \in Nat /\ turns \in Nat

-----------------------------------------------------------------------------
\* The inductive invariant, in parts.

IsSelect(i) == commands[i].kind = "Select"

\* The bridge works for the selection the window shows.
Current == \E chosen \in selected : chosen.subscription = win.subscription

\* Before the configuration is loaded nothing was asked and nothing is known.
Unloaded ==
  /\ commands = <<>> /\ events = <<>> /\ tasks = {}
  /\ selected = None /\ active = None
  /\ Emptied(win) /\ win.volume = None /\ win.selection = None
  /\ win.subscription = 0 /\ InFlight(win) = {}

\* Selections are numbered upwards, from the window through the commands to the
\* bridge.
SelectsNumbered ==
  \A i \in 1 .. Len(commands) : IsSelect(i) =>
    /\ commands[i].id \in 1 .. win.subscription
    /\ \A chosen \in selected : chosen.subscription < commands[i].id
    /\ \A j \in 1 .. Len(commands) : IsSelect(j) /\ i < j => commands[i].id < commands[j].id

\* The bridge works for the window's selection or will get it, or there is none.
SelectionKnown ==
  \/ Current
  \/ \E i \in 1 .. Len(commands) : IsSelect(i) /\ commands[i].id = win.subscription
  \/ /\ win.subscription = 0 /\ win.selection = None
     /\ win.volume = None /\ InFlight(win) = {}

\* Tasks and events are of the bridge's selection or an earlier one.
TasksNumbered ==
  \A task \in tasks : \E chosen \in selected : task.subscription \in 1 .. chosen.subscription
EventsNumbered ==
  \A i \in 1 .. Len(events) :
    \/ events[i].subscription = 0 /\ events[i].kind = "Failed"
    \/ \E chosen \in selected : events[i].subscription \in 1 .. chosen.subscription

Numbered ==
  /\ win.loaded \/ Unloaded
  /\ win.subscription <= win.requests
  /\ \A chosen \in selected : chosen.subscription \in 1 .. win.subscription
  /\ SelectsNumbered /\ SelectionKnown /\ TasksNumbered /\ EventsNumbered
  /\ \A e \in reported : e.subscription <= win.subscription

\* Sessions have numbers of their own.
ServiceInv ==
  \A r \in Receivers :
    /\ svc[r].state.session <= sessions
    /\ svc[r].open => svc[r].state.session # 0
    /\ svc[r].state.epoch \in {0, svc[r].last}
    /\ \A q \in Receivers : svc[q].state.session = svc[r].state.session =>
                              q = r \/ svc[r].state.session = 0

\* A subscription is to the open session of its receiver, or holds the last state
\* of one that is closed.
ActiveInv ==
  \A a \in active, chosen \in selected :
    /\ a.session \in 1 .. sessions
    /\ a.session <= svc[chosen.receiver].state.session
    /\ a.last = None => /\ svc[chosen.receiver].open
                        /\ svc[chosen.receiver].state.session = a.session
    /\ \A x \in a.last : /\ x.session = a.session
                         /\ \A r \in Receivers : svc[r].open => svc[r].state.session # a.session

SessionsInv == (active # None => selected # None) /\ ServiceInv /\ ActiveInv

\* An event under the selection the window shows, by what it tells.
Mine(i) == events[i].subscription = win.subscription
StateAt(i) == Mine(i) /\ events[i].kind = "State"
TellsAt(i) == Mine(i) /\ events[i].kind \in {"State", "ConnectFailed"}

\* A command that the bridge will take for the selection the window shows.
NoSelectFrom(i) == \A j \in i .. Len(commands) : ~IsSelect(j)

IsRead(m) == m.kind \in ReadKinds

\* Control `id` took effect in session s: every state of it from then on shows it.
Effective(id, s) ==
  /\ s \in 1 .. sessions
  /\ \A r \in Receivers : svc[r].state.session = s => id \in svc[r].state.shows
  /\ \A a \in active : \A x \in a.last : x.session = s => id \in x.shows

IsCompleted(m) == m.kind = "Control" /\ m.report = "Completed"

EffectsInv ==
  /\ \A task \in tasks : IsCompleted(task) => Effective(task.id, task.in)
  /\ \A i \in 1 .. Len(events) : IsCompleted(events[i]) => Effective(events[i].id, events[i].in)
  /\ \A e \in reported : Effective(e.id, e.in)

\* The states the window shows, i = 0, or will show by the i-th event.
Told(i) == IF i = 0 THEN win.state
           ELSE IF StateAt(i) THEN {events[i].state} ELSE {}
Tells(i) == i = 0 \/ TellsAt(i)

\* A state of the session in which e took effect includes it.
Includes(x, e) == x.session = e.in => e.id \in x.shows

\* What was told last is what the bridge notes to have forwarded.
ForwardedInv ==
  Current => \E k \in 0 .. Len(events) :
    /\ Tells(k) /\ \A i \in k + 1 .. Len(events) : ~TellsAt(i)
    /\ \A x \in Told(k) : \E a \in active : x.session = a.session /\ forwarded = Some(stamp(x))

\* What is told before a report, and after it, includes its effect; so does
\* everything once the window was told.
ReportsInv ==
  /\ \A j \in 1 .. Len(events) : IsCompleted(events[j]) /\ Mine(j) =>
       \E k \in 0 .. j - 1 :
         /\ Tells(k)
         /\ \A i \in k .. Len(events) : Tells(i) => \A x \in Told(i) : Includes(x, events[j])
  /\ \A e \in reported : e.subscription = win.subscription =>
       \A i \in 0 .. Len(events) : Tells(i) => \A x \in Told(i) : Includes(x, e)

-----------------------------------------------------------------------------
\* Facts about sequences and options.

LEMMA Appended ==
  ASSUME NEW S, NEW a \in Seq(S), NEW b \in Seq(S)
  PROVE  /\ a \o b \in Seq(S) /\ Len(a \o b) = Len(a) + Len(b)
         /\ Len(a) \in Nat /\ Len(b) \in Nat
         /\ \A i \in 1 .. Len(a) : (a \o b)[i] = a[i]
         /\ \A i \in Len(a) + 1 .. Len(a) + Len(b) : (a \o b)[i] = b[i - Len(a)]
         /\ \A i \in 1 .. Len(b) : (a \o b)[Len(a) + i] = b[i]
OBVIOUS

LEMMA Shifted ==
  ASSUME NEW S, NEW a \in Seq(S), a # <<>>
  PROVE  /\ Tail(a) \in Seq(S) /\ Len(Tail(a)) = Len(a) - 1 /\ Len(a) \in Nat \ {0}
         /\ Head(a) = a[1] /\ Head(a) \in S
         /\ \A i \in 1 .. Len(a) - 1 : Tail(a)[i] = a[i + 1]
OBVIOUS

LEMMA TheOne == ASSUME NEW x PROVE The({x}) = x
BY DEF The

LEMMA OneOrNone ==
  ASSUME NEW option, AtMostOne(option), option # None
  PROVE  option = {The(option)}
<1>1. PICK x : x \in option
  BY DEF None
<1>2. option = {x}
  BY <1>1 DEF AtMostOne
<1>3. QED
  BY <1>2, TheOne

-----------------------------------------------------------------------------
\* The steps of the window, by what they change.

\* s is left by a message, and none of it is a selection.
Asked(s) ==
  /\ s \in Seq(Command) /\ commands' = commands \o s
  /\ \A i \in 1 .. Len(s) :
       /\ s[i].kind # "Select"
       /\ IsRead(s[i]) => /\ s[i].from = win'.connection
                          /\ s[i].generation = win'.generation

\* What the window waits for, it waited for before, or it is in s.
Awaited(s, before) ==
  /\ \A k \in InFlight(win') : k \in before \/ Has(s, k)
  /\ \/ win'.volume \subseteq win.volume
     \/ \E i \in 1 .. Len(s) : s[i].kind = "Control" /\ win'.volume = {s[i].id}

\* A message from the user or the clock that does not select a receiver.
Quiet ==
  /\ WindowTypes(win') /\ win'.out = <<>> /\ AtMostOne(win'.volume)
  /\ win'.subscription = win.subscription /\ win'.connection = win.connection
  /\ win'.generation = win.generation /\ win'.state = win.state
  /\ win'.selection = win.selection /\ win.requests <= win'.requests
  /\ \/ win'.lifecycle = win.lifecycle
     \/ win.lifecycle = "Disconnected" /\ win'.lifecycle = "Connecting"
  /\ Narrower(win', win)
  /\ win.loaded => win'.loaded
  /\ win.closing => win'.closing
  /\ win.selection = None =>
       win'.volume \subseteq win.volume /\ InFlight(win') \subseteq InFlight(win)
  /\ win'.loaded \/ UNCHANGED commands
  /\ \E s : Asked(s) /\ Awaited(s, InFlight(win))
  /\ UNCHANGED <<bridge, tasks, events, svc, sessions, reported>>
  /\ turns' \in Nat

\* A receiver is selected, and nothing of an earlier selection is kept.
Reselect ==
  /\ WindowTypes(win') /\ win'.out = <<>> /\ win'.loaded
  /\ win'.requests = win.requests + 1 /\ win'.subscription = win.requests + 1
  /\ win'.connection = Unconnected /\ win'.lifecycle = "Selected"
  /\ win'.state = None /\ win'.volume = None /\ InFlight(win') = {}
  /\ Emptied(win')
  /\ \E r \in Receivers :
       commands' = Append(commands, [kind |-> "Select", id |-> win.requests + 1, receiver |-> r])
  /\ UNCHANGED <<bridge, tasks, events, service, reported>>

LEMMA Updated ==
  ASSUME NEW v, IsWindow(v), Update(v)
  PROVE  /\ Keeps(win', v, {"out"}) /\ win'.out = <<>>
         /\ commands' = commands \o v.out
BY DEF Update, Keeps, IsWindow, WindowFields

LEMMA UpdatedTypes ==
  ASSUME NEW v, WindowTypes(v), Update(v)
  PROVE  /\ WindowTypes(win') /\ Keeps(win', v, {"out"}) /\ win'.out = <<>>
         /\ commands' = commands \o v.out /\ InFlight(win') = InFlight(v)
         /\ Narrower(win', v)
<1>1. Keeps(win', v, {"out"}) /\ win'.out = <<>> /\ commands' = commands \o v.out
  BY Updated DEF WindowTypes
<1>2. WindowTypes(win')
  BY <1>1 DEF Keeps, WindowTypes, WindowFields
<1>3. InFlight(win') = InFlight(v) /\ Narrower(win', v)
  BY <1>1 DEF Keeps, InFlight, WindowFields, Narrower
<1>4. QED
  BY <1>1, <1>2, <1>3

\* The quiet fields: all but what a message may change without selecting.
QuietFields == {"requests", "lifecycle", "volume", "sound_mode", "loaded", "launch_ready",
                "closing", "closed"} \cup AskFields

\* What makes an Update quiet.
LEMMA QuietUpdate ==
  ASSUME TypeOK, NEW v, WindowTypes(v), Update(v), Keeps(v, win, QuietFields),
         Narrower(v, win), win.requests <= v.requests, AtMostOne(v.volume),
         \/ v.lifecycle = win.lifecycle
         \/ win.lifecycle = "Disconnected" /\ v.lifecycle = "Connecting",
         win.loaded => v.loaded, win.closing => v.closing,
         win.selection = None =>
           v.volume \subseteq win.volume /\ InFlight(v) \subseteq InFlight(win),
         v.loaded \/ v.out = <<>>,
         \A i \in 1 .. Len(v.out) :
           /\ v.out[i].kind # "Select"
           /\ IsRead(v.out[i]) => /\ v.out[i].from = win.connection
                                  /\ v.out[i].generation = win.generation,
         \A k \in InFlight(v) : k \in InFlight(win) \/ Has(v.out, k),
         \/ v.volume \subseteq win.volume
         \/ \E i \in 1 .. Len(v.out) : v.out[i].kind = "Control" /\ v.volume = {v.out[i].id},
         UNCHANGED <<bridge, tasks, events, svc, sessions, reported>>, turns' \in Nat
  PROVE  Quiet
<1>1. /\ WindowTypes(win') /\ Keeps(win', v, {"out"}) /\ win'.out = <<>>
      /\ commands' = commands \o v.out /\ InFlight(win') = InFlight(v)
      /\ Narrower(win', v)
  BY UpdatedTypes
<1>2. /\ win'.subscription = win.subscription /\ win'.connection = win.connection
      /\ win'.generation = win.generation /\ win'.state = win.state
      /\ win'.selection = win.selection
  BY <1>1 DEF Keeps, QuietFields, AskFields, WindowFields
<1>3. /\ win'.requests = v.requests /\ win'.lifecycle = v.lifecycle
      /\ win'.volume = v.volume /\ win'.loaded = v.loaded /\ win'.closing = v.closing
  BY <1>1 DEF Keeps, WindowFields
<1>4. Narrower(win', win)
  BY <1>1 DEF Narrower
<1>5. Asked(v.out) /\ Awaited(v.out, InFlight(win))
  BY <1>1, <1>2, <1>3 DEF Asked, Awaited, WindowTypes
<1>6. v.out = <<>> => commands' = commands
  BY <1>1 DEF TypeOK
<1>7. QED
  BY <1>1, <1>2, <1>3, <1>4, <1>5, <1>6 DEF Quiet

\* An Update that only asks for reads.
LEMMA QuietAsks ==
  ASSUME TypeOK, NEW v, Asks(v, win), Update(v), v = win \/ win.selection # None,
         win.loaded \/ v = win,
         UNCHANGED <<bridge, tasks, events, svc, sessions, reported>>, turns' \in Nat
  PROVE  Quiet
<1>1. WindowTypes(v) /\ Keeps(v, win, AskFields) /\ Narrower(v, win) /\ Leaves(v, InFlight(win))
  BY NothingLeft DEF Asks, TypeOK
<1>2. /\ Keeps(v, win, QuietFields) /\ v.requests = win.requests /\ v.lifecycle = win.lifecycle
      /\ v.volume = win.volume /\ v.loaded = win.loaded /\ v.closing = win.closing
      /\ v.generation = win.generation /\ v.connection = win.connection
  BY <1>1 DEF Keeps, QuietFields, AskFields, WindowFields
<1>3. win.requests \in Nat /\ AtMostOne(v.volume)
  BY <1>2 DEF TypeOK, WindowTypes
<1>4. \A i \in 1 .. Len(v.out) : v.out[i].kind # "Select"
  <2>1. \A i \in 1 .. Len(v.out) : v.out[i] \in ReadCommand
    BY <1>1 DEF Leaves
  <2>2. QED
    BY <2>1 DEF ReadCommand, ReadKinds
<1>5. \A i \in 1 .. Len(v.out) : /\ v.out[i].from = win.connection
                                 /\ v.out[i].generation = win.generation
  BY <1>1, <1>2 DEF Leaves
<1>6. \A k \in InFlight(v) : k \in InFlight(win) \/ Has(v.out, k)
  BY <1>1 DEF Leaves
<1>7. win.selection = None => v = win
  OBVIOUS
<1>8. v.loaded \/ v.out = <<>>
  BY <1>2 DEF TypeOK
<1>9. QED
  BY <1>1, <1>2, <1>3, <1>4, <1>5, <1>6, <1>7, <1>8, QuietUpdate

LEMMA OtherTyped == \A x \in Values : Other(x) \in Values
BY DEF Values, Other

LEMMA FieldTyped == \A c \in Controls : FieldOf(c) \in Fields
BY WindowAssumption DEF FieldOf, Fields

LEMMA UsualTyped == Usual \in [Fields -> Values]
BY DEF Usual, Fields, Values

LEMMA GuardTyped ==
  ASSUME NEW w, WindowTypes(w), NEW c \in Controls
  PROVE  guard_for(w, c) \in SUBSET SUBSET Values
<1>1. \A x \in w.state : usable(x, FieldOf(c)) \in SUBSET Values
  BY FieldTyped DEF WindowTypes, State, usable, Some, None
<1>2. QED
  BY <1>1 DEF guard_for, None

\* A control the user touches: one command, one more request.
LEMMA QuietControl ==
  ASSUME TypeOK, NEW w, NEW c \in Controls, NEW value \in Values,
         Keeps(w, win, {"requests", "volume", "sound_mode"}),
         w.requests = win.requests + 1, w.sound_mode \in SUBSET Nat,
         \/ w.volume = win.volume
         \/ w.volume = Some(win.requests + 1) /\ win.selection # None,
         win.loaded, Update(submit(w, win.requests + 1, c, value)), UserStep
  PROVE  Quiet
<1> DEFINE id == win.requests + 1
           command == [kind |-> "Control", id |-> id, guard |-> guard_for(w, c),
                       intent |-> [control |-> c, value |-> value]]
           v == submit(w, id, c, value)
<1>1. win.requests \in Nat /\ id \in Nat /\ win.out = <<>> /\ WindowTypes(win)
  BY DEF TypeOK, WindowTypes
<1>2. WindowTypes(w)
  BY <1>1 DEF WindowTypes, Keeps, WindowFields, Some
<1>3. w.out = <<>> /\ InFlight(w) = InFlight(win) /\ Narrower(w, win)
  BY <1>1 DEF Keeps, WindowFields, InFlight, Narrower
<1>4. command \in ControlCommand /\ command \in Command
  BY <1>1, <1>2, GuardTyped DEF ControlCommand, Intent, Command
<1>5. Keeps(v, w, {"out"}) /\ v.out = Append(w.out, command)
  BY <1>2 DEF submit, Leave, WindowTypes, IsWindow, WindowFields, Keeps
<1>6. command.kind = "Control" /\ command.id = id
  OBVIOUS
<1> HIDE DEF command, v, id
<1>7. v.out = <<command>> /\ v.out \in Seq(Command) /\ Len(v.out) = 1 /\ v.out[1] = command
  BY <1>3, <1>4, <1>5
<1>8. WindowTypes(v)
  BY <1>2, <1>5, <1>7 DEF WindowTypes, Keeps, WindowFields
<1>9. Keeps(v, win, QuietFields)
  BY <1>5 DEF Keeps, QuietFields, AskFields
<1>10. /\ InFlight(v) = InFlight(win) /\ Narrower(v, win) /\ v.requests = id
       /\ v.volume = w.volume /\ v.lifecycle = win.lifecycle
       /\ v.loaded = win.loaded /\ v.closing = win.closing
  BY <1>3, <1>5 DEF InFlight, Keeps, WindowFields, Narrower, id
<1>11. \A i \in 1 .. Len(v.out) : v.out[i].kind = "Control"
  BY <1>6, <1>7
<1>12. win.requests <= v.requests
  BY <1>1, <1>10 DEF id
<1>13. AtMostOne(v.volume)
  BY <1>10 DEF TypeOK, AtMostOne, Some
<1>14. \/ v.volume \subseteq win.volume
       \/ \E i \in 1 .. Len(v.out) : v.out[i].kind = "Control" /\ v.volume = {v.out[i].id}
  BY <1>6, <1>7, <1>10 DEF Some, id
<1>15. /\ UNCHANGED <<bridge, tasks, events, svc, sessions, reported>> /\ turns' \in Nat
  BY DEF UserStep, service, TypeOK
<1>16. win.selection = None => v.volume \subseteq win.volume
  BY <1>10
<1>17. Update(v)
  BY DEF v, id
<1>18. \A i \in 1 .. Len(v.out) : v.out[i].kind # "Select" /\ ~IsRead(v.out[i])
  BY <1>11 DEF IsRead, ReadKinds
<1>19. QED
  BY <1>8, <1>9, <1>10, <1>12, <1>13, <1>14, <1>15, <1>16, <1>17, <1>18, QuietUpdate

LEMMA ControlsAreQuiet ==
  ASSUME TypeOK,
         \/ AdjustVolume \/ CommitVolume \/ SelectSoundMode \/ control
         \/ toggle_main_zone_power
  PROVE  Quiet
<1> DEFINE asks == next_request(win)
           louder == [asks EXCEPT !.volume = Some(win.requests + 1)]
           mode == [asks EXCEPT !.sound_mode = Some(win.requests + 1)]
           moves == {"requests", "volume", "sound_mode"}
<1>1. /\ Keeps(asks, win, moves) /\ asks.requests = win.requests + 1
      /\ asks.volume = win.volume /\ asks.sound_mode = win.sound_mode
  BY DEF TypeOK, WindowTypes, IsWindow, WindowFields, Keeps, next_request
<1>2. /\ Keeps(louder, win, moves) /\ louder.requests = win.requests + 1
      /\ louder.volume = Some(win.requests + 1) /\ louder.sound_mode = win.sound_mode
  BY DEF TypeOK, WindowTypes, IsWindow, WindowFields, Keeps, next_request
<1>3. /\ Keeps(mode, win, moves) /\ mode.requests = win.requests + 1
      /\ mode.volume = win.volume /\ mode.sound_mode = Some(win.requests + 1)
  BY DEF TypeOK, WindowTypes, IsWindow, WindowFields, Keeps, next_request
<1>4. win.sound_mode \in SUBSET Nat /\ Some(win.requests + 1) \in SUBSET Nat
  BY DEF TypeOK, WindowTypes, Some
<1>5. CASE AdjustVolume \/ CommitVolume
  <2>1. /\ "Volume" \in Controls /\ win.loaded /\ win.selection # None /\ UserStep
        /\ Update(submit(louder, win.requests + 1, "Volume", "high"))
    BY <1>5 DEF AdjustVolume, CommitVolume, submit_volume, MayAsk, volume_is_interactive
  <2> HIDE DEF louder
  <2>2. "high" \in Values
    BY DEF Values
  <2>3. QED
    BY <1>2, <1>4, <2>1, <2>2, QuietControl
<1>6. CASE SelectSoundMode
  <2>1. /\ "SoundMode" \in Controls /\ win.loaded /\ UserStep
        /\ Update(submit(mode, win.requests + 1, "SoundMode", "movie"))
    BY <1>6 DEF SelectSoundMode, control_sound_mode, MayAsk
  <2> HIDE DEF mode
  <2>2. "movie" \in Values
    BY DEF Values
  <2>3. QED
    BY <1>3, <1>4, <2>1, <2>2, QuietControl
<1>7. CASE control
  <2>1. PICK c \in Controls \cap {"Input", "Mute"} :
          Update(submit(asks, win.requests + 1, c, Other(Usual[FieldOf(c)])))
    BY <1>7 DEF control
  <2>2. win.loaded /\ UserStep
    BY <1>7 DEF control, MayAsk
  <2>3. Other(Usual[FieldOf(c)]) \in Values
    BY UsualTyped, FieldTyped, OtherTyped
  <2> HIDE DEF asks
  <2>4. QED
    BY <1>1, <1>4, <2>1, <2>2, <2>3, QuietControl
<1>8. CASE toggle_main_zone_power
  <2>1. PICK shown \in win.snapshot.power :
          Update(submit(asks, win.requests + 1, "Power", Other(shown)))
    BY <1>8 DEF toggle_main_zone_power
  <2>2. win.loaded /\ UserStep /\ "Power" \in Controls
    BY <1>8 DEF toggle_main_zone_power, MayAsk
  <2>3. Other(shown) \in Values
    BY OtherTyped DEF TypeOK, WindowTypes, Fields
  <2> HIDE DEF asks
  <2>4. QED
    BY <1>1, <1>4, <2>1, <2>2, <2>3, QuietControl
<1>9. QED
  BY <1>5, <1>6, <1>7, <1>8

LEMMA ReadsAreQuiet ==
  ASSUME TypeOK, Numbered, HttpTick \/ OpenSourcePicker \/ RefreshSourceCatalog
  PROVE  Quiet
<1> DEFINE information == request_http_information(win)
           catalog == request_source_catalog(win)
<1>1. Asks(information, win) /\ Asks(catalog, win)
  BY AsksHttp, AsksCatalog DEF TypeOK
<1>2. win.selection = None => information = win /\ catalog = win
  BY DEF request_http_information, request_source_catalog
<1>3. win.loaded \/ win.selection = None
  BY DEF Numbered, Unloaded
<1>4. /\ UNCHANGED <<bridge, tasks, events, svc, sessions, reported>> /\ turns' \in Nat
  BY DEF HttpTick, OpenSourcePicker, RefreshSourceCatalog, Timely, Disturb, TypeOK
<1>5. \E v \in {information, catalog} : Update(v)
  BY DEF HttpTick, OpenSourcePicker, RefreshSourceCatalog
<1> HIDE DEF information, catalog
<1>6. QED
  BY <1>1, <1>2, <1>3, <1>4, <1>5, QuietAsks

\* An update of fields nothing here is about.
LEMMA QuietPlain ==
  ASSUME TypeOK, NEW v, WindowTypes(v), Update(v),
         Keeps(v, win, {"sound_mode", "loaded", "launch_ready", "closing", "closed"}),
         win.loaded => v.loaded, win.closing => v.closing,
         UNCHANGED <<bridge, tasks, events, svc, sessions, reported>>, turns' \in Nat
  PROVE  Quiet
<1>1. /\ Keeps(v, win, QuietFields) /\ Narrower(v, win) /\ v.requests = win.requests
      /\ v.volume = win.volume /\ v.lifecycle = win.lifecycle
      /\ InFlight(v) = InFlight(win) /\ v.out = <<>>
  BY DEF TypeOK, Keeps, QuietFields, AskFields, WindowFields, Narrower, InFlight
<1>2. win.requests \in Nat /\ AtMostOne(v.volume)
  BY <1>1 DEF TypeOK, WindowTypes
<1>3. Len(v.out) = 0
  BY <1>1
<1>4. QED
  BY <1>1, <1>2, <1>3, QuietUpdate

LEMMA ClosingIsQuiet ==
  ASSUME TypeOK, CloseRequested \/ ShutdownFinished \/ SoundModeControlTimedOut
  PROVE  Quiet
<1> DEFINE closed == [win EXCEPT !.closed = TRUE]
           closing == [win EXCEPT !.closing = TRUE]
           timed == [win EXCEPT !.sound_mode = None]
           plain == {"sound_mode", "loaded", "launch_ready", "closing", "closed"}
<1>1. Keeps(closed, win, plain) /\ closed.closed = TRUE /\ WindowTypes(closed)
      /\ closed.closing = win.closing /\ closed.loaded = win.loaded
  BY DEF TypeOK, WindowTypes, IsWindow, WindowFields, Keeps
<1>2. Keeps(closing, win, plain) /\ closing.closing = TRUE /\ WindowTypes(closing)
      /\ closing.loaded = win.loaded
  BY DEF TypeOK, WindowTypes, IsWindow, WindowFields, Keeps
<1>3. Keeps(timed, win, plain) /\ WindowTypes(timed)
      /\ timed.closing = win.closing /\ timed.loaded = win.loaded
  BY DEF TypeOK, WindowTypes, IsWindow, WindowFields, Keeps, None
<1>4. /\ UNCHANGED <<bridge, tasks, events, svc, sessions, reported>> /\ turns' \in Nat
  BY DEF CloseRequested, ShutdownFinished, SoundModeControlTimedOut, UserStep, service,
     Timely, Disturb, TypeOK
<1>5. \E v \in {closed, closing, timed} : Update(v)
  BY DEF CloseRequested, ShutdownFinished, SoundModeControlTimedOut
<1> HIDE DEF closed, closing, timed
<1>6. QED
  BY <1>1, <1>2, <1>3, <1>4, <1>5, QuietPlain

LEMMA RefreshIsQuiet ==
  ASSUME TypeOK, Refresh
  PROVE  Quiet
<1> DEFINE id == win.requests + 1
           command == [kind |-> "Refresh", id |-> id]
           w == [next_request(win) EXCEPT
                   !.lifecycle = IF @ = "Disconnected" THEN "Connecting" ELSE @]
           v == Leave(w, command)
<1>1. win.requests \in Nat /\ id \in Nat /\ win.out = <<>> /\ WindowTypes(win)
  BY DEF TypeOK, WindowTypes
<1>2. command \in Command /\ command.kind = "Refresh"
  BY <1>1 DEF Command, RefreshCommand
<1>3. /\ Keeps(w, win, {"requests", "lifecycle"}) /\ w.requests = id
      /\ \/ w.lifecycle = win.lifecycle
         \/ win.lifecycle = "Disconnected" /\ w.lifecycle = "Connecting"
  BY <1>1 DEF WindowTypes, IsWindow, WindowFields, Keeps, next_request
<1>4. Update(v) /\ UserStep /\ win.loaded
  BY DEF Refresh, MayAsk
<1> HIDE DEF command, w, id
<1>5. WindowTypes(w)
  BY <1>1, <1>3 DEF WindowTypes, Keeps, WindowFields, Lifecycles
<1>6. Keeps(v, w, {"out"}) /\ v.out = Append(w.out, command)
  BY <1>5 DEF Leave, WindowTypes, IsWindow, WindowFields, Keeps
<1>7. w.out = <<>> /\ InFlight(w) = InFlight(win) /\ Narrower(w, win)
  BY <1>1, <1>3 DEF Keeps, WindowFields, InFlight, Narrower
<1> HIDE DEF v
<1>8. v.out = <<command>> /\ v.out \in Seq(Command) /\ Len(v.out) = 1 /\ v.out[1] = command
  BY <1>2, <1>6, <1>7
<1>9. WindowTypes(v)
  BY <1>5, <1>6, <1>8 DEF WindowTypes, Keeps, WindowFields
<1>10. /\ Keeps(v, win, QuietFields) /\ InFlight(v) = InFlight(win) /\ Narrower(v, win)
       /\ v.requests = id /\ v.volume = win.volume /\ v.lifecycle = w.lifecycle
       /\ v.loaded = win.loaded /\ v.closing = win.closing
  BY <1>3, <1>6, <1>7
     DEF InFlight, Keeps, WindowFields, Narrower, QuietFields, AskFields
<1>11. \A i \in 1 .. Len(v.out) : v.out[i].kind # "Select" /\ ~IsRead(v.out[i])
  BY <1>2, <1>8 DEF IsRead, ReadKinds
<1>12. win.requests <= v.requests /\ AtMostOne(v.volume)
  BY <1>1, <1>10 DEF id, TypeOK
<1>13. /\ UNCHANGED <<bridge, tasks, events, svc, sessions, reported>> /\ turns' \in Nat
  BY <1>4 DEF UserStep, service, TypeOK
<1>14. QED
  BY <1>3, <1>4, <1>9, <1>10, <1>11, <1>12, <1>13, QuietUpdate

\* connect_to, on a window that shows nothing.
LEMMA ConnectTo ==
  ASSUME TypeOK, NEW w, WindowTypes(w), w.out = <<>>, Emptied(w), w.volume = None,
         w.loaded, w.requests = win.requests, NEW r \in Receivers,
         Update(connect_to(w, r)), UserStep
  PROVE  Reselect
<1> DEFINE id == w.requests + 1
           command == [kind |-> "Select", id |-> id, receiver |-> r]
           v == connect_to(w, r)
           moved == {"requests", "subscription", "state", "generation", "lifecycle", "connection",
                     "http_read_in_flight", "http_read_again", "catalog_read_in_flight",
                     "names_read_in_flight", "catalog_auto_generation", "out"}
           a == next_request(w)
           b == [a EXCEPT !.subscription = id, !.state = None, !.generation = 0,
                          !.lifecycle = "Selected", !.connection = Unconnected,
                          !.http_read_in_flight = FALSE, !.http_read_again = FALSE,
                          !.catalog_read_in_flight = FALSE, !.names_read_in_flight = FALSE,
                          !.catalog_auto_generation = None]
<1>1. w.requests \in Nat /\ id \in Nat
  BY DEF WindowTypes
<1>2. command \in Command /\ Unconnected \in Connection
  BY <1>1 DEF Command, SelectCommand, Unconnected, Connection
<1>3. /\ Keeps(v, w, moved) /\ v.requests = id /\ v.subscription = id /\ v.state = None
      /\ v.generation = 0 /\ v.lifecycle = "Selected" /\ v.connection = Unconnected
      /\ v.http_read_in_flight = FALSE /\ v.http_read_again = FALSE
      /\ v.catalog_read_in_flight = FALSE /\ v.names_read_in_flight = FALSE
      /\ v.out = Append(w.out, command)
  <2>1. Keeps(a, w, {"requests"}) /\ a.requests = id
    BY DEF next_request, WindowTypes, IsWindow, WindowFields, Keeps
  <2> HIDE DEF a, id
  <2>2. /\ Keeps(b, a, moved) /\ b.subscription = id /\ b.state = None
        /\ b.requests = a.requests /\ b.out = a.out
    BY <2>1 DEF IsWindow, WindowFields, Keeps
  <2>3. /\ b.generation = 0 /\ b.lifecycle = "Selected" /\ b.connection = Unconnected
        /\ b.http_read_in_flight = FALSE /\ b.http_read_again = FALSE
        /\ b.catalog_read_in_flight = FALSE /\ b.names_read_in_flight = FALSE
    BY <2>1 DEF IsWindow, WindowFields, Keeps
  <2>4. v = Leave(b, command)
    BY DEF connect_to, b, a, id, command
  <2> HIDE DEF b, command, v
  <2>5. Keeps(v, b, {"out"}) /\ v.out = Append(b.out, command)
    BY <2>2, <2>4 DEF Leave, IsWindow, WindowFields, Keeps
  <2>6. Keeps(v, w, moved)
    BY <2>1, <2>2, <2>5 DEF Keeps
  <2>7. v.out = Append(w.out, command) /\ v.requests = id
    BY <2>1, <2>2, <2>5 DEF Keeps, WindowFields
  <2>8. QED
    BY <2>2, <2>3, <2>5, <2>6, <2>7 DEF Keeps, WindowFields
<1> HIDE DEF v, command, id
<1>4. v.out = <<command>> /\ v.out \in Seq(Command)
  BY <1>2, <1>3
<1>5. /\ IsWindow(v) /\ v.selection = w.selection /\ v.snapshot = w.snapshot
      /\ v.information = w.information /\ v.catalog = w.catalog /\ v.names = w.names
      /\ v.volume = w.volume /\ v.sound_mode = w.sound_mode
      /\ v.loaded = w.loaded /\ v.closing = w.closing /\ v.closed = w.closed
  BY <1>3 DEF Keeps, WindowFields
<1>6. WindowTypes(v)
  <2>1. v.requests \in Nat /\ v.subscription \in Nat /\ v.generation \in Nat
    BY <1>1, <1>3
  <2>2. v.lifecycle \in Lifecycles /\ v.state \in SUBSET State
    BY <1>3 DEF Lifecycles, None
  <2>3. QED
    BY <1>2, <1>3, <1>4, <1>5, <2>1, <2>2 DEF WindowTypes
<1>7. Emptied(v) /\ v.volume = None /\ v.loaded /\ InFlight(v) = {}
  BY <1>3, <1>5 DEF Emptied, InFlight
<1>8. Update(v)
  BY DEF v
<1>9. /\ WindowTypes(win') /\ Keeps(win', v, {"out"}) /\ win'.out = <<>>
      /\ commands' = commands \o v.out /\ InFlight(win') = {}
  BY <1>6, <1>7, <1>8, UpdatedTypes
<1>10. /\ win'.loaded /\ win'.requests = id /\ win'.subscription = id
       /\ win'.connection = Unconnected /\ win'.lifecycle = "Selected"
       /\ win'.state = None /\ win'.volume = None /\ Emptied(win')
  BY <1>3, <1>7, <1>9 DEF Keeps, WindowFields, Emptied
<1>11. commands' = Append(commands, command)
  BY <1>2, <1>4, <1>9 DEF TypeOK
<1>12. QED
  BY <1>9, <1>10, <1>11 DEF Reselect, UserStep, command, id

LEMMA SelectingSteps ==
  ASSUME TypeOK, Numbered, ConfigLoaded \/ Select
  PROVE  Quiet \/ Reselect
<1>1. CASE ConfigLoaded /\ \E r \in Receivers :
             Update(connect_to([win EXCEPT !.loaded = TRUE, !.selection = Some(r)], r))
  <2>1. PICK r \in Receivers :
          Update(connect_to([win EXCEPT !.loaded = TRUE, !.selection = Some(r)], r))
    BY <1>1
  <2> DEFINE w == [win EXCEPT !.loaded = TRUE, !.selection = Some(r)]
  <2>2. Keeps(w, win, {"loaded", "selection"}) /\ w.loaded = TRUE /\ w.selection = Some(r)
    BY DEF TypeOK, WindowTypes, IsWindow, WindowFields, Keeps
  <2>3. Unloaded /\ UserStep
    BY <1>1 DEF ConfigLoaded, Numbered
  <2> HIDE DEF w
  <2>4. WindowTypes(w)
    BY <2>2 DEF TypeOK, WindowTypes, Keeps, WindowFields, Some
  <2>5. w.out = <<>> /\ Emptied(w) /\ w.volume = None /\ w.requests = win.requests
    BY <2>2, <2>3 DEF TypeOK, Keeps, WindowFields, Unloaded, Emptied
  <2>6. Update(connect_to(w, r))
    BY <2>1 DEF w
  <2>7. QED
    BY <2>2, <2>3, <2>4, <2>5, <2>6, ConnectTo
<1>2. CASE ConfigLoaded /\ Update([win EXCEPT !.loaded = TRUE, !.launch_ready = TRUE])
  <2> DEFINE w == [win EXCEPT !.loaded = TRUE, !.launch_ready = TRUE]
  <2>1. /\ Keeps(w, win, {"sound_mode", "loaded", "launch_ready", "closing", "closed"})
        /\ WindowTypes(w) /\ w.loaded = TRUE /\ w.closing = win.closing
    BY DEF TypeOK, WindowTypes, IsWindow, WindowFields, Keeps
  <2>2. /\ UNCHANGED <<bridge, tasks, events, svc, sessions, reported>> /\ turns' \in Nat
    BY <1>2 DEF ConfigLoaded, UserStep, service, TypeOK
  <2> HIDE DEF w
  <2>3. Update(w)
    BY <1>2 DEF w
  <2>4. QED
    BY <2>1, <2>2, <2>3, QuietPlain
<1>3. CASE Select
  <2>1. PICK r \in Receivers :
          Update(connect_to(reset_pending_controls(invalidate_supplemental(
                   [win EXCEPT !.selection = Some(r), !.snapshot = NotQueried])), r))
    BY <1>3 DEF Select
  <2>2. UserStep /\ win.loaded
    BY <1>3 DEF Select, MayAsk
  <2> DEFINE a == [win EXCEPT !.selection = Some(r), !.snapshot = NotQueried]
             b == invalidate_supplemental(a)
             w == reset_pending_controls(b)
  <2>3. /\ Keeps(a, win, {"selection", "snapshot"}) /\ a.selection = Some(r)
        /\ a.snapshot = NotQueried
    BY DEF TypeOK, WindowTypes, IsWindow, WindowFields, Keeps
  <2> HIDE DEF a
  <2>4. IsWindow(a) /\ a.generation \in Nat
    BY <2>3 DEF Keeps, TypeOK, WindowTypes, WindowFields
  <2>5. Keeps(b, a, Caches) /\ Emptied(b)
    BY <2>4, InvalidateSupplemental
  <2> HIDE DEF b
  <2>6. Keeps(w, b, Waiting) /\ w.volume = None /\ w.sound_mode = None
    BY <2>5, ResetPendingControls DEF Keeps
  <2> HIDE DEF w
  <2>7. Keeps(w, win, {"selection", "snapshot"} \cup Caches \cup Waiting) /\ Emptied(w)
    BY <2>3, <2>5, <2>6 DEF Keeps, Caches, Waiting, Emptied, WindowFields
  <2>8. w.selection = Some(r) /\ w.snapshot = NotQueried
    BY <2>3, <2>5, <2>6 DEF Keeps, Caches, Waiting, WindowFields
  <2>9. WindowTypes(w)
    BY <2>6, <2>7, <2>8, NotQueriedTyped
       DEF TypeOK, WindowTypes, Keeps, WindowFields, Caches, Waiting, Emptied, Some, None
  <2>10. w.out = <<>> /\ w.requests = win.requests /\ w.loaded
    BY <2>2, <2>7 DEF TypeOK, Keeps, WindowFields, Caches, Waiting
  <2>11. Update(connect_to(w, r))
    BY <2>1 DEF w, b, a
  <2>12. QED
    BY <2>2, <2>6, <2>7, <2>9, <2>10, <2>11, ConnectTo
<1>4. QED
  BY <1>1, <1>2, <1>3 DEF ConfigLoaded

-----------------------------------------------------------------------------
\* The window takes an event, by what the event tells.

\* What every event leaves as it is, and what the window may wait for after it.
Arrives ==
  /\ events # <<>> /\ events' = Tail(events)
  /\ WindowTypes(win') /\ win'.out = <<>>
  /\ win'.selection = win.selection /\ win'.subscription = win.subscription
  /\ win'.requests = win.requests /\ win'.loaded = win.loaded
  /\ win'.closing = win.closing
  /\ win'.volume \subseteq win.volume
  /\ Mine(1) /\ events[1].kind = "Control" => events[1].id \notin win'.volume
  /\ \E s : Asked(s) /\ Awaited(s, InFlight(win) \ {k \in ReadKinds : Mine(1) /\ k = events[1].kind})
  /\ UNCHANGED <<bridge, tasks, service>>

\* The window shows the same connection and the same state.
SameShown == /\ win'.state = win.state /\ win'.connection = win.connection
             /\ win'.generation = win.generation /\ win'.lifecycle = win.lifecycle

ArrivesState ==
  /\ StateAt(1) /\ events[1].state \in State
  /\ win'.state = {events[1].state}
  /\ win'.connection.session = events[1].state.session
  /\ win'.connection.epoch = events[1].state.epoch
  /\ Followed(win', win, events[1].state.epoch)
  /\ reported' = reported

ArrivesEnd ==
  /\ Mine(1) /\ events[1].kind = "SessionEnded"
  /\ win'.state = win.state /\ win'.connection = win.connection
  /\ win'.generation = win.generation + 1 /\ win'.lifecycle = "Reconnecting"
  /\ Emptied(win') /\ reported' = reported

ArrivesFailure ==
  /\ Mine(1) /\ events[1].kind = "ConnectFailed"
  /\ win'.state = None /\ win'.connection = win.connection
  /\ win'.generation = win.generation /\ win'.lifecycle = "Disconnected"
  /\ Emptied(win') /\ reported' = reported

ArrivesRead ==
  /\ Mine(1) /\ IsRead(events[1]) /\ events[1] \in ReadEvent
  /\ SameShown
  /\ Within(win', win, IF events[1].generation = win.generation THEN {events[1].from} ELSE {})
  /\ reported' = reported

ArrivesOther ==
  /\ ~Mine(1) \/ events[1].kind \in {"Refreshed", "Control", "Failed"}
  /\ SameShown /\ Narrower(win', win)
  /\ events[1].kind = "Failed" => InFlight(win') = InFlight(win)
  /\ reported' = IF Mine(1) /\ IsCompleted(events[1])
                 THEN reported \cup {[id |-> events[1].id, in |-> events[1].in,
                                      subscription |-> events[1].subscription]}
                 ELSE reported

\* From the window before the commands are taken from it to Arrives.
LEMMA ArrivesFrom ==
  ASSUME TypeOK, TakeEvent, ~win.closing, NEW v, v = on_bridge(win, events[1]),
         WindowTypes(v), Keeps(v, win, FollowFields), v.volume \subseteq win.volume,
         Mine(1) /\ events[1].kind = "Control" => events[1].id \notin v.volume,
         Leaves(v, InFlight(win) \ {k \in ReadKinds : Mine(1) /\ k = events[1].kind})
  PROVE  /\ Arrives /\ Keeps(win', v, {"out"}) /\ Narrower(win', v)
         /\ reported' = IF Mine(1) /\ IsCompleted(events[1])
                        THEN reported \cup {[id |-> events[1].id, in |-> events[1].in,
                                             subscription |-> events[1].subscription]}
                        ELSE reported
<1>1. events # <<>> /\ events' = Tail(events) /\ Head(events) = events[1] /\ Update(v)
  BY Shifted DEF TakeEvent, TypeOK
<1>2. /\ WindowTypes(win') /\ Keeps(win', v, {"out"}) /\ win'.out = <<>>
      /\ commands' = commands \o v.out /\ InFlight(win') = InFlight(v)
      /\ Narrower(win', v)
  BY <1>1, UpdatedTypes
<1>3. /\ win'.selection = win.selection /\ win'.subscription = win.subscription
      /\ win'.requests = win.requests /\ win'.loaded = win.loaded
      /\ win'.closing = win.closing
  BY <1>2 DEF Keeps, FollowFields, Waiting, Caches, AskFields, WindowFields
<1>4. /\ win'.volume = v.volume /\ win'.connection = v.connection
      /\ win'.generation = v.generation
  BY <1>2 DEF Keeps, WindowFields
<1>5. Asked(v.out)
  <2>1. \A i \in 1 .. Len(v.out) : v.out[i] \in ReadCommand
    BY DEF Leaves
  <2>2. \A i \in 1 .. Len(v.out) : v.out[i].kind # "Select"
    BY <2>1 DEF ReadCommand, ReadKinds
  <2>3. QED
    BY <1>2, <1>4, <2>2 DEF Asked, Leaves, WindowTypes
<1>6. Awaited(v.out, InFlight(win) \ {k \in ReadKinds : Mine(1) /\ k = events[1].kind})
  BY <1>2, <1>4 DEF Awaited, Leaves
<1>7. Arrives
  BY <1>1, <1>2, <1>3, <1>4, <1>5, <1>6 DEF Arrives, TakeEvent
<1>8. reported' = reported \cup
         {[id |-> e.id, in |-> e.in, subscription |-> e.subscription] :
            e \in {x \in {events[1]} : /\ x.kind = "Control" /\ x.report = "Completed"
                                       /\ x.subscription = win.subscription /\ ~win.closing}}
  BY <1>1 DEF TakeEvent
<1>9. {x \in {events[1]} : /\ x.kind = "Control" /\ x.report = "Completed"
                           /\ x.subscription = win.subscription /\ ~win.closing}
      = IF Mine(1) /\ IsCompleted(events[1]) THEN {events[1]} ELSE {}
  BY DEF Mine, IsCompleted
<1>10. QED
  BY <1>2, <1>7, <1>8, <1>9

LEMMA TakenEvents ==
  ASSUME TypeOK, TakeEvent, ~win.closing
  PROVE  Arrives /\ (ArrivesState \/ ArrivesEnd \/ ArrivesFailure \/ ArrivesRead \/ ArrivesOther)
<1> DEFINE e == events[1]
           v == on_bridge(win, e)
           over == InFlight(win) \ {k \in ReadKinds : Mine(1) /\ k = e.kind}
<1>1. events # <<>> /\ e \in Events
  BY Shifted DEF TakeEvent, TypeOK
<1>2. /\ WindowTypes(win) /\ win.out = <<>> /\ Leaves(win, InFlight(win))
      /\ Keeps(win, win, FollowFields)
  BY NothingLeft DEF TypeOK, Keeps, WindowTypes
<1>3. e.kind \notin ReadKinds => over = InFlight(win)
  BY DEF InFlight
<1>4. CASE ~Mine(1)
  <2>1. v = win
    BY <1>4 DEF on_bridge, Mine
  <2>2. over = InFlight(win)
    BY <1>4 DEF InFlight
  <2>3. Arrives /\ Keeps(win', v, {"out"}) /\ Narrower(win', v) /\ reported' = reported
    BY <1>2, <1>4, <2>1, <2>2, ArrivesFrom
  <2>4. InFlight(win') = InFlight(win)
    BY <2>1, <2>3 DEF InFlight, Keeps, WindowFields
  <2>5. QED
    BY <1>4, <2>1, <2>3, <2>4 DEF ArrivesOther, SameShown, Keeps, WindowFields
<1>5. CASE StateAt(1)
  <2>1. v = apply_state(win, e.state) /\ e.state \in State /\ over = InFlight(win)
    BY <1>1, <1>3, <1>5, EventShape DEF on_bridge, StateAt, Mine, ReadKinds
  <2>2. /\ WindowTypes(v) /\ Leaves(v, over) /\ Followed(v, win, e.state.epoch)
        /\ Keeps(v, win, FollowFields) /\ v.volume \in {win.volume, None}
        /\ v.state = Some(e.state)
        /\ v.connection = [session |-> e.state.session, epoch |-> e.state.epoch]
    <3> DEFINE u == apply_state(win, e.state)
    <3>1. /\ WindowTypes(u) /\ Leaves(u, InFlight(win)) /\ Followed(u, win, e.state.epoch)
          /\ Keeps(u, win, FollowFields) /\ u.volume \in {win.volume, None}
          /\ u.state = Some(e.state)
          /\ u.connection = [session |-> e.state.session, epoch |-> e.state.epoch]
      BY <1>2, <2>1, AppliesState
    <3> HIDE DEF u
    <3>2. v = u
      BY <2>1 DEF u
    <3> HIDE DEF v, over
    <3>3. QED
      BY <2>1, <3>1, <3>2
  <2>3. v.volume \subseteq win.volume
    BY <2>2 DEF None
  <2> HIDE DEF v
  <2>4. Arrives /\ Keeps(win', v, {"out"}) /\ Narrower(win', v) /\ reported' = reported
    BY <1>5, <2>2, <2>3, ArrivesFrom DEF v, StateAt, IsCompleted
  <2>5. /\ win'.state = v.state /\ win'.connection = v.connection
        /\ win'.lifecycle = v.lifecycle /\ win'.generation = v.generation
        /\ win'.information = v.information /\ win'.catalog = v.catalog /\ win'.names = v.names
    BY <2>4 DEF Keeps, WindowFields
  <2>6. Followed(win', win, e.state.epoch)
    BY <2>2, <2>5 DEF Followed, Narrower, Emptied
  <2>7. QED
    BY <1>5, <2>1, <2>2, <2>4, <2>5, <2>6 DEF ArrivesState, Some
<1>6. CASE Mine(1) /\ e.kind = "SessionEnded"
  <2>1. v = connection_lost(win) /\ over = InFlight(win)
    BY <1>3, <1>6 DEF on_bridge, Mine, ReadKinds
  <2>2. /\ Keeps(v, win, {"generation", "lifecycle", "snapshot"} \cup Waiting \cup Caches)
        /\ v.generation = win.generation + 1 /\ v.lifecycle = "Reconnecting"
        /\ v.volume = None /\ Emptied(v)
    BY <1>2, <2>1, ConnectionLost
  <2>3. WindowTypes(v) /\ InFlight(v) = InFlight(win) /\ v.out = <<>>
    BY <1>2, <2>1, LostTyped
  <2> HIDE DEF v
  <2>4. Leaves(v, over) /\ v.volume \subseteq win.volume /\ Keeps(v, win, FollowFields)
    BY <2>1, <2>2, <2>3, NothingLeft DEF None, Keeps, FollowFields
  <2>5. Arrives /\ Keeps(win', v, {"out"}) /\ Narrower(win', v) /\ reported' = reported
    BY <1>6, <2>3, <2>4, ArrivesFrom DEF v, IsCompleted
  <2>6. /\ win'.state = win.state /\ win'.connection = win.connection
        /\ win'.lifecycle = v.lifecycle /\ win'.generation = v.generation
        /\ win'.information = v.information /\ win'.catalog = v.catalog /\ win'.names = v.names
    BY <2>2, <2>5 DEF Keeps, WindowFields, Waiting, Caches
  <2>7. QED
    BY <1>6, <2>2, <2>5, <2>6 DEF ArrivesEnd, Emptied
<1>7. CASE Mine(1) /\ e.kind = "ConnectFailed"
  <2>1. v = connect_failed(win) /\ over = InFlight(win)
    BY <1>3, <1>7 DEF on_bridge, Mine, ReadKinds
  <2>2. /\ Keeps(v, win, {"lifecycle", "state", "snapshot", "launch_ready"}
                         \cup Waiting \cup Caches)
        /\ v.lifecycle = "Disconnected" /\ v.state = None
        /\ v.volume = None /\ Emptied(v)
    BY <1>2, <2>1, ConnectFailed
  <2>3. WindowTypes(v) /\ InFlight(v) = InFlight(win) /\ v.out = <<>>
    BY <1>2, <2>1, FailedTyped
  <2> HIDE DEF v
  <2>4. Leaves(v, over) /\ v.volume \subseteq win.volume /\ Keeps(v, win, FollowFields)
    BY <2>1, <2>2, <2>3, NothingLeft DEF None, Keeps, FollowFields
  <2>5. Arrives /\ Keeps(win', v, {"out"}) /\ Narrower(win', v) /\ reported' = reported
    BY <1>7, <2>3, <2>4, ArrivesFrom DEF v, IsCompleted
  <2>6. /\ win'.state = v.state /\ win'.connection = win.connection
        /\ win'.lifecycle = v.lifecycle /\ win'.generation = win.generation
        /\ win'.information = v.information /\ win'.catalog = v.catalog /\ win'.names = v.names
    BY <2>2, <2>5 DEF Keeps, WindowFields, Waiting, Caches
  <2>7. QED
    BY <1>7, <2>2, <2>5, <2>6 DEF ArrivesFailure, Emptied
<1>8. CASE Mine(1) /\ e.kind \in ReadKinds
  <2>1. TakesRead(v, win, e)
    BY <1>1, <1>2, <1>8, OnCatalog, OnNames, OnHttpInformation DEF on_bridge, Mine, ReadKinds
  <2> HIDE DEF v
  <2>2. over = InFlight(win) \ {e.kind}
    BY <1>8
  <2>3. /\ WindowTypes(v) /\ Leaves(v, over) /\ Keeps(v, win, AskFields \cup Caches)
        /\ Within(v, win, IF Fits(win, e) THEN {e.from} ELSE {})
    BY <2>1, <2>2 DEF TakesRead
  <2>4. v.volume \subseteq win.volume /\ Keeps(v, win, FollowFields)
    BY <2>3 DEF Keeps, FollowFields, AskFields, Caches, WindowFields
  <2>5. e.kind # "Control"
    BY <1>8 DEF ReadKinds
  <2>6. Arrives /\ Keeps(win', v, {"out"}) /\ Narrower(win', v) /\ reported' = reported
    BY <1>8, <2>3, <2>4, <2>5, ArrivesFrom DEF v, IsCompleted
  <2>7. SameShown
    BY <2>3, <2>6 DEF SameShown, Keeps, WindowFields, AskFields, Caches
  <2>8. Within(win', win, IF Fits(win, e) THEN {e.from} ELSE {})
    BY <2>3, <2>6 DEF Within, Narrower
  <2>9. e \in ReadEvent
    BY <1>1, <1>8 DEF Events, PlainEvent, StateEvents, ConflictEvent, ControlEvent, ReadKinds
  <2>10. QED
    BY <1>8, <2>6, <2>7, <2>8, <2>9 DEF ArrivesRead, IsRead, Fits
<1>9. CASE Mine(1) /\ e.kind \in {"Refreshed", "Control", "Failed"}
  <2>1. over = InFlight(win)
    BY <1>3, <1>9 DEF ReadKinds
  <2>2. CASE e.kind = "Control"
    <3>1. v = on_control(win, e)
      BY <1>9, <2>2 DEF on_bridge, Mine
    <3>2. /\ WindowTypes(v) /\ Leaves(v, InFlight(win))
          /\ Keeps(v, win, AskFields \cup Waiting) /\ Narrower(v, win)
          /\ v.volume = win.volume \ {e.id}
      <4> DEFINE u == on_control(win, e)
      <4>1. /\ WindowTypes(u) /\ Leaves(u, InFlight(win))
            /\ Keeps(u, win, AskFields \cup Waiting) /\ Narrower(u, win)
            /\ u.volume = win.volume \ {e.id}
        BY <1>2, OnControl
      <4> HIDE DEF u
      <4>2. v = u
        BY <3>1 DEF u
      <4> HIDE DEF v
      <4>3. QED
        BY <4>1, <4>2
    <3> HIDE DEF v
    <3>3. Keeps(v, win, FollowFields)
      BY <3>2 DEF Keeps, FollowFields
    <3>4. /\ Arrives /\ Keeps(win', v, {"out"}) /\ Narrower(win', v)
          /\ reported' = IF Mine(1) /\ IsCompleted(events[1])
                         THEN reported \cup {[id |-> events[1].id, in |-> events[1].in,
                                              subscription |-> events[1].subscription]}
                         ELSE reported
      BY <2>1, <3>2, <3>3, ArrivesFrom DEF v
    <3>5. SameShown /\ Narrower(win', win)
      BY <3>2, <3>4 DEF SameShown, Keeps, WindowFields, AskFields, Waiting, Narrower
    <3>6. QED
      BY <1>9, <2>2, <3>4, <3>5 DEF ArrivesOther
  <2>3. CASE e.kind \in {"Refreshed", "Failed"}
    <3>1. v \in {win, reset_pending_controls(win)}
      BY <1>9, <2>3 DEF on_bridge, Mine
    <3>2. LET r == reset_pending_controls(win)
          IN Keeps(r, win, Waiting) /\ r.volume = None /\ r.sound_mode = None
      BY <1>2, ResetPendingControls DEF WindowTypes
    <3> HIDE DEF v
    <3>3. Keeps(v, win, Waiting) /\ v.volume \in {win.volume, None}
          /\ v.sound_mode \in {win.sound_mode, None}
      BY <1>2, <3>1, <3>2 DEF Keeps
    <3>4. WindowTypes(v)
      BY <1>2, <3>3 DEF WindowTypes, Keeps, WindowFields, Waiting, None
    <3>5. /\ v.out = <<>> /\ InFlight(v) = InFlight(win) /\ Keeps(v, win, FollowFields)
          /\ Narrower(v, win) /\ v.volume \subseteq win.volume
      BY <1>2, <3>3 DEF Keeps, WindowFields, Waiting, InFlight, FollowFields, Narrower, None
    <3>6. Leaves(v, over)
      BY <2>1, <3>5, NothingLeft
    <3>7. Arrives /\ Keeps(win', v, {"out"}) /\ Narrower(win', v) /\ reported' = reported
      BY <2>3, <3>4, <3>5, <3>6, ArrivesFrom DEF v, IsCompleted
    <3>8. SameShown /\ Narrower(win', win)
      BY <3>3, <3>5, <3>7 DEF SameShown, Keeps, WindowFields, Waiting, Narrower
    <3>9. InFlight(win') = InFlight(win)
      BY <3>5, <3>7 DEF InFlight, Keeps, WindowFields
    <3>10. QED
      BY <1>9, <2>3, <3>7, <3>8, <3>9 DEF ArrivesOther, IsCompleted
  <2>4. QED
    BY <1>9, <2>2, <2>3
<1>10. QED
  BY <1>1, <1>4, <1>5, <1>6, <1>7, <1>8, <1>9, EventShape DEF StateAt

-----------------------------------------------------------------------------
\* The steps of the bridge and of the service, by what they change.

\* The channel to the window gains `last`, and `first` ahead of it if there are n = 2.
Gains(first, last, n) ==
  /\ n \in {1, 2}
  /\ events' \in Seq(Events)
  /\ Len(events') = Len(events) + n
  /\ \A i \in 1 .. Len(events) : events'[i] = events[i]
  /\ n = 2 => events'[Len(events) + 1] = first
  /\ events'[Len(events')] = last

LEMMA GainsOne ==
  ASSUME TypeOK, NEW first, NEW last \in Events,
         events' = Append(events, last) \/ events' = events \o <<>> \o <<last>>
  PROVE  Gains(first, last, 1)
<1>1. events \in Seq(Events)
  BY DEF TypeOK
<1>2. events' = Append(events, last)
  BY <1>1
<1>3. QED
  BY <1>1, <1>2 DEF Gains

LEMMA GainsTwo ==
  ASSUME TypeOK, NEW first \in Events, NEW last \in Events,
         events' = events \o <<first>> \o <<last>>
  PROVE  Gains(first, last, 2)
<1>1. events \in Seq(Events)
  BY DEF TypeOK
<1>2. events \o <<first>> = Append(events, first)
  BY <1>1
<1>3. Append(events, first) \in Seq(Events)
  BY <1>1
<1>4. Append(events, first) \o <<last>> = Append(Append(events, first), last)
  BY <1>3
<1>5. events' = Append(Append(events, first), last)
  BY <1>2, <1>4
<1>6. QED
  BY <1>1, <1>5 DEF Gains

\* What the events are after such a step.
LEMMA Gained ==
  ASSUME TypeOK, NEW first, NEW last, NEW n, Gains(first, last, n)
  PROVE  /\ Len(events) \in Nat /\ Len(events') \in Nat /\ Len(events) < Len(events')
         /\ \A i \in 1 .. Len(events') : \/ i <= Len(events) /\ events'[i] = events[i]
                                         \/ i = Len(events') /\ events'[i] = last
                                         \/ n = 2 /\ i = Len(events) + 1 /\ events'[i] = first
<1>1. Len(events) \in Nat /\ Len(events') = Len(events) + n /\ n \in {1, 2}
  BY DEF Gains, TypeOK
<1>2. \A i \in 1 .. Len(events') : \/ i \in 1 .. Len(events) \/ i = Len(events')
                                   \/ n = 2 /\ i = Len(events) + 1
  BY <1>1
<1>3. QED
  BY <1>1, <1>2 DEF Gains

\* The bridge took the first command.
Taken ==
  /\ commands # <<>> /\ commands[1] \in Command /\ commands' \in Seq(Command)
  /\ Len(commands) \in Nat \ {0} /\ Len(commands') = Len(commands) - 1
  /\ \A i \in 1 .. Len(commands') : commands'[i] = commands[i + 1]

LEMMA TailTaken ==
  ASSUME TypeOK, commands # <<>>, commands' = Tail(commands)
  PROVE  Taken /\ Head(commands) = commands[1]
BY Shifted DEF TypeOK, Taken

\* The subscription for `chosen` fails, or gets the receiver's session; the end of
\* the one before is told first if n = 2.
Fails(chosen, n) ==
  /\ Gains(Event("SessionEnded", chosen.subscription),
           Event("ConnectFailed", chosen.subscription), n)
  /\ active' = None /\ forwarded' = None /\ UNCHANGED <<svc, sessions>>

Opens(chosen, n) ==
  \E entry \in Session :
    /\ \/ svc[chosen.receiver].open /\ entry = svc[chosen.receiver] /\ sessions' = sessions
       \/ /\ ~svc[chosen.receiver].open /\ entry = NewSession(sessions + 1)
          /\ sessions' = sessions + 1
    /\ svc' = [svc EXCEPT ![chosen.receiver] = entry]
    /\ Gains(Event("SessionEnded", chosen.subscription), StateEvent(chosen, entry.state), n)
    /\ active' = {[session |-> entry.state.session, last |-> None]}
    /\ forwarded' = {stamp(entry.state)}

\* The bridge takes up a selection.
Selects ==
  /\ Taken /\ commands[1].kind = "Select"
  /\ \E chosen \in Chosen :
       /\ chosen.receiver = commands[1].receiver /\ chosen.subscription = commands[1].id
       /\ selected' = {chosen}
       /\ Fails(chosen, 1) \/ Opens(chosen, 1)
  /\ UNCHANGED <<win, tasks, turns, reported>>

\* It subscribes again: asked to refresh without a subscription, or as one ended.
Resubscribes ==
  /\ \E chosen \in selected, n \in {1, 2} :
       /\ IF n = 2 THEN \E a \in active : a.last # None ELSE active = None
       /\ Fails(chosen, n) \/ Opens(chosen, n)
  /\ UNCHANGED commands \/ (Taken /\ commands[1].kind = "Refresh")
  /\ UNCHANGED <<win, selected, tasks, turns, reported>>

\* It takes another command: there is no receiver, a task is spawned, or a control
\* is refused.
Dispatches ==
  /\ Taken /\ commands[1].kind # "Select"
  /\ \/ /\ selected = None /\ UNCHANGED tasks
        /\ Gains(Event("Failed", 0), Event("Failed", 0), 1)
     \/ \E chosen \in selected, task \in Tasks :
          /\ task.subscription = chosen.subscription /\ task.kind = commands[1].kind
          /\ ~IsCompleted(task)
          /\ task.kind = "Control" => task.id = commands[1].id
          /\ IsRead(task) => /\ task.from = commands[1].from
                             /\ task.generation = commands[1].generation
          /\ tasks' = tasks \cup {task} /\ UNCHANGED events
     \/ \E chosen \in selected, event \in ConflictEvent :
          /\ event.subscription = chosen.subscription /\ event.id = commands[1].id
          /\ commands[1].kind = "Control"
          /\ Gains(event, event, 1) /\ UNCHANGED tasks
  /\ UNCHANGED <<win, bridge, svc, sessions, turns, reported>>

\* x is the newest state of the subscription for `chosen`.
Newest(x, chosen) ==
  \E a \in active : IF a.last = None THEN x = svc[chosen.receiver].state ELSE a.last = {x}

\* It forwards the newest state.
Forwards ==
  /\ \E chosen \in selected, x \in State :
       /\ Newest(x, chosen) /\ forwarded' = {stamp(x)}
       /\ Gains(StateEvent(chosen, x), StateEvent(chosen, x), 1)
  /\ UNCHANGED <<win, commands, selected, active, tasks, svc, sessions, turns, reported>>

\* What a task tells in its event.
Answers(event, task) ==
  /\ event.subscription = task.subscription
  /\ task.kind = "Refresh" => event.kind \in {"Refreshed", "Failed"}
  /\ task.kind = "Control" =>
       /\ event.kind = "Control" /\ event.id = task.id /\ event.in = task.in
       /\ IsCompleted(event) => IsCompleted(task)
  /\ IsRead(task) => /\ event.kind = task.kind /\ event.from = task.from
                     /\ event.generation = task.generation

\* A task ends; the newest state goes ahead of its event unless it was forwarded.
Finishes ==
  /\ \E task \in tasks, event \in Events, first \in Events, n \in {1, 2} :
       /\ tasks' = tasks \ {task} /\ Answers(event, task)
       /\ Gains(first, event, n)
       /\ IF n = 2
          THEN \E chosen \in selected, x \in State :
                 /\ Newest(x, chosen) /\ forwarded' = {stamp(x)}
                 /\ first = StateEvent(chosen, x)
          ELSE /\ forwarded' = forwarded
               /\ \A chosen \in selected, x \in State : Newest(x, chosen) => forwarded = {stamp(x)}
  /\ UNCHANGED <<win, commands, selected, active, svc, sessions, turns, reported>>

\* A session goes on.
Publishes ==
  /\ \E r \in Receivers, entry \in Session :
       /\ svc[r].open /\ entry.open /\ svc' = [svc EXCEPT ![r] = entry]
       /\ entry.state.session = svc[r].state.session
       /\ entry.state.shows = svc[r].state.shows
       /\ svc[r].last <= entry.last /\ entry.state.epoch \in {0, entry.last}
  /\ turns' \in Nat
  /\ UNCHANGED <<win, commands, bridge, tasks, events, sessions, reported>>

\* A session is closed; who subscribed to it keeps its last state.
Ends ==
  /\ \E r \in Receivers, entry \in Session :
       /\ svc[r].open /\ ~entry.open /\ svc' = [svc EXCEPT ![r] = entry]
       /\ entry.state = svc[r].state /\ entry.last = svc[r].last
       /\ \A a \in active' :
            \/ a \in active /\ a.session # svc[r].state.session
            \/ /\ a.session = svc[r].state.session /\ a.last = {svc[r].state}
               /\ \E b \in active : a.session = b.session
  /\ active' \in SUBSET Active /\ AtMostOne(active')
  /\ active = None <=> active' = None
  /\ turns' \in Nat
  /\ UNCHANGED <<win, commands, selected, forwarded, tasks, events, sessions, reported>>

\* A control takes effect in the receiver's session.
TakesEffect ==
  /\ \E task \in tasks, r \in Receivers, entry \in Session, done \in Tasks :
       /\ \/ /\ svc[r].open /\ sessions' = sessions
             /\ entry.state.session = svc[r].state.session /\ entry.last = svc[r].last
             /\ svc[r].state.shows \subseteq entry.state.shows
          \/ /\ ~svc[r].open /\ sessions' = sessions + 1
             /\ entry.state.session = sessions + 1
       /\ entry.open /\ entry.state.epoch = entry.last /\ entry.last # 0
       /\ svc' = [svc EXCEPT ![r] = entry]
       /\ task.kind = "Control" /\ IsCompleted(done)
       /\ done.subscription = task.subscription /\ done.id = task.id
       /\ task.id \in entry.state.shows /\ done.in = entry.state.session
       /\ tasks' = (tasks \ {task}) \cup {done}
  /\ UNCHANGED <<win, commands, bridge, events, turns, reported>>

LEMMA PlainTyped ==
  ASSUME NEW n \in Nat,
         NEW kind \in {"SessionEnded", "ConnectFailed", "Refreshed", "Failed"}
  PROVE  /\ Event(kind, n) \in Events /\ Event(kind, n).kind = kind
         /\ Event(kind, n).subscription = n
BY DEF Event, Events, PlainEvent

LEMMA StateTyped ==
  ASSUME NEW chosen \in Chosen, NEW x \in State
  PROVE  LET e == StateEvent(chosen, x)
         IN /\ e \in Events /\ e.kind = "State" /\ e.state = x
            /\ e.subscription = chosen.subscription
<1> DEFINE e == StateEvent(chosen, x)
<1>1. e \in StateEvents
  BY DEF StateEvent, StateEvents, Chosen
<1>2. QED
  BY <1>1 DEF StateEvent, Events

LEMMA NewTyped ==
  ASSUME NEW n \in Nat
  PROVE  /\ NewSession(n) \in Session /\ NewSession(n).open /\ NewSession(n).last = 1
         /\ NewSession(n).state.session = n /\ NewSession(n).state.epoch = 1
         /\ NewSession(n).state.shows = {}
<1> DEFINE x == [session |-> n, epoch |-> 1, current |-> TRUE, values |-> Usual, shows |-> {}]
<1>1. x \in State
  BY UsualTyped DEF State
<1>2. QED
  BY <1>1 DEF NewSession, Session

LEMMA SubscribeIs ==
  ASSUME TypeOK, NEW chosen \in Chosen, NEW n \in {1, 2}, NEW before,
         before = IF n = 2 THEN <<Event("SessionEnded", chosen.subscription)>> ELSE <<>>,
         subscribe(chosen, before)
  PROVE  Fails(chosen, n) \/ Opens(chosen, n)
<1> DEFINE end == Event("SessionEnded", chosen.subscription)
           failed == Event("ConnectFailed", chosen.subscription)
           here == svc[chosen.receiver]
<1>1. chosen.receiver \in Receivers /\ chosen.subscription \in Nat /\ here \in Session
  BY DEF Chosen, TypeOK
<1>2. end \in Events /\ failed \in Events
  BY <1>1, PlainTyped
<1>3. \A last \in Events : events' = events \o before \o <<last>> => Gains(end, last, n)
  BY <1>2, GainsOne, GainsTwo
<1>4. CASE /\ events' = events \o before \o <<failed>>
           /\ active' = None /\ forwarded' = None /\ UNCHANGED <<svc, sessions>>
  BY <1>2, <1>3, <1>4 DEF Fails
<1>5. ASSUME NEW entry \in Opened(chosen.receiver),
             svc' = [svc EXCEPT ![chosen.receiver] = entry],
             TakeSession(chosen.receiver, entry),
             events' = events \o before \o <<StateEvent(chosen, entry.state)>>,
             active' = Some([session |-> entry.state.session, last |-> None]),
             forwarded' = Some(stamp(entry.state))
      PROVE  Opens(chosen, n)
  <2>1. /\ entry \in Session
        /\ \/ here.open /\ entry = here /\ sessions' = sessions
           \/ /\ ~here.open /\ entry = NewSession(sessions + 1)
              /\ sessions' = sessions + 1
    BY <1>1, <1>5, NewTyped DEF Opened, TakeSession, TypeOK
  <2>2. StateEvent(chosen, entry.state) \in Events
    BY <2>1, StateTyped DEF Session
  <2>3. Gains(end, StateEvent(chosen, entry.state), n)
    BY <1>3, <1>5, <2>2
  <2>4. QED
    BY <1>5, <2>1, <2>3 DEF Opens, Some
<1>6. QED
  BY <1>4, <1>5 DEF subscribe

LEMMA SelectSteps ==
  ASSUME TypeOK, TakeCommand, commands[1].kind = "Select"
  PROVE  Selects
<1>1. Taken /\ Head(commands) = commands[1] /\ commands[1] \in Command
  BY TailTaken DEF TakeCommand, Taken
<1> DEFINE chosen == [receiver |-> commands[1].receiver, subscription |-> commands[1].id]
<1>2. Handle_Select(commands[1]) /\ BridgeStep
  BY <1>1 DEF TakeCommand
<1>3. chosen \in Chosen
  BY <1>1 DEF Command, SelectCommand, RefreshCommand, ControlCommand, ReadCommand,
              ReadKinds, Chosen
<1>4. selected' = {chosen} /\ subscribe(chosen, <<>>) /\ tasks' = tasks
  BY <1>2 DEF Handle_Select, Some
<1> HIDE DEF chosen
<1>5. Fails(chosen, 1) \/ Opens(chosen, 1)
  BY <1>3, <1>4, SubscribeIs
<1>6. chosen.receiver = commands[1].receiver /\ chosen.subscription = commands[1].id
  BY DEF chosen
<1>7. QED
  BY <1>1, <1>2, <1>3, <1>4, <1>5, <1>6 DEF Selects, BridgeStep

LEMMA NoReceiverSteps ==
  ASSUME TypeOK, Taken, commands[1].kind # "Select", NoReceiver, BridgeStep
  PROVE  Dispatches
<1>1. Gains(Event("Failed", 0), Event("Failed", 0), 1)
  BY PlainTyped, GainsOne DEF NoReceiver
<1>2. QED
  BY <1>1 DEF Dispatches, NoReceiver, BridgeStep, bridge

LEMMA RefreshSteps ==
  ASSUME TypeOK, TakeCommand, commands[1].kind = "Refresh"
  PROVE  Resubscribes \/ Dispatches
<1>1. Taken /\ Head(commands) = commands[1] /\ commands[1] \in Command
  BY TailTaken DEF TakeCommand, Taken
<1>2. Handle_Refresh(commands[1]) /\ BridgeStep
  BY <1>1 DEF TakeCommand
<1>3. CASE NoReceiver
  BY <1>1, <1>2, <1>3, NoReceiverSteps
<1>4. ASSUME NEW chosen \in selected, active = None, subscribe(chosen, <<>>),
             UNCHANGED <<selected, tasks>>
      PROVE  Resubscribes
  <2>1. Fails(chosen, 1) \/ Opens(chosen, 1)
    BY <1>4, SubscribeIs DEF TypeOK
  <2>2. QED
    BY <1>1, <1>2, <1>4, <2>1 DEF Resubscribes, BridgeStep
<1>5. ASSUME NEW chosen \in selected,
             Spawn([kind |-> "Refresh", subscription |-> chosen.subscription]),
             UNCHANGED <<bridge, events, svc, sessions>>
      PROVE  Dispatches
  <2> DEFINE task == [kind |-> "Refresh", subscription |-> chosen.subscription]
  <2>1. task \in Tasks /\ task.kind = "Refresh" /\ task.subscription = chosen.subscription
    BY DEF TypeOK, Chosen, Tasks, RefreshTask
  <2>2. tasks' = tasks \cup {task}
    BY <1>5 DEF Spawn
  <2> HIDE DEF task
  <2>3. ~IsCompleted(task) /\ ~IsRead(task)
    BY <2>1 DEF IsCompleted, IsRead, ReadKinds
  <2>4. QED
    BY <1>1, <1>2, <1>5, <2>1, <2>2, <2>3 DEF Dispatches, BridgeStep, bridge
<1>6. QED
  BY <1>2, <1>3, <1>4, <1>5 DEF Handle_Refresh

LEMMA ControlSteps ==
  ASSUME TypeOK, TakeCommand, commands[1].kind = "Control"
  PROVE  Dispatches
<1> DEFINE command == commands[1]
<1>1. Taken /\ Head(commands) = command /\ command \in Command
  BY TailTaken DEF TakeCommand, Taken
<1>2. Handle_Control(command) /\ BridgeStep
  BY <1>1 DEF TakeCommand
<1>3. command.id \in Nat /\ command.intent \in Intent
  BY <1>1 DEF Command, SelectCommand, RefreshCommand, ControlCommand, ReadCommand, ReadKinds
<1>4. CASE NoReceiver
  BY <1>1, <1>2, <1>4, NoReceiverSteps
<1>5. ASSUME NEW chosen \in selected, Conflict(chosen, command), UNCHANGED tasks,
             UNCHANGED <<bridge, svc, sessions>>
      PROVE  Dispatches
  <2> DEFINE event == [kind |-> "Control", subscription |-> chosen.subscription,
                       id |-> command.id, report |-> "Conflict", in |-> 0,
                       intent |-> command.intent]
  <2>1. /\ event \in ConflictEvent /\ event.subscription = chosen.subscription
        /\ event.id = command.id
    BY <1>3 DEF TypeOK, Chosen, ConflictEvent
  <2>2. events' = Append(events, event)
    BY <1>5 DEF Conflict
  <2> HIDE DEF event
  <2>3. Gains(event, event, 1)
    BY <2>1, <2>2, GainsOne DEF Events
  <2>4. QED
    BY <1>1, <1>2, <1>5, <2>1, <2>3 DEF Dispatches, BridgeStep, bridge
<1>6. ASSUME NEW chosen \in selected,
             Spawn([kind |-> "Control", subscription |-> chosen.subscription,
                    receiver |-> chosen.receiver, id |-> command.id,
                    intent |-> command.intent, report |-> "running", in |-> 0]),
             UNCHANGED events, UNCHANGED <<bridge, svc, sessions>>
      PROVE  Dispatches
  <2> DEFINE task == [kind |-> "Control", subscription |-> chosen.subscription,
                      receiver |-> chosen.receiver, id |-> command.id,
                      intent |-> command.intent, report |-> "running", in |-> 0]
  <2>1. /\ task \in ControlTask /\ task.kind = "Control"
        /\ task.subscription = chosen.subscription
        /\ task.id = command.id /\ task.report = "running"
    BY <1>3 DEF TypeOK, Chosen, ControlTask
  <2>2. tasks' = tasks \cup {task}
    BY <1>6 DEF Spawn
  <2> HIDE DEF task
  <2>3. ~IsCompleted(task) /\ ~IsRead(task) /\ task \in Tasks
    BY <2>1 DEF IsCompleted, IsRead, ReadKinds, Tasks
  <2>4. QED
    BY <1>1, <1>2, <1>6, <2>1, <2>2, <2>3 DEF Dispatches, BridgeStep, bridge
<1>7. QED
  BY <1>2, <1>4, <1>5, <1>6 DEF Handle_Control

LEMMA ReadSteps ==
  ASSUME TypeOK, TakeCommand, commands[1].kind \notin {"Select", "Refresh", "Control"}
  PROVE  Dispatches
<1> DEFINE command == commands[1]
<1>1. Taken /\ Head(commands) = command /\ command \in Command
  BY TailTaken DEF TakeCommand, Taken
<1>2. spawn_read(command) /\ BridgeStep
  BY <1>1 DEF TakeCommand
<1>3. command \in ReadCommand
  BY <1>1 DEF Command, SelectCommand, RefreshCommand, ControlCommand
<1>4. PICK chosen \in selected :
        Spawn([kind |-> command.kind, subscription |-> chosen.subscription,
               generation |-> command.generation, from |-> command.from])
  BY <1>2 DEF spawn_read
<1> DEFINE task == [kind |-> command.kind, subscription |-> chosen.subscription,
                    generation |-> command.generation, from |-> command.from]
<1>5. /\ task \in ReadTask /\ task.kind = command.kind /\ task.kind \in ReadKinds
      /\ task.subscription = chosen.subscription
      /\ task.from = command.from /\ task.generation = command.generation
  BY <1>3 DEF TypeOK, Chosen, ReadTask, ReadCommand
<1>6. tasks' = tasks \cup {task}
  BY <1>4 DEF Spawn
<1> HIDE DEF task
<1>7. ~IsCompleted(task) /\ task.kind # "Control" /\ task \in Tasks
  BY <1>5 DEF IsCompleted, ReadKinds, Tasks
<1>8. QED
  BY <1>1, <1>2, <1>5, <1>6, <1>7 DEF Dispatches, BridgeStep, bridge, spawn_read

\* `latest` is the newest state of the subscription.
LEMMA LatestIsNewest ==
  ASSUME TypeOK, SessionsInv, active # None
  PROVE  /\ The(selected) \in selected /\ selected = {The(selected)}
         /\ active = {The(active)}
         /\ latest \in State /\ Newest(latest, The(selected))
         /\ \A x : Newest(x, The(selected)) => x = latest
<1> DEFINE a == The(active)
           chosen == The(selected)
<1>1. selected = {chosen} /\ active = {a}
  BY OneOrNone DEF TypeOK, SessionsInv
<1>2. chosen \in Chosen /\ a \in Active /\ AtMostOne(a.last)
  BY <1>1 DEF TypeOK
<1>3. a.last # None => a.last = {The(a.last)} /\ The(a.last) \in State
  BY <1>2, OneOrNone DEF Active
<1>4. svc[chosen.receiver].state \in State
  BY <1>2 DEF TypeOK, Chosen, Session
<1>5. latest = IF a.last # None THEN The(a.last) ELSE svc[chosen.receiver].state
  BY DEF latest
<1> HIDE DEF a, chosen
<1>6. /\ latest \in State /\ Newest(latest, chosen)
      /\ \A x : Newest(x, chosen) => x = latest
  BY <1>1, <1>3, <1>4, <1>5 DEF Newest
<1>7. QED
  BY <1>1, <1>6 DEF a, chosen

LEMMA StateSteps ==
  ASSUME TypeOK, SessionsInv, TakeState
  PROVE  Forwards
<1> DEFINE chosen == The(selected)
           event == StateEvent(chosen, latest)
<1>1. chosen \in selected /\ latest \in State /\ Newest(latest, chosen)
  BY LatestIsNewest DEF TakeState
<1>2. event \in Events
  BY <1>1, StateTyped DEF TypeOK
<1>3. events' = Append(events, event) /\ forwarded' = {stamp(latest)}
  BY DEF TakeState, Some
<1>4. Gains(event, event, 1)
  BY <1>2, <1>3, GainsOne
<1> HIDE DEF chosen
<1>5. QED
  BY <1>1, <1>3, <1>4 DEF Forwards, TakeState, BridgeStep

LEMMA EndSteps ==
  ASSUME TypeOK, SessionsInv, TakeEnd
  PROVE  Resubscribes
<1> DEFINE chosen == The(selected)
<1>1. chosen \in selected /\ \E a \in active : a.last # None
  BY LatestIsNewest DEF TakeEnd
<1>2. subscribe(chosen, <<Event("SessionEnded", chosen.subscription)>>)
  BY DEF TakeEnd
<1> HIDE DEF chosen
<1>3. Fails(chosen, 2) \/ Opens(chosen, 2)
  BY <1>1, <1>2, SubscribeIs DEF TypeOK
<1>4. QED
  BY <1>1, <1>3 DEF Resubscribes, TakeEnd, BridgeStep

LEMMA DoneSteps ==
  ASSUME TypeOK, SessionsInv, NEW task \in tasks, NEW event \in Events,
         TakeDone(task, event), Answers(event, task)
  PROVE  Finishes
<1> DEFINE chosen == The(selected)
           first == StateEvent(chosen, latest)
<1>1. /\ tasks' = tasks \ {task}
      /\ UNCHANGED <<win, commands, selected, active, svc, sessions, turns, reported>>
  BY DEF TakeDone, BridgeStep
<1>2. CASE active # None /\ forwarded # Some(stamp(latest))
  <2>1. chosen \in selected /\ latest \in State /\ Newest(latest, chosen)
    BY <1>2, LatestIsNewest
  <2>2. first \in Events
    BY <2>1, StateTyped DEF TypeOK
  <2>3. StateFirst = <<first>>
    BY <1>2 DEF StateFirst
  <2>4. <<first>> # <<>>
    OBVIOUS
  <2>5. events' = events \o <<first>> \o <<event>> /\ forwarded' = {stamp(latest)}
    BY <2>3, <2>4 DEF TakeDone, Some
  <2> HIDE DEF first, chosen
  <2>6. Gains(first, event, 2)
    BY <2>2, <2>5, GainsTwo
  <2>7. first = StateEvent(chosen, latest)
    BY DEF first
  <2>8. QED
    BY <1>1, <2>1, <2>2, <2>5, <2>6, <2>7 DEF Finishes
<1>3. CASE ~(active # None /\ forwarded # Some(stamp(latest)))
  <2>1. StateFirst = <<>>
    BY <1>3 DEF StateFirst
  <2>2. events' = events \o <<>> \o <<event>> /\ forwarded' = forwarded
    BY <2>1 DEF TakeDone
  <2>3. Gains(event, event, 1)
    BY <2>2, GainsOne
  <2>4. \A c \in selected, x \in State : Newest(x, c) => forwarded = {stamp(x)}
    <3>1. SUFFICES ASSUME NEW c \in selected, NEW x \in State, Newest(x, c)
                   PROVE  forwarded = {stamp(x)}
      OBVIOUS
    <3>2. active # None
      BY <3>1 DEF Newest, None
    <3>3. x = latest
      BY <3>1, <3>2, LatestIsNewest
    <3>4. QED
      BY <1>3, <3>2, <3>3 DEF Some
  <2>5. QED
    BY <1>1, <2>2, <2>3, <2>4 DEF Finishes
<1>4. QED
  BY <1>2, <1>3

LEMMA TaskSteps ==
  ASSUME TypeOK, SessionsInv, NEW task \in tasks,
         RefreshEnds(task) \/ ReadEnds(task) \/ ControlEnds(task)
  PROVE  Finishes
<1>1. task \in Tasks
  BY DEF TypeOK
<1>2. CASE RefreshEnds(task)
  <2>1. task \in RefreshTask /\ task.kind = "Refresh"
    BY <1>1, <1>2 DEF RefreshEnds, Tasks, RefreshTask, ControlTask, ReadTask, ReadKinds
  <2>2. PICK kind \in {"Refreshed", "Failed"} : TakeDone(task, Event(kind, task.subscription))
    BY <1>2 DEF RefreshEnds
  <2> DEFINE event == Event(kind, task.subscription)
  <2>3. event \in Events /\ event.kind = kind /\ event.subscription = task.subscription
    BY <2>1, PlainTyped DEF RefreshTask
  <2> HIDE DEF event
  <2>4. Answers(event, task)
    BY <2>1, <2>3 DEF Answers, IsRead, ReadKinds
  <2>5. TakeDone(task, event)
    BY <2>2 DEF event
  <2>6. QED
    BY <2>3, <2>4, <2>5, DoneSteps
<1>3. CASE ReadEnds(task)
  <2>1. task \in ReadTask
    BY <1>1, <1>3 DEF ReadEnds, Tasks, RefreshTask, ControlTask
  <2>2. PICK ok \in BOOLEAN :
          TakeDone(task, [kind |-> task.kind, subscription |-> task.subscription,
                          generation |-> task.generation, ok |-> ok, from |-> task.from])
    BY <1>3 DEF ReadEnds
  <2> DEFINE event == [kind |-> task.kind, subscription |-> task.subscription,
                       generation |-> task.generation, ok |-> ok, from |-> task.from]
  <2>3. /\ event \in ReadEvent /\ event.kind = task.kind /\ task.kind \in ReadKinds
        /\ event.subscription = task.subscription
        /\ event.generation = task.generation /\ event.from = task.from
    BY <2>1 DEF ReadTask, ReadEvent
  <2>4. TakeDone(task, event)
    BY <2>2
  <2> HIDE DEF event
  <2>5. Answers(event, task) /\ event \in Events
    BY <2>3 DEF Answers, IsRead, ReadKinds, Events
  <2>6. QED
    BY <2>4, <2>5, DoneSteps
<1>4. CASE ControlEnds(task)
  <2>1. task \in ControlTask
    BY <1>1, <1>4 DEF ControlEnds, Tasks, RefreshTask, ReadTask, ReadKinds
  <2> DEFINE event == [task EXCEPT !.report = IF @ = "running" THEN "OtherEnd" ELSE @]
  <2>2. /\ event \in ControlEvent /\ event.kind = "Control" /\ event.id = task.id
        /\ event.in = task.in /\ event.subscription = task.subscription
        /\ event.report = "Completed" => task.report = "Completed"
    BY <2>1 DEF ControlTask, ControlEvent
  <2>3. TakeDone(task, event)
    BY <1>4 DEF ControlEnds
  <2> HIDE DEF event
  <2>4. Answers(event, task) /\ event \in Events
    BY <2>1, <2>2 DEF Answers, IsRead, IsCompleted, ReadKinds, Events, ControlTask
  <2>5. QED
    BY <2>3, <2>4, DoneSteps
<1>5. QED
  BY <1>2, <1>3, <1>4

\* Publish, by what it does to the receiver's entry.
LEMMA PublishIs ==
  ASSUME TypeOK, SessionsInv, NEW r \in Receivers, NEW x \in State, svc[r].open,
         x.session = svc[r].state.session, x.shows = svc[r].state.shows,
         x.epoch = 0 \/ svc[r].last <= x.epoch, Publish(r, x), turns' \in Nat,
         UNCHANGED <<win, commands, bridge, tasks, events, sessions, reported>>
  PROVE  Publishes
<1> DEFINE entry == [open |-> svc[r].open, last |-> IF x.epoch = 0 THEN svc[r].last ELSE x.epoch,
                     state |-> x]
<1>1. svc[r] \in Session /\ x.epoch \in Nat
  BY DEF TypeOK, State
<1>2. /\ entry \in Session /\ entry.open /\ entry.state = x
      /\ svc[r].last <= entry.last /\ entry.state.epoch \in {0, entry.last}
  BY <1>1 DEF Session
<1>3. svc' = [svc EXCEPT ![r] = entry]
  <2> DEFINE s == svc[r]
             k == IF x.epoch = 0 THEN s.last ELSE x.epoch
             n == [s EXCEPT !.state = x, !.last = k]
  <2>1. n = entry
    <3>1. n \in Session /\ entry \in Session
      BY <1>1, <1>2 DEF Session
    <3>2. n.open = entry.open /\ n.last = entry.last /\ n.state = entry.state
      BY <1>1 DEF Session
    <3> HIDE DEF n, entry
    <3>3. QED
      BY <3>1, <3>2 DEF Session
  <2>2. svc' = [svc EXCEPT ![r] = [[@ EXCEPT !.state = x] EXCEPT !.last = k]]
    BY <1>1 DEF Publish, TypeOK, Session
  <2>3. [[s EXCEPT !.state = x] EXCEPT !.last = k] = n
    BY <1>1 DEF Session
  <2>4. QED
    BY <2>1, <2>2, <2>3
<1> HIDE DEF entry
<1>4. QED
  BY <1>2, <1>3 DEF Publishes

LEMMA PublishSteps ==
  ASSUME TypeOK, SessionsInv, NEW r \in Receivers,
         LoseConnection(r) \/ Reconnect(r) \/ ReadAgain(r) \/ TurnKnob(r)
  PROVE  Publishes
<1> DEFINE s == svc[r].state
<1>1. s \in State /\ svc[r].open /\ svc[r].last \in Nat /\ s.epoch \in {0, svc[r].last}
  BY DEF TypeOK, Session, SessionsInv, ServiceInv, LoseConnection, Reconnect, ReadAgain, TurnKnob
<1>2. /\ UNCHANGED <<win, commands, bridge, tasks, events, sessions, reported>> /\ turns' \in Nat
  BY DEF TypeOK, LoseConnection, Reconnect, ReadAgain, TurnKnob, Disturb, Others
<1>3. CASE LoseConnection(r)
  <2> DEFINE x == [s EXCEPT !.epoch = 0, !.current = FALSE]
  <2>1. x \in State /\ x.session = s.session /\ x.shows = s.shows /\ x.epoch = 0
    BY <1>1 DEF State
  <2>2. Publish(r, x)
    BY <1>3 DEF LoseConnection
  <2> HIDE DEF x
  <2>3. QED
    BY <1>1, <1>2, <2>1, <2>2, PublishIs
<1>4. CASE Reconnect(r)
  <2> DEFINE x == [s EXCEPT !.epoch = svc[r].last + 1]
  <2>1. x \in State /\ x.session = s.session /\ x.shows = s.shows /\ svc[r].last <= x.epoch
    BY <1>1 DEF State
  <2>2. Publish(r, x)
    BY <1>4 DEF Reconnect
  <2> HIDE DEF x
  <2>3. QED
    BY <1>1, <1>2, <2>1, <2>2, PublishIs
<1>5. CASE ReadAgain(r)
  <2> DEFINE x == [s EXCEPT !.current = TRUE]
  <2>1. x \in State /\ x.session = s.session /\ x.shows = s.shows /\ x.epoch = s.epoch
    BY <1>1 DEF State
  <2>2. Publish(r, x)
    BY <1>5 DEF ReadAgain
  <2> HIDE DEF x
  <2>3. QED
    BY <1>1, <1>2, <2>1, <2>2, PublishIs
<1>6. CASE TurnKnob(r)
  <2>1. PICK c \in Controls : Publish(r, [s EXCEPT !.values[FieldOf(c)] = Other(@)])
    BY <1>6 DEF TurnKnob
  <2> DEFINE x == [s EXCEPT !.values[FieldOf(c)] = Other(@)]
  <2>2. FieldOf(c) \in Fields /\ Other(s.values[FieldOf(c)]) \in Values
    BY <1>1, FieldTyped, OtherTyped DEF State
  <2>3. x \in State /\ x.session = s.session /\ x.shows = s.shows /\ x.epoch = s.epoch
    BY <1>1, <2>2 DEF State
  <2>4. Publish(r, x)
    BY <2>1
  <2> HIDE DEF x
  <2>5. QED
    BY <1>1, <1>2, <2>3, <2>4, PublishIs
<1>7. QED
  BY <1>3, <1>4, <1>5, <1>6

LEMMA EndingSteps ==
  ASSUME TypeOK, NEW r \in Receivers, EndSession(r)
  PROVE  Ends
<1> DEFINE s == svc[r].state
           entry == [svc[r] EXCEPT !.open = FALSE]
           ended(a) == IF a.session = s.session THEN [a EXCEPT !.last = Some(s)] ELSE a
<1>1. svc[r] \in Session /\ svc[r].open /\ s \in State
  BY DEF TypeOK, Session, EndSession
<1>2. /\ entry \in Session /\ ~entry.open /\ entry.state = s /\ entry.last = svc[r].last
      /\ svc' = [svc EXCEPT ![r] = entry]
  BY <1>1 DEF Session, EndSession, TypeOK
<1>3. active' = {ended(a) : a \in active}
  BY DEF EndSession
<1>4. \A a \in active : /\ ended(a) \in Active /\ ended(a).session = a.session
                        /\ IF a.session = s.session THEN ended(a).last = {s} ELSE ended(a) = a
  BY <1>1 DEF TypeOK, Active, Some
<1> HIDE DEF entry, ended, s
<1>5. active' \in SUBSET Active
  BY <1>3, <1>4
<1>6. \A x, y \in active : x = y
  BY DEF TypeOK, AtMostOne
<1>7. AtMostOne(active')
  <2>1. SUFFICES ASSUME NEW x \in active', NEW y \in active' PROVE x = y
    BY DEF AtMostOne
  <2>2. PICK a \in active : x = ended(a)
    BY <1>3
  <2>3. PICK b \in active : y = ended(b)
    BY <1>3
  <2>4. a = b
    BY <1>6
  <2>5. QED
    BY <2>2, <2>3, <2>4
<1>8. active = None <=> active' = None
  BY <1>3 DEF None
<1>9. \A a \in active' :
        \/ a \in active /\ a.session # s.session
        \/ a.session = s.session /\ a.last = {s} /\ \E b \in active : a.session = b.session
  BY <1>3, <1>4
<1>10. turns' \in Nat /\ UNCHANGED <<win, commands, selected, forwarded, tasks, events, sessions, reported>>
  BY DEF TypeOK, EndSession, Disturb
<1>11. QED
  BY <1>1, <1>2, <1>5, <1>7, <1>8, <1>9, <1>10 DEF Ends, s

LEMMA EffectSteps ==
  ASSUME TypeOK, SessionsInv, NEW task \in tasks, ControlTakesEffect(task)
  PROVE  TakesEffect
<1>1. task \in ControlTask
  BY DEF ControlTakesEffect, TypeOK, Tasks, RefreshTask, ReadTask, ReadKinds
<1> DEFINE r == task.receiver
           field == FieldOf(task.intent.control)
<1>2. /\ r \in Receivers /\ field \in Fields /\ task.intent.value \in Values
      /\ task.id \in Nat /\ sessions \in Nat
  BY <1>1, FieldTyped DEF ControlTask, Intent, TypeOK
<1>3. PICK entry \in Opened(r) :
        /\ entry.state.epoch # 0
        /\ svc' = [svc EXCEPT ![r] =
                     [entry EXCEPT !.state.current = TRUE,
                                   !.state.values[field] = task.intent.value,
                                   !.state.shows = @ \cup {task.id}]]
        /\ TakeSession(r, entry)
        /\ tasks' = (tasks \ {task}) \cup
             {[task EXCEPT !.report = "Completed", !.in = entry.state.session]}
  BY DEF ControlTakesEffect
<1> DEFINE now == [entry EXCEPT !.state.current = TRUE,
                                !.state.values[field] = task.intent.value,
                                !.state.shows = @ \cup {task.id}]
           done == [task EXCEPT !.report = "Completed", !.in = entry.state.session]
<1>4. /\ entry \in Session /\ entry.open /\ entry.state.epoch \in {0, entry.last}
      /\ \/ svc[r].open /\ entry = svc[r] /\ sessions' = sessions
         \/ /\ ~svc[r].open /\ entry.state.session = sessions + 1
            /\ sessions' = sessions + 1
  BY <1>2, <1>3, NewTyped DEF Opened, TakeSession, TypeOK, SessionsInv, ServiceInv
<1>5. /\ now \in Session /\ now.open /\ now.last = entry.last
      /\ now.state.session = entry.state.session /\ now.state.epoch = entry.state.epoch
      /\ now.state.shows = entry.state.shows \cup {task.id}
  BY <1>2, <1>4 DEF Session, State
<1>6. /\ done \in ControlTask /\ done.kind = "Control" /\ done.report = "Completed"
      /\ done.subscription = task.subscription /\ done.id = task.id
      /\ done.in = entry.state.session
  BY <1>1, <1>4 DEF ControlTask, Session, State
<1>7. svc' = [svc EXCEPT ![r] = now] /\ tasks' = (tasks \ {task}) \cup {done}
  BY <1>3
<1> HIDE DEF now, done
<1>8. done \in Tasks /\ IsCompleted(done) /\ task.kind = "Control"
  BY <1>1, <1>6 DEF Tasks, IsCompleted, ControlTask
<1>9. now.state.epoch = now.last /\ now.last # 0
  BY <1>3, <1>4, <1>5
<1>10. UNCHANGED <<win, commands, bridge, events, turns, reported>>
  BY DEF ControlTakesEffect
<1>11. \/ /\ svc[r].open /\ sessions' = sessions
          /\ now.state.session = svc[r].state.session /\ now.last = svc[r].last
          /\ svc[r].state.shows \subseteq now.state.shows
       \/ /\ ~svc[r].open /\ sessions' = sessions + 1
          /\ now.state.session = sessions + 1
  BY <1>4, <1>5
<1>12. task.id \in now.state.shows /\ done.in = now.state.session
  BY <1>5, <1>6
<1> HIDE DEF r
<1>13. r \in Receivers
  BY <1>2
<1>14. QED
  BY <1>5, <1>6, <1>7, <1>8, <1>9, <1>10, <1>11, <1>12, <1>13 DEF TakesEffect

\* The steps in which the window takes an event.
Listens ==
  /\ Arrives /\ ~win.closing
  /\ ArrivesState \/ ArrivesEnd \/ ArrivesFailure \/ ArrivesRead \/ ArrivesOther

\* Every step is of one of these classes.
LEMMA StepsAre ==
  ASSUME TypeOK, Numbered, SessionsInv, Next
  PROVE  \/ Quiet \/ Reselect \/ Listens
         \/ Selects \/ Resubscribes \/ Dispatches \/ Forwards \/ Finishes
         \/ Publishes \/ Ends \/ TakesEffect
<1>1. CASE CloseRequested \/ ShutdownFinished
  BY <1>1, ClosingIsQuiet
<1>2. CASE ~win.closing /\ TakeEvent
  BY <1>2, TakenEvents DEF Listens
<1>3. CASE ConfigLoaded \/ Select
  BY <1>3, SelectingSteps
<1>4. CASE \/ Refresh \/ HttpTick \/ OpenSourcePicker \/ RefreshSourceCatalog
           \/ SoundModeControlTimedOut
  BY <1>4, RefreshIsQuiet, ReadsAreQuiet, ClosingIsQuiet
<1>5. CASE \/ AdjustVolume \/ CommitVolume \/ SelectSoundMode \/ control
           \/ toggle_main_zone_power
  BY <1>5, ControlsAreQuiet
<1>6. CASE TakeCommand
  BY <1>6, SelectSteps, RefreshSteps, ControlSteps, ReadSteps
<1>7. CASE TakeState \/ TakeEnd
  BY <1>7, StateSteps, EndSteps
<1>8. CASE \E task \in tasks : \/ RefreshEnds(task) \/ ReadEnds(task)
                               \/ ControlTakesEffect(task) \/ ControlEnds(task)
  BY <1>8, TaskSteps, EffectSteps
<1>9. CASE \E r \in Receivers : \/ LoseConnection(r) \/ Reconnect(r) \/ ReadAgain(r)
                                \/ TurnKnob(r) \/ EndSession(r)
  BY <1>9, PublishSteps, EndingSteps
<1>10. QED
  BY <1>1, <1>2, <1>3, <1>4, <1>5, <1>6, <1>7, <1>8, <1>9 DEF Next, Running

-----------------------------------------------------------------------------
\* The types are kept.

LEMMA AskedTyped ==
  ASSUME TypeOK, NEW s, Asked(s)
  PROVE  commands' \in Seq(Command)
BY DEF Asked, TypeOK

LEMMA SubscribedTyped ==
  ASSUME TypeOK, NEW chosen \in Chosen, NEW n, Fails(chosen, n) \/ Opens(chosen, n)
  PROVE  /\ events' \in Seq(Events) /\ sessions' \in Nat /\ svc' \in [Receivers -> Session]
         /\ active' \in SUBSET Active /\ AtMostOne(active')
         /\ \A a \in active' : a.last = None
<1>1. CASE Fails(chosen, n)
  BY <1>1 DEF Fails, Gains, TypeOK, AtMostOne, None
<1>2. CASE Opens(chosen, n)
  <2>1. PICK entry \in Session :
          /\ sessions' \in {sessions, sessions + 1}
          /\ svc' = [svc EXCEPT ![chosen.receiver] = entry]
          /\ events' \in Seq(Events)
          /\ active' = {[session |-> entry.state.session, last |-> None]}
    BY <1>2 DEF Opens, Gains
  <2>2. entry.state.session \in Nat
    BY DEF Session, State
  <2>3. active' \in SUBSET Active /\ AtMostOne(active') /\ \A a \in active' : a.last = None
    BY <2>1, <2>2 DEF Active, AtMostOne, None
  <2>4. QED
    BY <2>1, <2>3 DEF TypeOK, Chosen
<1>3. QED
  BY <1>1, <1>2

LEMMA TypesKept ==
  ASSUME TypeOK, Numbered, SessionsInv, Next
  PROVE  TypeOK'
<1> USE DEF TypeOK
<1>1. CASE Quiet
  BY <1>1, AskedTyped DEF Quiet, bridge
<1>2. CASE Reselect
  <2>1. commands' \in Seq(Command)
    <3>1. PICK r \in Receivers :
            commands' = Append(commands, [kind |-> "Select", id |-> win.requests + 1, receiver |-> r])
      BY <1>2 DEF Reselect
    <3>2. [kind |-> "Select", id |-> win.requests + 1, receiver |-> r] \in Command
      BY DEF WindowTypes, Command, SelectCommand
    <3>3. QED
      BY <3>1, <3>2
  <2>2. AtMostOne(win'.volume)
    BY <1>2 DEF Reselect, AtMostOne, None
  <2>3. QED
    BY <1>2, <2>1, <2>2 DEF Reselect, bridge, service
<1>3. CASE Listens
  <2>1. Arrives
    BY <1>3 DEF Listens
  <2>2. AtMostOne(win'.volume)
    BY <2>1 DEF Arrives, AtMostOne
  <2>3. events' \in Seq(Events) /\ events[1] \in Events
    BY <2>1, Shifted DEF Arrives
  <2>4. reported' \in SUBSET Report
    <3>1. CASE reported' = reported
      BY <3>1
    <3>2. CASE reported' # reported
      <4>1. /\ IsCompleted(events[1])
            /\ reported' = reported \cup {[id |-> events[1].id, in |-> events[1].in,
                                           subscription |-> events[1].subscription]}
        BY <1>3, <3>2 DEF Listens, ArrivesState, ArrivesEnd, ArrivesFailure, ArrivesRead, ArrivesOther
      <4>2. events[1].id \in Nat /\ events[1].in \in Nat /\ events[1].subscription \in Nat
        BY <2>3, <4>1, EventShape DEF IsCompleted
      <4>3. QED
        BY <4>1, <4>2 DEF Report
    <3>3. QED
      BY <3>1, <3>2
  <2>5. commands' \in Seq(Command)
    BY <2>1, AskedTyped DEF Arrives
  <2>6. QED
    BY <2>1, <2>2, <2>3, <2>4, <2>5 DEF Arrives, bridge, service
<1>4. CASE Selects
  <2>1. PICK chosen \in Chosen : /\ selected' = {chosen}
                                 /\ Fails(chosen, 1) \/ Opens(chosen, 1)
    BY <1>4 DEF Selects
  <2>2. selected' \in SUBSET Chosen /\ AtMostOne(selected')
    BY <2>1 DEF AtMostOne
  <2>3. \A a \in active' : AtMostOne(a.last)
    BY <2>1, SubscribedTyped DEF AtMostOne, None
  <2>4. QED
    BY <1>4, <2>1, <2>2, <2>3, SubscribedTyped DEF Selects, Taken
<1>5. CASE Resubscribes
  <2>1. PICK chosen \in selected, n \in {1, 2} : Fails(chosen, n) \/ Opens(chosen, n)
    BY <1>5 DEF Resubscribes
  <2>2. \A a \in active' : AtMostOne(a.last)
    BY <2>1, SubscribedTyped DEF AtMostOne, None
  <2>3. QED
    BY <1>5, <2>1, <2>2, SubscribedTyped DEF Resubscribes, Taken
<1>6. CASE Dispatches
  BY <1>6 DEF Dispatches, Taken, Gains, bridge
<1>7. CASE Forwards
  BY <1>7 DEF Forwards, Gains
<1>8. CASE Finishes
  BY <1>8 DEF Finishes, Gains
<1>9. CASE Publishes
  BY <1>9 DEF Publishes, bridge
<1>10. CASE Ends
  <2>1. \A a \in active' : AtMostOne(a.last)
    BY <1>10 DEF Ends, AtMostOne
  <2>2. QED
    BY <1>10, <2>1 DEF Ends
<1>11. CASE TakesEffect
  BY <1>11 DEF TakesEffect, bridge
<1>12. QED
  BY <1>1, <1>2, <1>3, <1>4, <1>5, <1>6, <1>7, <1>8, <1>9, <1>10, <1>11, StepsAre

-----------------------------------------------------------------------------
\* The numbers are kept.

LEMMA Lengths ==
  ASSUME TypeOK
  PROVE  /\ Len(commands) \in Nat /\ Len(events) \in Nat
         /\ win.requests \in Nat /\ win.subscription \in Nat /\ win.generation \in Nat
         /\ \A i \in 1 .. Len(commands) : commands[i] \in Command
         /\ \A i \in 1 .. Len(events) : events[i] \in Events /\ events[i].subscription \in Nat
         /\ \A chosen \in selected : /\ chosen.subscription \in Nat
                                     /\ chosen.receiver \in Receivers
<1>1. \A i \in 1 .. Len(events) : events[i] \in Events
  BY DEF TypeOK
<1>2. \A i \in 1 .. Len(events) : events[i].subscription \in Nat
  BY <1>1, EventShape
<1>3. QED
  BY <1>1, <1>2 DEF TypeOK, WindowTypes, Chosen

\* Commands a message leaves come after all others, and none is a selection.
LEMMA AskedAfter ==
  ASSUME TypeOK, NEW s, Asked(s)
  PROVE  /\ Len(s) \in Nat /\ Len(commands') = Len(commands) + Len(s)
         /\ \A i \in 1 .. Len(commands) : commands'[i] = commands[i]
         /\ \A i \in 1 .. Len(s) : commands'[Len(commands) + i] = s[i]
         /\ \A i \in 1 .. Len(commands') : IsSelect(i)' => i \in 1 .. Len(commands) /\ IsSelect(i)
<1>1. commands \in Seq(Command) /\ s \in Seq(Command) /\ commands' = commands \o s
  BY DEF TypeOK, Asked
<1>2. /\ Len(s) \in Nat /\ Len(commands) \in Nat /\ Len(commands') = Len(commands) + Len(s)
      /\ \A i \in 1 .. Len(commands) : commands'[i] = commands[i]
      /\ \A i \in 1 .. Len(s) : commands'[Len(commands) + i] = s[i]
  BY <1>1, Appended
<1>3. \A i \in Len(commands) + 1 .. Len(commands') :
        i - Len(commands) \in 1 .. Len(s) /\ commands'[i] = s[i - Len(commands)]
  BY <1>2
<1>4. \A i \in 1 .. Len(commands') : IsSelect(i)' => i \in 1 .. Len(commands) /\ IsSelect(i)
  BY <1>2, <1>3 DEF IsSelect, Asked
<1>5. QED
  BY <1>2, <1>4

LEMMA NumberedByAsking ==
  ASSUME TypeOK, Numbered, NEW s, Asked(s),
         win'.subscription = win.subscription, UNCHANGED selected
  PROVE  /\ SelectsNumbered'
         /\ (\E i \in 1 .. Len(commands) : IsSelect(i) /\ commands[i].id = win.subscription)
            => \E i \in 1 .. Len(commands') : IsSelect(i)' /\ commands'[i].id = win'.subscription
<1>1. /\ Len(commands) \in Nat /\ Len(s) \in Nat /\ Len(commands') = Len(commands) + Len(s)
      /\ \A i \in 1 .. Len(commands) : commands'[i] = commands[i]
      /\ \A i \in 1 .. Len(commands') : IsSelect(i)' => i \in 1 .. Len(commands) /\ IsSelect(i)
  BY AskedAfter, Lengths
<1>2. SelectsNumbered'
  BY <1>1 DEF Numbered, SelectsNumbered
<1>3. QED
  BY <1>1, <1>2 DEF IsSelect

LEMMA QuietNumbered ==
  ASSUME TypeOK, Numbered, Quiet
  PROVE  Numbered'
<1>1. PICK s : Asked(s) /\ Awaited(s, InFlight(win))
  BY DEF Quiet
<1>2. win'.loaded \/ Unloaded'
  <2>1. SUFFICES ASSUME ~win'.loaded PROVE Unloaded'
    OBVIOUS
  <2>2. Unloaded /\ commands' = commands
    BY <2>1 DEF Quiet, Numbered
  <2>3. Emptied(win')
    BY <2>2 DEF Unloaded, Quiet, Narrower, Emptied, WindowTypes, None
  <2>4. win'.volume = None /\ InFlight(win') = {}
    BY <2>2 DEF Unloaded, Quiet, None
  <2>5. QED
    BY <2>2, <2>3, <2>4 DEF Unloaded, Quiet, bridge
<1>3. SelectsNumbered'
  BY <1>1, NumberedByAsking DEF Quiet, bridge
<1>4. SelectionKnown'
  <2>1. CASE Current
    BY <2>1 DEF SelectionKnown, Current, Quiet, bridge
  <2>2. CASE \E i \in 1 .. Len(commands) : IsSelect(i) /\ commands[i].id = win.subscription
    BY <1>1, <2>2, NumberedByAsking DEF SelectionKnown, Quiet, bridge
  <2>3. CASE /\ win.subscription = 0 /\ win.selection = None
             /\ win.volume = None /\ InFlight(win) = {}
    BY <2>3 DEF SelectionKnown, Quiet, None
  <2>4. QED
    BY <2>1, <2>2, <2>3 DEF Numbered, SelectionKnown
<1>5. win'.subscription <= win'.requests
  BY Lengths DEF Numbered, Quiet, WindowTypes
<1>6. QED
  BY <1>2, <1>3, <1>4, <1>5 DEF Numbered, TasksNumbered, EventsNumbered, Quiet, bridge

LEMMA ReselectNumbered ==
  ASSUME TypeOK, Numbered, Reselect
  PROVE  Numbered'
<1> DEFINE id == win.requests + 1
<1>1. PICK r \in Receivers :
        commands' = Append(commands, [kind |-> "Select", id |-> id, receiver |-> r])
  BY DEF Reselect
<1>2. /\ Len(commands) \in Nat /\ Len(commands') = Len(commands) + 1
      /\ \A i \in 1 .. Len(commands) : commands'[i] = commands[i]
      /\ commands'[Len(commands')].kind = "Select" /\ commands'[Len(commands')].id = id
  BY <1>1 DEF TypeOK
<1>3. /\ win.requests \in Nat /\ win.subscription \in Nat /\ win.subscription < id
      /\ win'.subscription = id /\ selected' = selected
  BY Lengths DEF Numbered, Reselect, bridge
<1>4. \A chosen \in selected : chosen.subscription \in Nat /\ chosen.subscription < id
  BY <1>3, Lengths DEF Numbered
<1>5. SelectsNumbered'
  <2>1. SUFFICES ASSUME NEW i \in 1 .. Len(commands'), IsSelect(i)'
                 PROVE  /\ commands'[i].id \in 1 .. id
                        /\ \A chosen \in selected : chosen.subscription < commands'[i].id
                        /\ \A j \in 1 .. Len(commands') :
                             IsSelect(j)' /\ i < j => commands'[i].id < commands'[j].id
    BY <1>3 DEF SelectsNumbered
  <2>2. CASE i \in 1 .. Len(commands)
    <3>1. IsSelect(i) /\ commands'[i] = commands[i] /\ commands[i].id \in 1 .. win.subscription
      BY <1>2, <2>1, <2>2 DEF IsSelect, Numbered, SelectsNumbered
    <3>2. \A j \in 1 .. Len(commands') : IsSelect(j)' /\ i < j => commands'[i].id < commands'[j].id
      <4>1. SUFFICES ASSUME NEW j \in 1 .. Len(commands'), IsSelect(j)', i < j
                     PROVE  commands'[i].id < commands'[j].id
        OBVIOUS
      <4>2. CASE j \in 1 .. Len(commands)
        BY <1>2, <2>2, <3>1, <4>1, <4>2 DEF IsSelect, Numbered, SelectsNumbered
      <4>3. CASE j = Len(commands')
        BY <1>2, <1>3, <3>1, <4>3
      <4>4. QED
        BY <1>2, <4>2, <4>3
    <3>3. QED
      BY <1>3, <2>2, <3>1, <3>2 DEF Numbered, SelectsNumbered
  <2>3. CASE i = Len(commands')
    BY <1>2, <1>3, <1>4, <2>3
  <2>4. QED
    BY <1>2, <2>2, <2>3
<1>6. SelectionKnown'
  BY <1>2, <1>3 DEF SelectionKnown, IsSelect
<1>7. \A chosen \in selected' : chosen.subscription \in 1 .. win'.subscription
  BY <1>3, <1>4 DEF Numbered
<1>8. \A e \in reported' : e.subscription <= win'.subscription
  BY <1>3 DEF Numbered, Reselect, TypeOK, Report
<1>9. win'.loaded /\ win'.subscription <= win'.requests
  BY <1>3 DEF Reselect
<1>10. TasksNumbered' /\ EventsNumbered'
  BY DEF Numbered, TasksNumbered, EventsNumbered, Reselect, bridge
<1>11. QED
  BY <1>5, <1>6, <1>7, <1>8, <1>9, <1>10 DEF Numbered

\* The first event is gone.
LEMMA ArrivedEvents ==
  ASSUME TypeOK, Arrives
  PROVE  /\ Len(events) \in Nat \ {0} /\ Len(events') = Len(events) - 1
         /\ \A i \in 1 .. Len(events') : events'[i] = events[i + 1]
         /\ events[1] \in Events
BY Shifted DEF TypeOK, Arrives

LEMMA ListensNumbered ==
  ASSUME TypeOK, Numbered, Listens
  PROVE  Numbered'
<1>1. Arrives
  BY DEF Listens
<1>2. PICK s : Asked(s)
  BY <1>1 DEF Arrives
<1>3. /\ Len(events) \in Nat \ {0} /\ Len(events') = Len(events) - 1
      /\ \A i \in 1 .. Len(events') : events'[i] = events[i + 1]
      /\ events[1] \in Events
  BY <1>1, ArrivedEvents
<1>4. win.loaded /\ win'.loaded
  BY <1>1 DEF Arrives, Numbered, Unloaded
<1>5. SelectsNumbered'
  BY <1>1, <1>2, NumberedByAsking DEF Arrives, bridge
<1>6. SelectionKnown'
  <2>1. CASE Current
    BY <1>1, <2>1 DEF SelectionKnown, Current, Arrives, bridge
  <2>2. CASE \E i \in 1 .. Len(commands) : IsSelect(i) /\ commands[i].id = win.subscription
    BY <1>1, <1>2, <2>2, NumberedByAsking DEF SelectionKnown, Arrives, bridge
  <2>3. CASE ~Current /\ /\ win.subscription = 0 /\ win.selection = None
                         /\ win.volume = None /\ InFlight(win) = {}
    <3>1. win'.volume = None /\ win'.selection = None /\ win'.subscription = 0
      BY <1>1, <2>3 DEF Arrives, None
    <3>2. InFlight(win') = {}
      <4>1. events[1].subscription \in Nat
        BY <1>3, EventShape
      <4>2. \/ events[1].subscription = 0 /\ events[1].kind = "Failed"
            \/ \E chosen \in selected : events[1].subscription \in 1 .. chosen.subscription
        BY <1>3 DEF Numbered, EventsNumbered
      <4>3. events[1].subscription = 0 /\ events[1].kind = "Failed"
        BY <2>3, <4>1, <4>2, Lengths DEF Numbered
      <4>4. Mine(1)
        BY <2>3, <4>3 DEF Mine
      <4>5. QED
        BY <2>3, <4>3, <4>4 DEF Listens, ArrivesState, StateAt, ArrivesEnd, ArrivesFailure,
           ArrivesRead, IsRead, ReadKinds, ArrivesOther
    <3>3. QED
      BY <3>1, <3>2 DEF SelectionKnown
  <2>4. QED
    BY <2>1, <2>2, <2>3 DEF Numbered, SelectionKnown
<1>7. EventsNumbered'
  BY <1>1, <1>3 DEF Numbered, EventsNumbered, Arrives, bridge
<1>8. \A e \in reported' : e.subscription <= win'.subscription
  <2>1. reported' \subseteq reported \cup {[id |-> events[1].id, in |-> events[1].in,
                                            subscription |-> win.subscription]}
    BY DEF Listens, ArrivesState, ArrivesEnd, ArrivesFailure, ArrivesRead, ArrivesOther, Mine
  <2>2. QED
    BY <1>1, <2>1, Lengths DEF Arrives, Numbered
<1>9. QED
  BY <1>1, <1>4, <1>5, <1>6, <1>7, <1>8 DEF Numbered, TasksNumbered, Arrives, bridge

\* The bridge takes a command that selects nothing.
LEMMA NumberedByTaking ==
  ASSUME TypeOK, Numbered, Taken, commands[1].kind # "Select", UNCHANGED <<win, selected>>
  PROVE  SelectsNumbered' /\ SelectionKnown'
<1>1. /\ Len(commands) \in Nat \ {0} /\ Len(commands') = Len(commands) - 1
      /\ \A i \in 1 .. Len(commands') : commands'[i] = commands[i + 1]
  BY DEF Taken
<1>2. SelectsNumbered'
  <2>1. \A i \in 1 .. Len(commands') : IsSelect(i)' => IsSelect(i + 1) /\ i + 1 \in 1 .. Len(commands)
    BY <1>1 DEF IsSelect
  <2>2. SUFFICES ASSUME NEW i \in 1 .. Len(commands'), IsSelect(i)'
                 PROVE  /\ commands'[i].id \in 1 .. win.subscription
                        /\ \A chosen \in selected : chosen.subscription < commands'[i].id
                        /\ \A j \in 1 .. Len(commands') :
                             IsSelect(j)' /\ i < j => commands'[i].id < commands'[j].id
    BY DEF SelectsNumbered
  <2>3. /\ IsSelect(i + 1) /\ i + 1 \in 1 .. Len(commands)
        /\ commands'[i] = commands[i + 1]
    BY <1>1, <2>1, <2>2
  <2>4. \A j \in 1 .. Len(commands') : IsSelect(j)' /\ i < j => commands'[i].id < commands'[j].id
    BY <1>1, <2>1, <2>3 DEF Numbered, SelectsNumbered
  <2>5. QED
    BY <2>3, <2>4 DEF Numbered, SelectsNumbered
<1>3. SelectionKnown'
  <2>1. CASE \E i \in 1 .. Len(commands) : IsSelect(i) /\ commands[i].id = win.subscription
    <3>1. PICK i \in 1 .. Len(commands) : IsSelect(i) /\ commands[i].id = win.subscription
      BY <2>1
    <3>2. i # 1
      BY <3>1 DEF IsSelect
    <3>3. i - 1 \in 1 .. Len(commands') /\ commands'[i - 1] = commands[i]
      BY <1>1, <3>2
    <3>4. QED
      BY <3>1, <3>3 DEF SelectionKnown, IsSelect
  <2>2. CASE ~\E i \in 1 .. Len(commands) : IsSelect(i) /\ commands[i].id = win.subscription
    BY <2>2 DEF SelectionKnown, Numbered, Current
  <2>3. QED
    BY <2>1, <2>2
<1>4. QED
  BY <1>2, <1>3

\* Events of the bridge's selection are added.
LEMMA NumberedByGaining ==
  ASSUME TypeOK, EventsNumbered, NEW first, NEW last, NEW n, Gains(first, last, n),
         UNCHANGED selected,
         \/ last.subscription = 0 /\ last.kind = "Failed"
         \/ \E chosen \in selected : last.subscription \in 1 .. chosen.subscription,
         n = 2 => \E chosen \in selected : first.subscription \in 1 .. chosen.subscription
  PROVE  EventsNumbered'
BY Gained DEF EventsNumbered

\* The kinds and subscriptions of what a subscription tells.
LEMMA Subscribed ==
  ASSUME TypeOK, NEW chosen \in Chosen, NEW n, Fails(chosen, n) \/ Opens(chosen, n)
  PROVE  \E first, last :
           /\ Gains(first, last, n)
           /\ first.kind = "SessionEnded" /\ first.subscription = chosen.subscription
           /\ last.kind \in {"State", "ConnectFailed"} /\ last.subscription = chosen.subscription
<1>1. chosen.subscription \in Nat
  BY DEF Chosen
<1>2. CASE Fails(chosen, n)
  BY <1>1, <1>2, PlainTyped DEF Fails
<1>3. CASE Opens(chosen, n)
  <2>1. PICK entry \in Session :
          Gains(Event("SessionEnded", chosen.subscription), StateEvent(chosen, entry.state), n)
    BY <1>3 DEF Opens
  <2>2. entry.state \in State
    BY DEF Session
  <2>3. QED
    BY <1>1, <2>1, <2>2, PlainTyped, StateTyped
<1>4. QED
  BY <1>2, <1>3

LEMMA SelectsKeepNumbers ==
  ASSUME TypeOK, Numbered, Selects
  PROVE  Numbered'
<1>1. PICK chosen \in Chosen : /\ chosen.subscription = commands[1].id /\ selected' = {chosen}
                               /\ Fails(chosen, 1) \/ Opens(chosen, 1)
  BY DEF Selects
<1> DEFINE id == commands[1].id
<1>2. /\ Len(commands) \in Nat \ {0} /\ Len(commands') = Len(commands) - 1
      /\ \A i \in 1 .. Len(commands') : commands'[i] = commands[i + 1]
      /\ IsSelect(1) /\ 1 \in 1 .. Len(commands) /\ win' = win
  BY DEF Selects, Taken, IsSelect
<1>3. /\ id \in 1 .. win.subscription /\ win.subscription \in Nat
      /\ \A old \in selected : old.subscription < id
  BY <1>2, Lengths DEF Numbered, SelectsNumbered
<1>4. win.loaded
  BY <1>2 DEF Numbered, Unloaded
<1>5. \A i \in 1 .. Len(commands') : IsSelect(i)' => IsSelect(i + 1) /\ i + 1 \in 1 .. Len(commands)
  BY <1>2 DEF IsSelect
<1>6. SelectsNumbered'
  <2>1. SUFFICES ASSUME NEW i \in 1 .. Len(commands'), IsSelect(i)'
                 PROVE  /\ commands'[i].id \in 1 .. win'.subscription
                        /\ \A c \in selected' : c.subscription < commands'[i].id
                        /\ \A j \in 1 .. Len(commands') :
                             IsSelect(j)' /\ i < j => commands'[i].id < commands'[j].id
    BY DEF SelectsNumbered
  <2>2. /\ IsSelect(i + 1) /\ i + 1 \in 1 .. Len(commands) /\ 1 < i + 1
        /\ commands'[i] = commands[i + 1]
    BY <1>2, <1>5, <2>1
  <2>3. commands[i + 1].id \in 1 .. win.subscription /\ id < commands[i + 1].id
    BY <1>2, <2>2 DEF Numbered, SelectsNumbered
  <2>4. \A j \in 1 .. Len(commands') : IsSelect(j)' /\ i < j => commands'[i].id < commands'[j].id
    BY <1>2, <1>5, <2>2 DEF Numbered, SelectsNumbered
  <2>5. QED
    BY <1>1, <1>2, <2>2, <2>3, <2>4
<1>7. SelectionKnown'
  <2>1. CASE id = win.subscription
    BY <1>1, <1>2, <2>1 DEF SelectionKnown, Current
  <2>2. CASE id # win.subscription
    <3>1. ~Current
      BY <1>3, Lengths DEF Current
    <3>2. PICK i \in 1 .. Len(commands) : IsSelect(i) /\ commands[i].id = win.subscription
      BY <1>3, <3>1 DEF Numbered, SelectionKnown
    <3>3. i - 1 \in 1 .. Len(commands') /\ commands'[i - 1] = commands[i]
      BY <1>2, <2>2, <3>2
    <3>4. QED
      BY <1>2, <3>2, <3>3 DEF SelectionKnown, IsSelect
  <2>3. QED
    BY <2>1, <2>2
<1>8. TasksNumbered'
  <2>1. SUFFICES ASSUME NEW task \in tasks PROVE task.subscription \in 1 .. id
    BY <1>1 DEF TasksNumbered, Selects
  <2>2. PICK old \in selected : task.subscription \in 1 .. old.subscription
    BY DEF Numbered, TasksNumbered
  <2>3. QED
    BY <1>3, <2>2, Lengths
<1>9. EventsNumbered'
  <2>1. PICK first, last : /\ Gains(first, last, 1)
                           /\ last.subscription = chosen.subscription
    BY <1>1, Subscribed
  <2>2. \A i \in 1 .. Len(events') : \/ i \in 1 .. Len(events) /\ events'[i] = events[i]
                                     \/ events'[i] = last
    BY <2>1, Gained
  <2>3. \A i \in 1 .. Len(events) :
          \/ events[i].subscription = 0 /\ events[i].kind = "Failed"
          \/ events[i].subscription \in 1 .. id
    <3>1. SUFFICES ASSUME NEW i \in 1 .. Len(events), NEW old \in selected,
                          events[i].subscription \in 1 .. old.subscription
                   PROVE  events[i].subscription \in 1 .. id
      BY DEF Numbered, EventsNumbered
    <3>2. QED
      BY <1>3, <3>1, Lengths
  <2>4. QED
    BY <1>1, <1>3, <2>1, <2>2, <2>3 DEF EventsNumbered
<1>10. QED
  BY <1>1, <1>2, <1>3, <1>4, <1>6, <1>7, <1>8, <1>9 DEF Numbered, Selects

LEMMA BridgeKeepsNumbers ==
  ASSUME TypeOK, Numbered, Resubscribes \/ Dispatches \/ Forwards \/ Finishes
  PROVE  Numbered'
<1>1. /\ UNCHANGED <<win, selected, reported>>
      /\ UNCHANGED commands \/ (Taken /\ commands[1].kind # "Select")
  BY DEF Resubscribes, Dispatches, Forwards, Finishes, bridge
<1>2. SelectsNumbered' /\ SelectionKnown'
  <2>1. CASE UNCHANGED commands
    BY <1>1, <2>1 DEF Numbered, SelectsNumbered, SelectionKnown, Current, IsSelect
  <2>2. QED
    BY <1>1, <2>1, NumberedByTaking
<1>3. \A chosen \in selected : /\ chosen.subscription \in 1 .. chosen.subscription
                               /\ chosen \in Chosen
  BY Lengths DEF Numbered, TypeOK
<1>4. win.loaded
  <2>1. CASE ~win.loaded
    BY <2>1 DEF Numbered, Unloaded, Resubscribes, Dispatches, Forwards, Finishes, Taken, None
  <2>2. QED
    BY <2>1
<1>5. CASE Resubscribes
  <2>1. PICK chosen \in selected, n \in {1, 2} : Fails(chosen, n) \/ Opens(chosen, n)
    BY <1>5 DEF Resubscribes
  <2>2. PICK first, last : /\ Gains(first, last, n)
                           /\ first.subscription = chosen.subscription
                           /\ last.subscription = chosen.subscription
    BY <1>3, <2>1, Subscribed
  <2>3. EventsNumbered'
    BY <1>1, <1>3, <2>2, NumberedByGaining DEF Numbered
  <2>4. QED
    BY <1>1, <1>2, <1>4, <1>5, <2>3 DEF Numbered, TasksNumbered, Resubscribes
<1>6. CASE Dispatches
  <2>1. CASE selected = None /\ tasks' = tasks /\ Gains(Event("Failed", 0), Event("Failed", 0), 1)
    <3>1. EventsNumbered'
      BY <1>1, <2>1, PlainTyped, NumberedByGaining DEF Numbered
    <3>2. QED
      BY <1>1, <1>2, <1>4, <2>1, <3>1 DEF Numbered, TasksNumbered
  <2>2. ASSUME NEW chosen \in selected, NEW task, task.subscription = chosen.subscription,
               tasks' = tasks \cup {task}, events' = events
        PROVE  Numbered'
    BY <1>1, <1>2, <1>3, <1>4, <2>2 DEF Numbered, TasksNumbered, EventsNumbered
  <2>3. ASSUME NEW chosen \in selected, NEW event, event.subscription = chosen.subscription,
               Gains(event, event, 1), tasks' = tasks
        PROVE  Numbered'
    <3>1. EventsNumbered'
      BY <1>1, <1>3, <2>3, NumberedByGaining DEF Numbered
    <3>2. QED
      BY <1>1, <1>2, <1>4, <2>3, <3>1 DEF Numbered, TasksNumbered
  <2>4. QED
    BY <1>6, <2>1, <2>2, <2>3 DEF Dispatches
<1>7. CASE Forwards
  <2>1. PICK chosen \in selected, x \in State :
          Gains(StateEvent(chosen, x), StateEvent(chosen, x), 1)
    BY <1>7 DEF Forwards
  <2>2. EventsNumbered'
    BY <1>1, <1>3, <2>1, StateTyped, NumberedByGaining DEF Numbered
  <2>3. QED
    BY <1>1, <1>2, <1>4, <1>7, <2>2 DEF Numbered, TasksNumbered, Forwards
<1>8. CASE Finishes
  <2>1. PICK task \in tasks, event \in Events, first \in Events, n \in {1, 2} :
          /\ tasks' = tasks \ {task} /\ event.subscription = task.subscription
          /\ Gains(first, event, n)
          /\ n = 2 => \E chosen \in selected, x \in State : first = StateEvent(chosen, x)
    BY <1>8 DEF Finishes, Answers
  <2>2. n = 2 => \E chosen \in selected : first.subscription = chosen.subscription
    BY <1>3, <2>1, StateTyped
  <2>3. \E chosen \in selected : event.subscription \in 1 .. chosen.subscription
    BY <2>1 DEF Numbered, TasksNumbered
  <2>4. EventsNumbered'
    BY <1>1, <1>3, <2>1, <2>2, <2>3, NumberedByGaining DEF Numbered
  <2>5. QED
    BY <1>1, <1>2, <1>4, <2>1, <2>4 DEF Numbered, TasksNumbered
<1>9. QED
  BY <1>5, <1>6, <1>7, <1>8

LEMMA NumbersKept ==
  ASSUME TypeOK, Numbered, SessionsInv, Next
  PROVE  Numbered'
<1>1. CASE Publishes \/ Ends
  <2>1. UNCHANGED <<win, commands, selected, tasks, events, reported>>
    BY <1>1 DEF Publishes, Ends, bridge
  <2>2. active = None => active' = None
    BY <1>1 DEF Publishes, Ends, bridge
  <2>3. QED
    BY <2>1, <2>2 DEF Numbered, Unloaded, SelectsNumbered, SelectionKnown, TasksNumbered,
                   EventsNumbered, IsSelect, Current
<1>2. CASE TakesEffect
  <2>1. UNCHANGED <<win, commands, selected, events, reported>>
    BY <1>2 DEF TakesEffect, bridge
  <2>2. PICK task \in tasks, done \in Tasks : /\ done.subscription = task.subscription
                                              /\ tasks' = (tasks \ {task}) \cup {done}
    BY <1>2 DEF TakesEffect
  <2>3. TasksNumbered'
    BY <2>1, <2>2 DEF Numbered, TasksNumbered
  <2>4. win.loaded
    BY <2>2 DEF Numbered, Unloaded
  <2>5. QED
    BY <2>1, <2>3, <2>4 DEF Numbered, SelectsNumbered, SelectionKnown,
                   EventsNumbered, IsSelect, Current
<1>3. QED
  BY <1>1, <1>2, StepsAre, QuietNumbered, ReselectNumbered, ListensNumbered,
     SelectsKeepNumbers, BridgeKeepsNumbers

-----------------------------------------------------------------------------
\* The sessions keep their numbers.

\* The receiver's entry changes: its session goes on, or it is a new one.
Entered(r, entry) ==
  /\ \/ sessions' = sessions /\ svc[r].open /\ entry.state.session = svc[r].state.session
     \/ sessions' = sessions + 1 /\ ~svc[r].open /\ entry.state.session = sessions + 1
  /\ entry.state.epoch \in {0, entry.last}
  /\ svc' = [svc EXCEPT ![r] = entry]

LEMMA ServiceNumbers ==
  ASSUME TypeOK
  PROVE  /\ sessions \in Nat
         /\ \A r \in Receivers : /\ svc[r] \in Session /\ svc[r].state \in State
                                 /\ svc[r].state.session \in Nat /\ svc[r].last \in Nat
                                 /\ svc[r].state.epoch \in Nat
         /\ \A a \in active : a.session \in Nat
<1>1. \A r \in Receivers : svc[r] \in Session /\ svc[r].state \in State
  BY DEF TypeOK, Session
<1>2. QED
  BY <1>1 DEF TypeOK, Session, State, Active

LEMMA EnteredService ==
  ASSUME TypeOK, ServiceInv, NEW r \in Receivers, NEW entry, Entered(r, entry)
  PROVE  /\ ServiceInv' /\ sessions <= sessions'
         /\ svc'[r] = entry /\ \A q \in Receivers \ {r} : svc'[q] = svc[q]
<1>1. svc'[r] = entry /\ \A q \in Receivers \ {r} : svc'[q] = svc[q]
  BY DEF TypeOK, Entered
<1>2. \A q \in Receivers : /\ svc[q].state.session \in Nat /\ svc[q].state.session <= sessions
                           /\ sessions \in Nat
  BY ServiceNumbers DEF ServiceInv
<1>3. entry.state.session # 0 /\ entry.state.session <= sessions' /\ sessions <= sessions'
  BY <1>2 DEF Entered, ServiceInv
<1>4. \A q \in Receivers \ {r} : svc[q].state.session # entry.state.session
  BY <1>2, <1>3 DEF Entered, ServiceInv
<1>5. \A q \in Receivers : svc'[q].state.session <= sessions'
  BY <1>1, <1>2, <1>3 DEF Entered
<1>6. QED
  BY <1>1, <1>3, <1>4, <1>5 DEF ServiceInv, Entered

LEMMA OpensEnter ==
  ASSUME TypeOK, ServiceInv, NEW chosen \in Chosen, NEW n, Opens(chosen, n)
  PROVE  \E entry \in Session :
           /\ Entered(chosen.receiver, entry) /\ entry.open
           /\ svc[chosen.receiver].open => entry = svc[chosen.receiver]
           /\ ~svc[chosen.receiver].open => entry.last = 1 /\ entry.state.epoch = 1
           /\ Gains(Event("SessionEnded", chosen.subscription),
                    StateEvent(chosen, entry.state), n)
           /\ active' = {[session |-> entry.state.session, last |-> None]}
           /\ forwarded' = {stamp(entry.state)}
<1>1. PICK entry \in Session :
        /\ \/ svc[chosen.receiver].open /\ entry = svc[chosen.receiver] /\ sessions' = sessions
           \/ /\ ~svc[chosen.receiver].open /\ entry = NewSession(sessions + 1)
              /\ sessions' = sessions + 1
        /\ svc' = [svc EXCEPT ![chosen.receiver] = entry]
        /\ Gains(Event("SessionEnded", chosen.subscription), StateEvent(chosen, entry.state), n)
        /\ active' = {[session |-> entry.state.session, last |-> None]}
        /\ forwarded' = {stamp(entry.state)}
  BY DEF Opens
<1>2. chosen.receiver \in Receivers /\ sessions + 1 \in Nat
  BY DEF Chosen, TypeOK
<1>3. ~svc[chosen.receiver].open =>
        /\ entry.open /\ entry.last = 1 /\ entry.state.epoch = 1
        /\ entry.state.session = sessions + 1
  BY <1>1, <1>2, NewTyped
<1>4. Entered(chosen.receiver, entry) /\ entry.open
  BY <1>1, <1>2, <1>3 DEF Entered, ServiceInv
<1>5. QED
  BY <1>1, <1>3, <1>4

LEMMA SubscribedSessions ==
  ASSUME TypeOK, ServiceInv, NEW chosen \in Chosen, NEW n, Fails(chosen, n) \/ Opens(chosen, n),
         selected' = {chosen}
  PROVE  SessionsInv'
<1>1. CASE Fails(chosen, n)
  BY <1>1 DEF Fails, SessionsInv, ServiceInv, ActiveInv, None
<1>2. CASE Opens(chosen, n)
  <2>1. PICK entry \in Session :
           /\ Entered(chosen.receiver, entry) /\ entry.open
           /\ active' = {[session |-> entry.state.session, last |-> None]}
    BY <1>2, OpensEnter
  <2>2. chosen.receiver \in Receivers
    BY DEF Chosen
  <2>3. ServiceInv' /\ svc'[chosen.receiver] = entry
    BY <2>1, <2>2, EnteredService
  <2>5. entry.state.session \in Nat /\ sessions' \in Nat
    BY <1>2, SubscribedTyped DEF Session, State
  <2>6. entry.state.session \in 1 .. sessions'
    BY <2>1, <2>2, <2>3, <2>5 DEF ServiceInv
  <2>7. ActiveInv'
    BY <2>1, <2>2, <2>3, <2>5, <2>6 DEF ActiveInv, None
  <2>8. QED
    BY <2>3, <2>7 DEF SessionsInv, None
<1>3. QED
  BY <1>1, <1>2

LEMMA OnlySelected ==
  ASSUME TypeOK, NEW chosen \in selected
  PROVE  chosen \in Chosen /\ selected = {chosen}
BY DEF TypeOK, AtMostOne

LEMMA PublishesEnter ==
  ASSUME TypeOK, ServiceInv, Publishes
  PROVE  \E r \in Receivers, entry \in Session :
           /\ Entered(r, entry) /\ sessions' = sessions /\ entry.open /\ svc[r].open
           /\ entry.state.session = svc[r].state.session
           /\ entry.state.shows = svc[r].state.shows
           /\ svc[r].last <= entry.last
BY DEF Publishes, Entered

LEMMA EndsEnter ==
  ASSUME TypeOK, ServiceInv, Ends
  PROVE  \E r \in Receivers, entry \in Session :
           /\ Entered(r, entry) /\ sessions' = sessions /\ ~entry.open /\ svc[r].open
           /\ entry.state = svc[r].state /\ entry.last = svc[r].last
           /\ \A a \in active' :
                \/ a \in active /\ a.session # svc[r].state.session
                \/ /\ a.session = svc[r].state.session /\ a.last = {svc[r].state}
                   /\ \E b \in active : a.session = b.session
BY DEF Ends, Entered, ServiceInv

LEMMA TakesEffectEnter ==
  ASSUME TypeOK, ServiceInv, TakesEffect
  PROVE  \E task \in tasks, r \in Receivers, entry \in Session, done \in Tasks :
           /\ Entered(r, entry) /\ entry.open
           /\ svc[r].open => /\ entry.last = svc[r].last
                             /\ svc[r].state.shows \subseteq entry.state.shows
                             /\ entry.state.session = svc[r].state.session
           /\ ~svc[r].open => entry.state.session = sessions + 1
           /\ entry.state.epoch = entry.last /\ entry.last # 0
           /\ task.kind = "Control" /\ IsCompleted(done)
           /\ done.subscription = task.subscription /\ done.id = task.id
           /\ task.id \in entry.state.shows /\ done.in = entry.state.session
           /\ tasks' = (tasks \ {task}) \cup {done}
<1>1. PICK task \in tasks, r \in Receivers, entry \in Session, done \in Tasks :
       /\ \/ /\ svc[r].open /\ sessions' = sessions
             /\ entry.state.session = svc[r].state.session /\ entry.last = svc[r].last
             /\ svc[r].state.shows \subseteq entry.state.shows
          \/ /\ ~svc[r].open /\ sessions' = sessions + 1
             /\ entry.state.session = sessions + 1
       /\ entry.open /\ entry.state.epoch = entry.last /\ entry.last # 0
       /\ svc' = [svc EXCEPT ![r] = entry]
       /\ task.kind = "Control" /\ IsCompleted(done)
       /\ done.subscription = task.subscription /\ done.id = task.id
       /\ task.id \in entry.state.shows /\ done.in = entry.state.session
       /\ tasks' = (tasks \ {task}) \cup {done}
  BY DEF TakesEffect
<1>2. Entered(r, entry)
  BY <1>1 DEF Entered
<1>3. QED
  BY <1>1, <1>2

LEMMA SessionsKept ==
  ASSUME TypeOK, Numbered, SessionsInv, Next
  PROVE  SessionsInv'
<1> USE DEF SessionsInv
<1>1. CASE Quiet \/ Reselect \/ Listens \/ Dispatches \/ Forwards \/ Finishes
  <2>1. UNCHANGED <<selected, active, svc, sessions>>
    BY <1>1 DEF Quiet, Reselect, Listens, Arrives, Dispatches, Forwards, Finishes, bridge, service
  <2>2. QED
    BY <2>1 DEF ServiceInv, ActiveInv
<1>2. CASE Selects
  BY <1>2, SubscribedSessions DEF Selects
<1>3. CASE Resubscribes
  <2>1. PICK chosen \in selected, n \in {1, 2} : Fails(chosen, n) \/ Opens(chosen, n)
    BY <1>3 DEF Resubscribes
  <2>2. selected' = {chosen} /\ chosen \in Chosen
    BY <1>3, OnlySelected DEF Resubscribes
  <2>3. QED
    BY <2>1, <2>2, SubscribedSessions
<1>4. CASE Publishes
  <2>1. PICK r \in Receivers, entry \in Session :
           /\ Entered(r, entry) /\ sessions' = sessions /\ entry.open /\ svc[r].open
           /\ entry.state.session = svc[r].state.session
    BY <1>4, PublishesEnter
  <2>2. ServiceInv' /\ svc'[r] = entry /\ \A q \in Receivers \ {r} : svc'[q] = svc[q]
    BY <2>1, EnteredService
  <2>3. \A q \in Receivers : /\ svc'[q].state.session = svc[q].state.session
                             /\ svc'[q].open <=> svc[q].open
    BY <2>1, <2>2
  <2>4. UNCHANGED <<active, selected>>
    BY <1>4 DEF Publishes, bridge
  <2>5. ActiveInv'
    BY <2>1, <2>3, <2>4, Lengths DEF ActiveInv
  <2>6. QED
    BY <2>2, <2>4, <2>5
<1>5. CASE Ends
  <2>1. PICK r \in Receivers, entry \in Session :
           /\ Entered(r, entry) /\ sessions' = sessions /\ ~entry.open /\ svc[r].open
           /\ entry.state = svc[r].state
           /\ \A a \in active' :
                \/ a \in active /\ a.session # svc[r].state.session
                \/ /\ a.session = svc[r].state.session /\ a.last = {svc[r].state}
                   /\ \E b \in active : a.session = b.session
    BY <1>5, EndsEnter
  <2>2. ServiceInv' /\ svc'[r] = entry /\ \A q \in Receivers \ {r} : svc'[q] = svc[q]
    BY <2>1, EnteredService
  <2>3. \A q \in Receivers : /\ svc'[q].state.session = svc[q].state.session
                             /\ svc'[q].open <=> svc[q].open /\ q # r
    BY <2>1, <2>2
  <2>4. selected' = selected /\ (active' = None <=> active = None)
    BY <1>5 DEF Ends
  <2>5. ASSUME NEW a \in active', NEW chosen \in selected
        PROVE  /\ a.session \in 1 .. sessions'
               /\ a.session <= svc'[chosen.receiver].state.session
               /\ a.last = None => /\ svc'[chosen.receiver].open
                                   /\ svc'[chosen.receiver].state.session = a.session
               /\ \A x \in a.last : /\ x.session = a.session
                                    /\ \A q \in Receivers : svc'[q].open => svc'[q].state.session # a.session
    <3>1. chosen.receiver \in Receivers
      BY Lengths
    <3>2. PICK b \in active : a.session = b.session
      BY <2>1, <2>5
    <3>3. a.session \in 1 .. sessions' /\ a.session <= svc'[chosen.receiver].state.session
      BY <2>1, <2>3, <3>1, <3>2 DEF ActiveInv
    <3>4. CASE a \in active /\ a.session # svc[r].state.session
      BY <2>3, <3>1, <3>3, <3>4 DEF ActiveInv
    <3>5. CASE a.session = svc[r].state.session /\ a.last = {svc[r].state}
      <4>1. \A q \in Receivers : svc'[q].open => svc'[q].state.session # a.session
        BY <2>1, <2>3, <3>5 DEF ServiceInv
      <4>2. QED
        BY <3>3, <3>5, <4>1 DEF None
    <3>6. QED
      BY <2>1, <2>5, <3>4, <3>5
  <2>6. ActiveInv'
    BY <2>4, <2>5 DEF ActiveInv
  <2>7. QED
    BY <2>2, <2>4, <2>6
<1>6. CASE TakesEffect
  <2>1. PICK r \in Receivers, entry \in Session :
           /\ Entered(r, entry) /\ entry.open
           /\ svc[r].open => entry.state.session = svc[r].state.session
           /\ ~svc[r].open => entry.state.session = sessions + 1
    BY <1>6, TakesEffectEnter
  <2>2. /\ ServiceInv' /\ svc'[r] = entry /\ \A q \in Receivers \ {r} : svc'[q] = svc[q]
        /\ sessions <= sessions'
    BY <2>1, EnteredService
  <2>3. UNCHANGED <<active, selected>>
    BY <1>6 DEF TakesEffect, bridge
  <2>4. \A q \in Receivers : /\ svc[q].state.session <= sessions /\ svc[q].state.session \in Nat
    BY ServiceNumbers DEF ServiceInv
  <2>5. ASSUME NEW a \in active, NEW chosen \in selected
        PROVE  /\ a.session \in 1 .. sessions'
               /\ a.session <= svc'[chosen.receiver].state.session
               /\ a.last = None => /\ svc'[chosen.receiver].open
                                   /\ svc'[chosen.receiver].state.session = a.session
               /\ \A x \in a.last : /\ x.session = a.session
                                    /\ \A q \in Receivers : svc'[q].open => svc'[q].state.session # a.session
    <3>1. chosen.receiver \in Receivers /\ sessions \in Nat /\ a.session \in 1 .. sessions
      BY Lengths, ServiceNumbers DEF ActiveInv
    <3>2. a.session \in 1 .. sessions' /\ a.session <= svc'[chosen.receiver].state.session
      BY <2>1, <2>2, <2>4, <3>1 DEF ActiveInv, Entered
    <3>3. a.last = None => /\ svc'[chosen.receiver].open
                           /\ svc'[chosen.receiver].state.session = a.session
      BY <2>1, <2>2, <3>1 DEF ActiveInv
    <3>4. \A x \in a.last : /\ x.session = a.session
                            /\ \A q \in Receivers : svc'[q].open => svc'[q].state.session # a.session
      BY <2>1, <2>2, <3>1 DEF ActiveInv
    <3>5. QED
      BY <3>2, <3>3, <3>4
  <2>6. ActiveInv'
    BY <2>3, <2>5 DEF ActiveInv
  <2>7. QED
    BY <2>2, <2>3, <2>6
<1>7. QED
  BY <1>1, <1>2, <1>3, <1>4, <1>5, <1>6, StepsAre

-----------------------------------------------------------------------------
\* What the window waits for is on its way.

\* A message of that kind, with an id of those, when an id is asked for.
IsOf(m, kind, id) == m.kind = kind /\ (id # None => m.id \in id)

\* Its command, its task or its event is under way for the window's selection.
CommandComes(kind, id) ==
  \E i \in 1 .. Len(commands) : IsOf(commands[i], kind, id) /\ NoSelectFrom(i)
TaskComes(kind, id) ==
  \E task \in tasks : IsOf(task, kind, id) /\ task.subscription = win.subscription
EventComes(kind, id) ==
  \E i \in 1 .. Len(events) : IsOf(events[i], kind, id) /\ Mine(i)
Comes(kind, id) == CommandComes(kind, id) \/ TaskComes(kind, id) \/ EventComes(kind, id)

\* WaitsAreAnswered, in these terms.
Waits ==
  win.closing \/ /\ win.volume # None => Comes("Control", win.volume)
                 /\ \A k \in InFlight(win) : Comes(k, None)

LEMMA WaitsForm == WaitsAreAnswered <=> Waits
<1> DEFINE Coming(kind, id) ==
             \/ \E i \in 1 .. Len(commands) :
                  /\ commands[i].kind = kind /\ (id # None => commands[i].id \in id)
                  /\ \A j \in i .. Len(commands) : commands[j].kind # "Select"
             \/ \E m \in tasks \cup {events[i] : i \in 1 .. Len(events)} :
                  /\ m.kind = kind /\ (id # None => m.id \in id)
                  /\ m.subscription = win.subscription
<1>1. \A kind, id : Coming(kind, id) <=> Comes(kind, id)
  BY DEF Comes, CommandComes, TaskComes, EventComes, IsOf, NoSelectFrom, IsSelect, Mine
<1>2. WaitsAreAnswered <=>
        \/ win.closing
        \/ /\ win.volume # None => Coming("Control", win.volume)
           /\ win.http_read_in_flight => Coming("ReadHttpInformation", None)
           /\ win.catalog_read_in_flight => Coming("ReadSourceCatalog", None)
           /\ win.names_read_in_flight => Coming("ReadQuickSelectNames", None)
  BY DEF WaitsAreAnswered
<1> HIDE DEF Coming
<1>3. /\ "ReadHttpInformation" \in InFlight(win) <=> win.http_read_in_flight
      /\ "ReadSourceCatalog" \in InFlight(win) <=> win.catalog_read_in_flight
      /\ "ReadQuickSelectNames" \in InFlight(win) <=> win.names_read_in_flight
      /\ InFlight(win) \subseteq {"ReadHttpInformation", "ReadSourceCatalog", "ReadQuickSelectNames"}
  BY DEF InFlight, ReadKinds
<1>4. (\A k \in InFlight(win) : Comes(k, None)) <=>
        /\ win.http_read_in_flight => Comes("ReadHttpInformation", None)
        /\ win.catalog_read_in_flight => Comes("ReadSourceCatalog", None)
        /\ win.names_read_in_flight => Comes("ReadQuickSelectNames", None)
  BY <1>3
<1>5. QED
  BY <1>1, <1>2, <1>4 DEF Waits

\* Commands left by a message go behind, and are on their way themselves.
LEMMA CommandsComeOn ==
  ASSUME TypeOK, NEW s, Asked(s), NEW kind, NEW id
  PROVE  /\ CommandComes(kind, id) => CommandComes(kind, id)'
         /\ \A i \in 1 .. Len(s) : IsOf(s[i], kind, id) => CommandComes(kind, id)'
<1>1. /\ Len(commands) \in Nat /\ Len(s) \in Nat /\ Len(commands') = Len(commands) + Len(s)
      /\ \A i \in 1 .. Len(commands) : commands'[i] = commands[i]
      /\ \A i \in 1 .. Len(s) : commands'[Len(commands) + i] = s[i]
      /\ \A i \in 1 .. Len(commands') : IsSelect(i)' => i \in 1 .. Len(commands) /\ IsSelect(i)
  BY AskedAfter, Lengths
<1>2. \A i \in 1 .. Len(commands) : NoSelectFrom(i) => NoSelectFrom(i)'
  BY <1>1 DEF NoSelectFrom
<1>3. \A i \in Len(commands) + 1 .. Len(commands') : NoSelectFrom(i)'
  BY <1>1 DEF NoSelectFrom
<1>4. ASSUME CommandComes(kind, id)
      PROVE  CommandComes(kind, id)'
  <2>1. PICK i \in 1 .. Len(commands) : IsOf(commands[i], kind, id) /\ NoSelectFrom(i)
    BY <1>4 DEF CommandComes
  <2>2. i \in 1 .. Len(commands') /\ IsOf(commands'[i], kind, id) /\ NoSelectFrom(i)'
    BY <1>1, <1>2, <2>1
  <2>3. QED
    BY <2>2 DEF CommandComes
<1>5. ASSUME NEW i \in 1 .. Len(s), IsOf(s[i], kind, id)
      PROVE  CommandComes(kind, id)'
  <2>1. PICK j \in Len(commands) + 1 .. Len(commands') : j = Len(commands) + i
    BY <1>1
  <2>2. j \in 1 .. Len(commands') /\ commands'[j] = s[i] /\ NoSelectFrom(j)'
    BY <1>1, <1>3, <2>1
  <2>3. QED
    BY <1>5, <2>2 DEF CommandComes
<1>6. QED
  BY <1>4, <1>5

\* The bridge took a command that is not the one.
LEMMA CommandComesTaken ==
  ASSUME TypeOK, Taken, NEW kind, NEW id, CommandComes(kind, id),
         ~(IsOf(commands[1], kind, id) /\ NoSelectFrom(1))
  PROVE  CommandComes(kind, id)'
<1>1. /\ Len(commands) \in Nat \ {0} /\ Len(commands') = Len(commands) - 1
      /\ \A i \in 1 .. Len(commands') : commands'[i] = commands[i + 1]
  BY DEF Taken
<1>2. PICK i \in 1 .. Len(commands) : IsOf(commands[i], kind, id) /\ NoSelectFrom(i)
  BY DEF CommandComes
<1>3. i # 1
  BY <1>2
<1>4. i - 1 \in 1 .. Len(commands') /\ commands'[i - 1] = commands[i]
  BY <1>1, <1>3
<1>5. NoSelectFrom(i - 1)'
  <2>1. \A j \in i - 1 .. Len(commands') : j + 1 \in i .. Len(commands) /\ commands'[j] = commands[j + 1]
    BY <1>1, <1>4
  <2>2. QED
    BY <1>2, <2>1 DEF NoSelectFrom, IsSelect
<1>6. QED
  BY <1>2, <1>4, <1>5 DEF CommandComes

LEMMA EventComesGained ==
  ASSUME TypeOK, NEW first, NEW last, NEW n, Gains(first, last, n), win' = win,
         NEW kind, NEW id
  PROVE  /\ EventComes(kind, id) => EventComes(kind, id)'
         /\ IsOf(last, kind, id) /\ last.subscription = win.subscription => EventComes(kind, id)'
<1>1. /\ Len(events) \in Nat /\ Len(events') \in Nat /\ Len(events) < Len(events')
      /\ \A i \in 1 .. Len(events) : events'[i] = events[i]
      /\ events'[Len(events')] = last
  BY Gained DEF Gains
<1>2. \A i \in 1 .. Len(events) : i \in 1 .. Len(events') /\ events'[i] = events[i]
  BY <1>1
<1>3. EventComes(kind, id) => EventComes(kind, id)'
  BY <1>2 DEF EventComes, Mine
<1>4. Len(events') \in 1 .. Len(events')
  BY <1>1
<1>5. QED
  BY <1>1, <1>3, <1>4 DEF EventComes, Mine

\* The selection is known to the bridge or in the channel to it.
HasSelection ==
  Current \/ \E i \in 1 .. Len(commands) : IsSelect(i) /\ commands[i].id = win.subscription

\* What the window takes no notice of yet goes on to it.
LEMMA ComesOn ==
  ASSUME TypeOK, Numbered, SessionsInv, HasSelection,
         \/ Selects \/ Resubscribes \/ Dispatches \/ Forwards \/ Finishes
         \/ Publishes \/ Ends \/ TakesEffect,
         NEW kind \in {"Control"} \cup ReadKinds, NEW id,
         kind \in ReadKinds => id = None, Comes(kind, id)
  PROVE  Comes(kind, id)'
<1>1. win' = win
  BY DEF Selects, Resubscribes, Dispatches, Forwards, Finishes, Publishes, Ends, TakesEffect
<1>2. kind # "Select" /\ kind # "Refresh"
  BY DEF ReadKinds
<1>3. CASE Selects
  <2>1. PICK chosen \in Chosen : Fails(chosen, 1) \/ Opens(chosen, 1)
    BY <1>3 DEF Selects
  <2>2. \E first, last : Gains(first, last, 1)
    BY <2>1, Subscribed
  <2>3. EventComes(kind, id) => EventComes(kind, id)'
    BY <1>1, <2>2, EventComesGained
  <2>4. CommandComes(kind, id) => CommandComes(kind, id)'
    BY <1>2, <1>3, CommandComesTaken DEF Selects, IsOf
  <2>5. TaskComes(kind, id) => TaskComes(kind, id)'
    BY <1>1, <1>3 DEF Selects, TaskComes
  <2>6. QED
    BY <2>3, <2>4, <2>5 DEF Comes
<1>4. CASE Resubscribes
  <2>1. PICK chosen \in selected, n \in {1, 2} : Fails(chosen, n) \/ Opens(chosen, n)
    BY <1>4 DEF Resubscribes
  <2>2. \E first, last : Gains(first, last, n)
    BY <2>1, OnlySelected, Subscribed
  <2>3. EventComes(kind, id) => EventComes(kind, id)'
    BY <1>1, <2>2, EventComesGained
  <2>4. CommandComes(kind, id) => CommandComes(kind, id)'
    <3>1. CASE UNCHANGED commands
      BY <3>1 DEF CommandComes, NoSelectFrom, IsSelect
    <3>2. CASE Taken /\ commands[1].kind = "Refresh"
      BY <1>2, <3>2, CommandComesTaken DEF IsOf
    <3>3. QED
      BY <1>4, <3>1, <3>2 DEF Resubscribes
  <2>5. TaskComes(kind, id) => TaskComes(kind, id)'
    BY <1>1, <1>4 DEF Resubscribes, TaskComes
  <2>6. QED
    BY <2>3, <2>4, <2>5 DEF Comes
<1>5. CASE Dispatches
  <2>1. Taken
    BY <1>5 DEF Dispatches
  <2>2. EventComes(kind, id) => EventComes(kind, id)'
    <3>1. CASE events' = events
      BY <1>1, <3>1 DEF EventComes, Mine
    <3>2. CASE events' # events
      <4>1. \E first, last : Gains(first, last, 1)
        BY <1>5, <3>2 DEF Dispatches
      <4>2. QED
        BY <1>1, <4>1, EventComesGained
    <3>3. QED
      BY <3>1, <3>2
  <2>3. TaskComes(kind, id) => TaskComes(kind, id)'
    BY <1>1, <1>5 DEF Dispatches, TaskComes
  <2>4. ASSUME IsOf(commands[1], kind, id), NoSelectFrom(1)
        PROVE  Comes(kind, id)'
    <3>1. Current
      BY <2>1, <2>4 DEF HasSelection, NoSelectFrom, IsSelect, Taken
    <3>2. PICK chosen \in selected : chosen.subscription = win.subscription /\ selected = {chosen}
      BY <3>1, OnlySelected DEF Current
    <3>3. ASSUME NEW task \in Tasks, task.subscription = chosen.subscription,
                 task.kind = commands[1].kind, task.kind = "Control" => task.id = commands[1].id,
                 tasks' = tasks \cup {task}
          PROVE  Comes(kind, id)'
      <4>1. IsOf(task, kind, id)
        BY <2>4, <3>3 DEF IsOf
      <4>2. QED
        BY <1>1, <3>2, <3>3, <4>1 DEF Comes, TaskComes
    <3>4. ASSUME NEW event \in ConflictEvent, event.subscription = chosen.subscription,
                 event.id = commands[1].id, commands[1].kind = "Control",
                 Gains(event, event, 1)
          PROVE  Comes(kind, id)'
      <4>1. IsOf(event, kind, id)
        BY <2>4, <3>4 DEF IsOf, ConflictEvent
      <4>2. QED
        BY <1>1, <3>2, <3>4, <4>1, EventComesGained DEF Comes
    <3>5. QED
      BY <1>5, <3>2, <3>3, <3>4 DEF Dispatches, None
  <2>5. QED
    BY <2>1, <2>2, <2>3, <2>4, CommandComesTaken DEF Comes
<1>6. CASE Forwards
  <2>1. \E first, last : Gains(first, last, 1)
    BY <1>6 DEF Forwards
  <2>2. EventComes(kind, id) => EventComes(kind, id)'
    BY <1>1, <2>1, EventComesGained
  <2>3. QED
    BY <1>1, <1>6, <2>2 DEF Comes, CommandComes, TaskComes, Forwards, NoSelectFrom, IsSelect
<1>7. CASE Finishes
  <2>1. PICK task \in tasks, event \in Events, first \in Events, n \in {1, 2} :
          /\ tasks' = tasks \ {task} /\ Answers(event, task) /\ Gains(first, event, n)
    BY <1>7 DEF Finishes
  <2>2. EventComes(kind, id) => EventComes(kind, id)'
    BY <1>1, <2>1, EventComesGained
  <2>3. CommandComes(kind, id) => CommandComes(kind, id)'
    BY <1>7 DEF CommandComes, NoSelectFrom, IsSelect, Finishes
  <2>4. TaskComes(kind, id) => TaskComes(kind, id)' \/ EventComes(kind, id)'
    <3>1. SUFFICES ASSUME IsOf(task, kind, id), task.subscription = win.subscription
                   PROVE  EventComes(kind, id)'
      BY <1>1, <2>1 DEF TaskComes
    <3>2. IsOf(event, kind, id)
      BY <2>1, <3>1 DEF IsOf, Answers, IsRead
    <3>3. QED
      BY <1>1, <2>1, <3>1, <3>2, EventComesGained DEF Answers
  <2>5. QED
    BY <2>2, <2>3, <2>4 DEF Comes
<1>8. CASE Publishes \/ Ends
  <2>1. UNCHANGED <<win, commands, tasks, events>>
    BY <1>8 DEF Publishes, Ends
  <2>2. QED
    BY <2>1 DEF Comes, CommandComes, TaskComes, EventComes, NoSelectFrom, IsSelect, Mine
<1>9. CASE TakesEffect
  <2>1. PICK task \in tasks, done \in Tasks :
          /\ task.kind = "Control" /\ IsCompleted(done)
          /\ done.subscription = task.subscription /\ done.id = task.id
          /\ tasks' = (tasks \ {task}) \cup {done}
    BY <1>9 DEF TakesEffect
  <2>2. IsOf(task, kind, id) => IsOf(done, kind, id)
    BY <2>1 DEF IsOf, IsCompleted
  <2>3. TaskComes(kind, id) => TaskComes(kind, id)'
    BY <1>1, <2>1, <2>2 DEF TaskComes
  <2>4. UNCHANGED <<win, commands, events>>
    BY <1>9 DEF TakesEffect
  <2>5. QED
    BY <2>3, <2>4 DEF Comes, CommandComes, EventComes, NoSelectFrom, IsSelect, Mine
<1>10. QED
  BY <1>3, <1>4, <1>5, <1>6, <1>7, <1>8, <1>9

\* A wait that a window step neither ends nor begins goes on.
LEMMA ComesOnInWindow ==
  ASSUME TypeOK, NEW s, Asked(s), win'.subscription = win.subscription, UNCHANGED tasks,
         NEW kind, NEW id, Comes(kind, id),
         \/ UNCHANGED events
         \/ Arrives /\ ~(Mine(1) /\ IsOf(events[1], kind, id))
  PROVE  Comes(kind, id)'
<1>1. CommandComes(kind, id) => CommandComes(kind, id)'
  BY CommandsComeOn
<1>2. TaskComes(kind, id) => TaskComes(kind, id)'
  BY DEF TaskComes
<1>3. EventComes(kind, id) => EventComes(kind, id)'
  <2>1. CASE UNCHANGED events
    BY <2>1 DEF EventComes, Mine
  <2>2. CASE Arrives /\ ~(Mine(1) /\ IsOf(events[1], kind, id))
    <3>1. SUFFICES ASSUME NEW i \in 1 .. Len(events), IsOf(events[i], kind, id), Mine(i)
                   PROVE  EventComes(kind, id)'
      BY DEF EventComes
    <3>2. /\ Len(events) \in Nat \ {0} /\ Len(events') = Len(events) - 1
          /\ \A j \in 1 .. Len(events') : events'[j] = events[j + 1]
      BY <2>2, ArrivedEvents
    <3>3. i # 1
      BY <2>2, <3>1
    <3>4. i - 1 \in 1 .. Len(events') /\ events'[i - 1] = events[i]
      BY <3>2, <3>3
    <3>5. QED
      BY <3>1, <3>4 DEF EventComes, Mine
  <2>3. QED
    BY <2>1, <2>2
<1>4. QED
  BY <1>1, <1>2, <1>3 DEF Comes

\* What the window waits for after one of its own steps.
LEMMA WaitsInWindow ==
  ASSUME TypeOK, Waits, ~win.closing, NEW s, Asked(s), NEW before,
         Awaited(s, before), before \subseteq InFlight(win), AtMostOne(win'.volume),
         win'.subscription = win.subscription, UNCHANGED tasks,
         \/ UNCHANGED events
         \/ /\ Arrives
            /\ Mine(1) /\ events[1].kind = "Control" => events[1].id \notin win'.volume
            /\ Mine(1) => events[1].kind \notin before
  PROVE  Waits'
<1>1. win'.volume # None => Comes("Control", win.volume)'
  <2>1. SUFFICES ASSUME win'.volume # None PROVE Comes("Control", win.volume)'
    OBVIOUS
  <2>2. PICK x : win'.volume = {x}
    BY <2>1 DEF AtMostOne, None
  <2>3. CASE win'.volume \subseteq win.volume
    <3>1. win.volume = {x}
      BY <2>2, <2>3 DEF TypeOK, AtMostOne
    <3>2. Comes("Control", {x}) /\ {x} # None
      BY <3>1 DEF Waits, None
    <3>3. Mine(1) /\ Arrives => ~IsOf(events[1], "Control", {x}) \/ UNCHANGED events
      BY <2>2, <3>2 DEF IsOf
    <3>4. Comes("Control", {x})'
      BY <3>2, <3>3, ComesOnInWindow
    <3>5. QED
      BY <2>2, <3>4
  <2>4. CASE \E i \in 1 .. Len(s) : s[i].kind = "Control" /\ win'.volume = {s[i].id}
    <3>1. PICK i \in 1 .. Len(s) : s[i].kind = "Control" /\ win'.volume = {s[i].id}
      BY <2>4
    <3>2. IsOf(s[i], "Control", {x})
      BY <2>2, <3>1 DEF IsOf
    <3>3. Comes("Control", {x})'
      BY <3>2, CommandsComeOn DEF Comes
    <3>4. QED
      BY <2>2, <3>3
  <2>5. QED
    BY <2>3, <2>4 DEF Awaited
<1>2. ASSUME NEW k \in InFlight(win')
      PROVE  Comes(k, None)'
  <2>1. CASE k \in before
    <3>1. Comes(k, None)
      BY <2>1 DEF Waits
    <3>2. Mine(1) /\ Arrives => ~IsOf(events[1], k, None) \/ UNCHANGED events
      BY <2>1 DEF IsOf
    <3>3. QED
      BY <3>1, <3>2, ComesOnInWindow
  <2>2. CASE Has(s, k)
    <3>1. PICK i \in 1 .. Len(s) : IsOf(s[i], k, None)
      BY <2>2 DEF Has, IsOf
    <3>2. QED
      BY <3>1, CommandsComeOn DEF Comes
  <2>3. QED
    BY <2>1, <2>2 DEF Awaited
<1>3. QED
  BY <1>1, <1>2 DEF Waits

LEMMA WaitsKept ==
  ASSUME TypeOK, Numbered, SessionsInv, Waits, Next
  PROVE  Waits'
<1>1. CASE win'.closing
  BY <1>1 DEF Waits
<1>2. CASE Quiet /\ ~win'.closing
  <2>1. PICK s : Asked(s) /\ Awaited(s, InFlight(win))
    BY <1>2 DEF Quiet
  <2>2. QED
    BY <1>2, <2>1, WaitsInWindow DEF Quiet
<1>3. CASE Reselect
  BY <1>3 DEF Reselect, Waits
<1>4. CASE Listens
  <2> DEFINE before == InFlight(win) \ {k \in ReadKinds : Mine(1) /\ k = events[1].kind}
  <2>1. Arrives /\ ~win.closing
    BY <1>4 DEF Listens
  <2>2. PICK s : Asked(s) /\ Awaited(s, before)
    BY <2>1 DEF Arrives
  <2>3. AtMostOne(win'.volume)
    BY <2>1 DEF Arrives, TypeOK, AtMostOne
  <2>4. before \subseteq InFlight(win) /\ (Mine(1) => events[1].kind \notin before)
    BY DEF InFlight
  <2> HIDE DEF before
  <2>5. QED
    BY <2>1, <2>2, <2>3, <2>4, WaitsInWindow DEF Arrives
<1>5. CASE /\ ~win'.closing
           /\ \/ Selects \/ Resubscribes \/ Dispatches \/ Forwards \/ Finishes
              \/ Publishes \/ Ends \/ TakesEffect
  <2>1. win' = win
    BY <1>5 DEF Selects, Resubscribes, Dispatches, Forwards, Finishes, Publishes, Ends, TakesEffect
  <2>2. CASE HasSelection
    <3>1. win.volume # None => Comes("Control", win.volume)'
      <4>1. SUFFICES ASSUME win.volume # None PROVE Comes("Control", win.volume)'
        OBVIOUS
      <4>2. PICK x : win.volume = {x}
        BY <4>1, OneOrNone DEF TypeOK
      <4>3. Comes("Control", {x})
        BY <1>5, <2>1, <4>2 DEF Waits, None
      <4>4. "Control" \notin ReadKinds
        BY DEF ReadKinds
      <4>5. Comes("Control", {x})'
        BY <1>5, <2>2, <4>3, <4>4, ComesOn
      <4>6. QED
        BY <2>1, <4>2, <4>5
    <3>2. ASSUME NEW k \in InFlight(win') PROVE Comes(k, None)'
      <4>1. k \in ReadKinds /\ Comes(k, None)
        BY <1>5, <2>1 DEF Waits, InFlight
      <4>2. QED
        BY <1>5, <2>2, <4>1, ComesOn
    <3>3. QED
      BY <2>1, <3>1, <3>2 DEF Waits
  <2>3. CASE ~HasSelection
    <3>1. win'.volume = None /\ InFlight(win') = {}
      BY <2>1, <2>3 DEF HasSelection, Numbered, SelectionKnown
    <3>2. QED
      BY <3>1 DEF Waits
  <2>4. QED
    BY <2>2, <2>3
<1>6. QED
  BY <1>1, <1>2, <1>3, <1>4, <1>5, StepsAre

-----------------------------------------------------------------------------
\* The window starts with nothing known and nothing waited for.

LEMMA NewWindow ==
  /\ WindowTypes(new) /\ new.out = <<>> /\ new.volume = None /\ new.selection = None
  /\ new.state = None /\ new.subscription = 0 /\ new.requests = 0 /\ new.generation = 0
  /\ new.lifecycle = "NoReceiver" /\ new.connection.session = 0 /\ new.connection.epoch = 0
  /\ InFlight(new) = {} /\ Emptied(new) /\ new.closing = FALSE
<1> DEFINE unknown == Forgotten("Unknown", 0)
<1>1. unknown \in Cache /\ unknown.from = None
  BY ForgottenIsEmpty
<1>2. /\ new.selection = None /\ new.lifecycle = "NoReceiver" /\ new.generation = 0
      /\ new.subscription = 0 /\ new.state = None /\ new.snapshot = NotQueried
      /\ new.requests = 0 /\ new.connection = Unconnected
      /\ new.information = unknown /\ new.catalog = unknown /\ new.names = unknown
  BY DEF new
<1>3. /\ new.http_read_in_flight = FALSE /\ new.http_read_again = FALSE
      /\ new.catalog_read_in_flight = FALSE /\ new.names_read_in_flight = FALSE
      /\ new.volume = None /\ new.sound_mode = None
      /\ new.loaded = FALSE /\ new.closing = FALSE /\ new.closed = FALSE /\ new.out = <<>>
  BY DEF new
<1>4. IsWindow(new)
  BY DEF new, IsWindow, WindowFields
<1>5. Unconnected \in Connection /\ Unconnected.session = 0 /\ Unconnected.epoch = 0
  BY DEF Unconnected, Connection
<1> HIDE DEF unknown
<1>6. WindowTypes(new)
  <2>1. /\ new.selection \in SUBSET Receivers /\ new.lifecycle \in Lifecycles
        /\ new.generation \in Nat /\ new.subscription \in Nat /\ new.requests \in Nat
        /\ new.state \in SUBSET State
    BY <1>2 DEF Lifecycles, None
  <2>2. /\ new.snapshot \in [Fields -> SUBSET Values] /\ new.connection \in Connection
        /\ new.information \in Cache /\ new.catalog \in Cache /\ new.names \in Cache
    BY <1>1, <1>2, <1>5, NotQueriedTyped
  <2>3. /\ new.http_read_in_flight \in BOOLEAN /\ new.http_read_again \in BOOLEAN
        /\ new.catalog_read_in_flight \in BOOLEAN /\ new.names_read_in_flight \in BOOLEAN
        /\ new.loaded \in BOOLEAN /\ new.closing \in BOOLEAN /\ new.closed \in BOOLEAN
    BY <1>3
  <2>4. new.volume \in SUBSET Nat /\ new.sound_mode \in SUBSET Nat
    BY <1>3 DEF None
  <2>5. new.out \in Seq(Command)
    BY <1>3
  <2>6. QED
    BY <1>4, <2>1, <2>2, <2>3, <2>4, <2>5 DEF WindowTypes
<1>7. InFlight(new) = {} /\ Emptied(new)
  BY <1>1, <1>2, <1>3 DEF InFlight, Emptied
<1>8. QED
  BY <1>2, <1>3, <1>5, <1>6, <1>7

LEMMA InitBasics ==
  ASSUME Init
  PROVE  TypeOK /\ Numbered /\ SessionsInv /\ Waits
<1>1. /\ win = new /\ commands = <<>> /\ events = <<>> /\ Len(commands) = 0 /\ Len(events) = 0
      /\ selected = {} /\ active = {} /\ tasks = {} /\ reported = {}
      /\ sessions = 0 /\ turns = 0
  BY DEF Init, None
<1>2. \A r \in Receivers : /\ svc[r] = NoSession
  BY DEF Init
<1>3. NoSession \in Session
  <2>1. NoSession.state \in State
    BY UsualTyped DEF NoSession, State
  <2>2. QED
    BY <2>1 DEF NoSession, Session
<1>4. TypeOK
  <2>1. svc \in [Receivers -> Session]
    BY <1>3 DEF Init
  <2>2. AtMostOne(win.volume)
    BY <1>1, NewWindow DEF AtMostOne, None
  <2>3. QED
    BY <1>1, <2>1, <2>2, NewWindow DEF TypeOK, AtMostOne
<1>5. Numbered
  BY <1>1, NewWindow DEF Numbered, Unloaded, SelectsNumbered, SelectionKnown,
                         TasksNumbered, EventsNumbered, None
<1>6. SessionsInv
  <2>1. /\ NoSession.state.session = 0 /\ NoSession.state.epoch = 0 /\ ~NoSession.open
    BY DEF NoSession
  <2>2. QED
    BY <1>1, <1>2, <2>1 DEF SessionsInv, ServiceInv, ActiveInv, None
<1>7. Waits
  BY <1>1, NewWindow DEF Waits
<1>8. QED
  BY <1>4, <1>5, <1>6, <1>7

\* The types, the numbers of the selections and the sessions, and the answers on
\* their way.
Basics == TypeOK /\ Numbered /\ SessionsInv /\ Waits

LEMMA BasicsKept ==
  ASSUME Basics, [Next]_vars
  PROVE  Basics'
<1>1. CASE Next
  BY <1>1, TypesKept, NumbersKept, SessionsKept, WaitsKept DEF Basics
<1>2. CASE UNCHANGED vars
  <2>1. /\ UNCHANGED <<win, commands, selected, active, forwarded, tasks, events>>
        /\ UNCHANGED <<svc, sessions, turns, reported>>
    BY <1>2 DEF vars
  <2>2. TypeOK' /\ Numbered'
    BY <2>1 DEF Basics, TypeOK, Numbered, Unloaded, SelectsNumbered, SelectionKnown,
                TasksNumbered, EventsNumbered, IsSelect, Current
  <2>3. SessionsInv' /\ Waits'
    BY <2>1 DEF Basics, SessionsInv, ServiceInv, ActiveInv, Waits, Comes, CommandComes,
                TaskComes, EventComes, NoSelectFrom, IsSelect, Mine
  <2>4. QED
    BY <2>2, <2>3 DEF Basics
<1>3. QED
  BY <1>1, <1>2

LEMMA BasicsHold == Spec => []Basics
<1>1. Init => Basics
  BY InitBasics DEF Basics
<1>2. QED
  BY <1>1, BasicsKept, PTL DEF Spec

\* crates/gui-lib: whatever receivers, controls and bounds there are, the window,
\* the two channels, the bridge and the tasks hold what their types say: the
\* commands of a message are in the channel when it has been handled, and the
\* bridge holds one selection and one subscription at most.
THEOREM WindowIsTyped == Spec => []TypeOK
<1>1. Basics => TypeOK
  BY DEF Basics
<1>2. QED
  BY <1>1, BasicsHold, PTL

\* bridge.rs, session.rs: selections are numbered upwards from the window through
\* the channel to the bridge, and no task or event is of a selection the bridge
\* has not taken up; a receiver's session has a number of its own, and the
\* bridge's subscription is to the one that is open or holds the last state of
\* one that is closed.
THEOREM SelectionsAndSessions == Spec => [](Numbered /\ SessionsInv)
<1>1. Basics => Numbered /\ SessionsInv
  BY DEF Basics
<1>2. QED
  BY <1>1, BasicsHold, PTL

\* controls.rs, supplemental.rs: a window that waits for a volume command or for a
\* read, and sends no other meanwhile, waits for something that is on its way to
\* it under the selection it shows.
THEOREM WaitsEnd == Spec => []WaitsAreAnswered
<1>1. Basics => WaitsAreAnswered
  BY WaitsForm DEF Basics
<1>2. QED
  BY <1>1, BasicsHold, PTL

-----------------------------------------------------------------------------
\* A control that took effect stays in the states of its session.

LEMMA EffectiveKept ==
  ASSUME TypeOK, Numbered, SessionsInv, Next, NEW id, NEW s, Effective(id, s)
  PROVE  Effective(id, s)'
<1>1. s \in 1 .. sessions /\ sessions \in Nat
  BY ServiceNumbers DEF Effective
<1>2. CASE Quiet \/ Reselect \/ Listens \/ Dispatches \/ Forwards \/ Finishes
  <2>1. UNCHANGED <<active, svc, sessions>>
    BY <1>2 DEF Quiet, Reselect, Listens, Arrives, Dispatches, Forwards, Finishes, bridge, service
  <2>2. QED
    BY <2>1 DEF Effective
<1>3. ASSUME NEW chosen \in Chosen, NEW n, Fails(chosen, n) \/ Opens(chosen, n)
      PROVE  Effective(id, s)'
  <2>1. \A a \in active' : a.last = {}
    BY <1>3, SubscribedTyped DEF None
  <2>2. CASE Fails(chosen, n)
    BY <2>1, <2>2 DEF Fails, Effective
  <2>3. CASE Opens(chosen, n)
    <3>1. PICK entry \in Session :
            /\ Entered(chosen.receiver, entry)
            /\ svc[chosen.receiver].open => entry = svc[chosen.receiver]
      BY <2>3, OpensEnter DEF SessionsInv
    <3>2. chosen.receiver \in Receivers
      BY DEF Chosen
    <3>3. /\ svc'[chosen.receiver] = entry /\ sessions <= sessions' /\ sessions' \in Nat
          /\ \A q \in Receivers \ {chosen.receiver} : svc'[q] = svc[q]
      BY <1>3, <3>1, <3>2, EnteredService, SubscribedTyped DEF SessionsInv
    <3>4. entry.state.session = s => entry = svc[chosen.receiver]
      BY <1>1, <3>1 DEF Entered
    <3>5. QED
      BY <1>1, <2>1, <3>2, <3>3, <3>4 DEF Effective
  <2>4. QED
    BY <1>3, <2>2, <2>3
<1>4. CASE Selects \/ Resubscribes
  BY <1>3, <1>4, OnlySelected DEF Selects, Resubscribes
<1>5. CASE Publishes
  <2>1. PICK r \in Receivers, entry \in Session :
           /\ Entered(r, entry) /\ sessions' = sessions
           /\ entry.state.session = svc[r].state.session
           /\ entry.state.shows = svc[r].state.shows
    BY <1>5, PublishesEnter DEF SessionsInv
  <2>2. svc'[r] = entry /\ \A q \in Receivers \ {r} : svc'[q] = svc[q]
    BY <2>1, EnteredService DEF SessionsInv
  <2>3. QED
    BY <1>5, <2>1, <2>2 DEF Effective, Publishes, bridge
<1>6. CASE Ends
  <2>1. PICK r \in Receivers, entry \in Session :
           /\ Entered(r, entry) /\ sessions' = sessions /\ entry.state = svc[r].state
           /\ \A a \in active' :
                \/ a \in active /\ a.session # svc[r].state.session
                \/ /\ a.session = svc[r].state.session /\ a.last = {svc[r].state}
                   /\ \E b \in active : a.session = b.session
    BY <1>6, EndsEnter DEF SessionsInv
  <2>2. svc'[r] = entry /\ \A q \in Receivers \ {r} : svc'[q] = svc[q]
    BY <2>1, EnteredService DEF SessionsInv
  <2>3. \A a \in active' : \A x \in a.last : x.session = s => id \in x.shows
    BY <2>1 DEF Effective
  <2>4. QED
    BY <2>1, <2>2, <2>3 DEF Effective
<1>7. CASE TakesEffect
  <2>1. PICK r \in Receivers, entry \in Session :
           /\ Entered(r, entry)
           /\ svc[r].open => /\ svc[r].state.shows \subseteq entry.state.shows
                             /\ entry.state.session = svc[r].state.session
           /\ ~svc[r].open => entry.state.session = sessions + 1
    BY <1>7, TakesEffectEnter DEF SessionsInv
  <2>2. /\ svc'[r] = entry /\ \A q \in Receivers \ {r} : svc'[q] = svc[q]
        /\ sessions' \in {sessions, sessions + 1}
    BY <2>1, EnteredService DEF SessionsInv, Entered
  <2>3. entry.state.session = s => id \in entry.state.shows
    BY <1>1, <2>1 DEF Effective
  <2>4. active' = active
    BY <1>7 DEF TakesEffect, bridge
  <2>5. QED
    BY <1>1, <2>2, <2>3, <2>4 DEF Effective
<1>8. QED
  BY <1>2, <1>4, <1>5, <1>6, <1>7, StepsAre

\* Where the reports after a step come from.
LEMMA ReportsFrom ==
  ASSUME TypeOK, Numbered, SessionsInv, Next
  PROVE  /\ \A i \in 1 .. Len(events') : IsCompleted(events'[i]) =>
              \/ \E j \in 1 .. Len(events) : events'[i] = events[j]
              \/ \E task \in tasks : /\ IsCompleted(task) /\ events'[i].id = task.id
                                     /\ events'[i].in = task.in
         /\ \A e \in reported' :
              \/ e \in reported
              \/ \E j \in 1 .. Len(events) :
                   IsCompleted(events[j]) /\ e.id = events[j].id /\ e.in = events[j].in
         /\ TakesEffect \/ \A task \in tasks' : IsCompleted(task) => task \in tasks
<1>1. CASE Quiet \/ Reselect \/ Publishes \/ Ends
  BY <1>1 DEF Quiet, Reselect, Publishes, Ends
<1>2. CASE Listens
  <2>1. Arrives
    BY <1>2 DEF Listens
  <2>2. /\ Len(events) \in Nat \ {0} /\ Len(events') = Len(events) - 1
        /\ \A i \in 1 .. Len(events') : events'[i] = events[i + 1]
    BY <2>1, ArrivedEvents
  <2>3. \A i \in 1 .. Len(events') : i + 1 \in 1 .. Len(events)
    BY <2>2
  <2>4. reported' = reported \/
          /\ IsCompleted(events[1])
          /\ reported' = reported \cup {[id |-> events[1].id, in |-> events[1].in,
                                         subscription |-> events[1].subscription]}
    BY <1>2 DEF Listens, ArrivesState, ArrivesEnd, ArrivesFailure, ArrivesRead, ArrivesOther
  <2>5. 1 \in 1 .. Len(events) /\ tasks' = tasks
    BY <2>1, <2>2 DEF Arrives
  <2>6. QED
    BY <2>2, <2>3, <2>4, <2>5
<1>3. ASSUME NEW first, NEW last, NEW n, Gains(first, last, n),
             n = 2 => ~IsCompleted(first), reported' = reported,
             TakesEffect \/ \A task \in tasks' : IsCompleted(task) => task \in tasks,
             IsCompleted(last) => \E task \in tasks : /\ IsCompleted(task) /\ last.id = task.id
                                                      /\ last.in = task.in
      PROVE  /\ \A i \in 1 .. Len(events') : IsCompleted(events'[i]) =>
                  \/ \E j \in 1 .. Len(events) : events'[i] = events[j]
                  \/ \E task \in tasks : /\ IsCompleted(task) /\ events'[i].id = task.id
                                         /\ events'[i].in = task.in
             /\ \A e \in reported' : e \in reported
             /\ TakesEffect \/ \A task \in tasks' : IsCompleted(task) => task \in tasks
  <2>1. \A i \in 1 .. Len(events') : \/ i \in 1 .. Len(events) /\ events'[i] = events[i]
                                     \/ i = Len(events') /\ events'[i] = last
                                     \/ n = 2 /\ i = Len(events) + 1 /\ events'[i] = first
    BY <1>3, Gained
  <2>2. QED
    BY <1>3, <2>1
<1>4. CASE Selects \/ Resubscribes
  <2>1. PICK chosen \in Chosen, n \in {1, 2} : Fails(chosen, n) \/ Opens(chosen, n)
    BY <1>4, OnlySelected DEF Selects, Resubscribes
  <2>2. PICK first, last : /\ Gains(first, last, n) /\ first.kind = "SessionEnded"
                           /\ last.kind \in {"State", "ConnectFailed"}
    BY <2>1, Subscribed
  <2>3. ~IsCompleted(first) /\ ~IsCompleted(last)
    BY <2>2 DEF IsCompleted
  <2>4. tasks' = tasks /\ reported' = reported
    BY <1>4 DEF Selects, Resubscribes
  <2>5. QED
    BY <1>3, <2>2, <2>3, <2>4
<1>5. CASE Dispatches
  <2>1. reported' = reported /\ \A task \in tasks' : IsCompleted(task) => task \in tasks
    BY <1>5 DEF Dispatches
  <2>2. CASE events' = events
    BY <2>1, <2>2
  <2>3. CASE Gains(Event("Failed", 0), Event("Failed", 0), 1)
    <3>1. ~IsCompleted(Event("Failed", 0))
      BY DEF Event, IsCompleted
    <3>2. QED
      BY <1>3, <2>1, <2>3, <3>1
  <2>4. ASSUME NEW event \in ConflictEvent, Gains(event, event, 1)
        PROVE  /\ \A i \in 1 .. Len(events') : IsCompleted(events'[i]) =>
                  \/ \E j \in 1 .. Len(events) : events'[i] = events[j]
                  \/ \E task \in tasks : /\ IsCompleted(task) /\ events'[i].id = task.id
                                         /\ events'[i].in = task.in
    <3>1. ~IsCompleted(event)
      BY DEF ConflictEvent, IsCompleted
    <3>2. QED
      BY <1>3, <2>1, <2>4, <3>1
  <2>5. QED
    BY <1>5, <2>1, <2>2, <2>3, <2>4 DEF Dispatches
<1>6. CASE Forwards
  <2>1. PICK chosen \in selected, x \in State :
          Gains(StateEvent(chosen, x), StateEvent(chosen, x), 1)
    BY <1>6 DEF Forwards
  <2>2. ~IsCompleted(StateEvent(chosen, x))
    BY DEF StateEvent, IsCompleted
  <2>3. tasks' = tasks /\ reported' = reported
    BY <1>6 DEF Forwards
  <2>4. QED
    BY <1>3, <2>1, <2>2, <2>3
<1>7. CASE Finishes
  <2>1. PICK task \in tasks, event \in Events, first \in Events, n \in {1, 2} :
          /\ tasks' = tasks \ {task} /\ Answers(event, task) /\ Gains(first, event, n)
          /\ n = 2 => \E chosen \in selected, x \in State : first = StateEvent(chosen, x)
    BY <1>7 DEF Finishes
  <2>2. n = 2 => ~IsCompleted(first)
    BY <2>1 DEF StateEvent, IsCompleted
  <2>3. IsCompleted(event) => IsCompleted(task) /\ event.id = task.id /\ event.in = task.in
    <3>1. task \in Tasks
      BY DEF TypeOK
    <3>2. task.kind \in {"Refresh", "Control"} \cup ReadKinds
      BY <3>1 DEF Tasks, RefreshTask, ControlTask, ReadTask
    <3>3. QED
      BY <2>1, <3>2 DEF Answers, IsCompleted, IsRead, ReadKinds
  <2>4. reported' = reported
    BY <1>7 DEF Finishes
  <2>5. QED
    BY <1>3, <2>1, <2>2, <2>3, <2>4
<1>8. CASE TakesEffect
  BY <1>8 DEF TakesEffect
<1>9. QED
  BY <1>1, <1>2, <1>4, <1>5, <1>6, <1>7, <1>8, StepsAre

LEMMA EffectsKept ==
  ASSUME TypeOK, Numbered, SessionsInv, EffectsInv, Next
  PROVE  EffectsInv'
<1>1. \A id, s : Effective(id, s) => Effective(id, s)'
  BY EffectiveKept
<1>2. \A i \in 1 .. Len(events') : IsCompleted(events'[i]) => Effective(events[i].id, events[i].in)'
  <2>1. SUFFICES ASSUME NEW i \in 1 .. Len(events'), IsCompleted(events'[i])
                 PROVE  \E id, s : /\ id = events'[i].id /\ s = events'[i].in
                                   /\ Effective(id, s)
    BY <1>1
  <2>2. QED
    BY <2>1, ReportsFrom DEF EffectsInv
<1>3. ASSUME NEW e \in reported'
      PROVE  Effective(e.id, e.in)'
  BY <1>1, ReportsFrom DEF EffectsInv
<1>4. ASSUME NEW task \in tasks', IsCompleted(task)
      PROVE  Effective(task.id, task.in)'
  <2>1. CASE task \in tasks
    BY <1>1, <1>4, <2>1 DEF EffectsInv
  <2>2. CASE task \notin tasks
    <3>1. TakesEffect
      BY <1>4, <2>2, ReportsFrom
    <3>2. PICK old \in tasks, r \in Receivers, entry \in Session, done \in Tasks :
           /\ Entered(r, entry) /\ entry.open
           /\ done.id = old.id /\ old.id \in entry.state.shows /\ done.in = entry.state.session
           /\ tasks' = (tasks \ {old}) \cup {done}
      BY <3>1, TakesEffectEnter DEF SessionsInv
    <3>3. task = done
      BY <2>2, <3>2
    <3>4. /\ ServiceInv' /\ svc'[r] = entry /\ \A q \in Receivers \ {r} : svc'[q] = svc[q]
      BY <3>2, EnteredService DEF SessionsInv
    <3>5. SessionsInv' /\ TypeOK'
      BY SessionsKept, TypesKept
    <3>6. entry.state.session \in Nat /\ sessions' \in Nat
      BY <3>5 DEF Session, State, TypeOK
    <3>7. entry.state.session \in 1 .. sessions'
      BY <3>2, <3>4, <3>6 DEF ServiceInv
    <3>8. \A q \in Receivers : svc'[q].state.session = entry.state.session => svc'[q] = entry
      BY <3>4, <3>7 DEF ServiceInv
    <3>9. \A a \in active' : \A x \in a.last : x.session # entry.state.session
      BY <3>2, <3>4, <3>5 DEF SessionsInv, ActiveInv, None
    <3>10. QED
      BY <3>2, <3>3, <3>7, <3>8, <3>9 DEF Effective
  <2>3. QED
    BY <2>1, <2>2
<1>5. QED
  BY <1>2, <1>3, <1>4 DEF EffectsInv

-----------------------------------------------------------------------------
\* What the window is told, and when.

\* What it is told after an event arrived, by the events before.
LEMMA ToldOnArrival ==
  ASSUME TypeOK, Listens
  PROVE  /\ Len(events) \in Nat \ {0} /\ Len(events') = Len(events) - 1
         /\ \A i \in 1 .. Len(events') : /\ events'[i] = events[i + 1] /\ Told(i)' = Told(i + 1)
                                         /\ Mine(i)' <=> Mine(i + 1)
                                         /\ TellsAt(i)' <=> TellsAt(i + 1)
         /\ Tells(0) /\ Tells(0)'
         /\ Told(0)' = IF TellsAt(1) THEN Told(1) ELSE Told(0)
<1>1. Arrives
  BY DEF Listens
<1>2. /\ Len(events) \in Nat \ {0} /\ Len(events') = Len(events) - 1
      /\ \A i \in 1 .. Len(events') : events'[i] = events[i + 1]
  BY <1>1, ArrivedEvents
<1>3. win'.subscription = win.subscription
  BY <1>1 DEF Arrives
<1>4. ASSUME NEW i \in 1 .. Len(events')
      PROVE  /\ Told(i)' = Told(i + 1)
             /\ Mine(i)' <=> Mine(i + 1)
             /\ TellsAt(i)' <=> TellsAt(i + 1)
  <2>1. i # 0 /\ i + 1 # 0
    BY <1>2
  <2>2. QED
    BY <1>2, <1>3, <2>1 DEF Told, Mine, TellsAt, StateAt
<1>5. win'.state = IF StateAt(1) THEN {events[1].state} ELSE IF TellsAt(1) THEN {} ELSE win.state
  BY DEF Listens, ArrivesState, ArrivesEnd, ArrivesFailure, ArrivesRead, ArrivesOther,
         SameShown, StateAt, TellsAt, IsRead, ReadKinds, None
<1>6. Told(0)' = IF TellsAt(1) THEN Told(1) ELSE Told(0)
  BY <1>5 DEF Told, TellsAt, StateAt
<1>7. QED
  BY <1>2, <1>4, <1>6 DEF Tells

\* What it is told when events are added.
LEMMA ToldOnGain ==
  ASSUME TypeOK, NEW first, NEW last, NEW n, Gains(first, last, n), win' = win
  PROVE  /\ Len(events) \in Nat /\ Len(events') \in Nat /\ Len(events) < Len(events')
         /\ \A i \in 0 .. Len(events) : /\ Told(i)' = Told(i)
                                        /\ Tells(i)' <=> Tells(i)
         /\ \A i \in 1 .. Len(events) : /\ events'[i] = events[i]
                                        /\ Mine(i)' <=> Mine(i)
                                        /\ TellsAt(i)' <=> TellsAt(i)
<1>1. /\ Len(events) \in Nat /\ Len(events') \in Nat /\ Len(events) < Len(events')
      /\ \A i \in 1 .. Len(events) : events'[i] = events[i]
  BY Gained DEF Gains
<1>2. ASSUME NEW i \in 1 .. Len(events)
      PROVE  /\ Told(i)' = Told(i)
             /\ Mine(i)' <=> Mine(i)
             /\ TellsAt(i)' <=> TellsAt(i)
  BY <1>1 DEF Told, Mine, TellsAt, StateAt
<1>3. Told(0)' = Told(0) /\ Tells(0)' /\ Tells(0)
  BY DEF Told, Tells
<1>4. \A i \in 0 .. Len(events) : i = 0 \/ i \in 1 .. Len(events)
  BY <1>1
<1>5. QED
  BY <1>1, <1>2, <1>3, <1>4 DEF Tells

\* x includes every control that took effect in its session.
Sees(x) == \A id, s : Effective(id, s) => (x.session = s => id \in x.shows)

LEMMA NewestSees ==
  ASSUME TypeOK, SessionsInv, NEW chosen \in selected, NEW x \in State, Newest(x, chosen)
  PROVE  Sees(x) /\ \E a \in active : active = {a} /\ x.session = a.session
<1>1. PICK a \in active : IF a.last = None THEN x = svc[chosen.receiver].state ELSE a.last = {x}
  BY DEF Newest
<1>2. chosen.receiver \in Receivers
  BY Lengths
<1>3. active = {a}
  BY DEF TypeOK, AtMostOne
<1>4. x.session = a.session
  BY <1>1 DEF SessionsInv, ActiveInv
<1>5. Sees(x)
  BY <1>1, <1>2 DEF Sees, Effective
<1>6. QED
  BY <1>3, <1>4, <1>5

LEMMA EntrySees ==
  ASSUME NEW r \in Receivers, NEW entry, svc'[r] = entry
  PROVE  \A id, s : Effective(id, s)' => (entry.state.session = s => id \in entry.state.shows)
BY DEF Effective

\* The last of two events, the first, or the only one: at the end nothing else tells.
LEMMA ForwardedByTelling ==
  ASSUME TypeOK, NEW first, NEW last, NEW n, Gains(first, last, n), win' = win,
         Mine(Len(events))',
         \/ last.kind = "ConnectFailed"
         \/ /\ last.kind = "State"
            /\ \E a \in active' : /\ last.state.session = a.session
                                  /\ forwarded' = {stamp(last.state)}
  PROVE  ForwardedInv'
<1>1. Len(events') \in Nat /\ Len(events') \in 0 .. Len(events') /\ Len(events') # 0
      /\ events'[Len(events')] = last
  BY Gained DEF Gains
<1>2. PICK k \in 0 .. Len(events') : k = Len(events') /\ k # 0
  BY <1>1
<1>3. Tells(k)' /\ \A i \in k + 1 .. Len(events') : ~TellsAt(i)'
  BY <1>1, <1>2 DEF Tells, TellsAt, Mine
<1>4. \A x \in Told(k)' : \E a \in active' : x.session = a.session /\ forwarded' = Some(stamp(x))
  BY <1>1, <1>2 DEF Told, StateAt, Some
<1>5. QED
  BY <1>2, <1>3, <1>4 DEF ForwardedInv

LEMMA ForwardedOn ==
  ASSUME TypeOK, ForwardedInv, NEW first, NEW last, Gains(first, last, 1), win' = win,
         ~TellsAt(Len(events))', UNCHANGED bridge
  PROVE  ForwardedInv'
<1>1. SUFFICES ASSUME Current' PROVE ForwardedInv'
  BY DEF ForwardedInv
<1>2. Current
  BY <1>1 DEF Current, bridge
<1>3. PICK k \in 0 .. Len(events) :
        /\ Tells(k) /\ \A i \in k + 1 .. Len(events) : ~TellsAt(i)
        /\ \A x \in Told(k) : \E a \in active : x.session = a.session /\ forwarded = Some(stamp(x))
  BY <1>2 DEF ForwardedInv
<1>4. /\ Len(events) \in Nat /\ Len(events') = Len(events) + 1
      /\ k \in 0 .. Len(events') /\ Told(k)' = Told(k) /\ Tells(k)'
      /\ \A i \in 1 .. Len(events) : TellsAt(i)' <=> TellsAt(i)
  <2>1. Len(events') = Len(events) + 1
    BY DEF Gains
  <2>2. QED
    BY <1>3, <2>1, ToldOnGain
<1>5. \A i \in k + 1 .. Len(events') : ~TellsAt(i)'
  <2>1. \A i \in k + 1 .. Len(events') : i \in k + 1 .. Len(events) \/ i = Len(events')
    BY <1>4
  <2>2. \A i : i = Len(events') => ~TellsAt(i)'
    BY DEF TellsAt, Mine
  <2>3. QED
    BY <1>3, <1>4, <2>1, <2>2
<1>6. QED
  BY <1>3, <1>4, <1>5 DEF ForwardedInv, bridge

LEMMA ForwardedKept ==
  ASSUME TypeOK, Numbered, SessionsInv, ForwardedInv, Next
  PROVE  ForwardedInv'
<1>1. SUFFICES ASSUME Current' PROVE ForwardedInv'
  BY DEF ForwardedInv
<1>2. CASE Quiet \/ Publishes \/ TakesEffect
  <2>1. /\ win'.state = win.state /\ win'.subscription = win.subscription
        /\ UNCHANGED <<events, bridge>>
    BY <1>2 DEF Quiet, Publishes, TakesEffect
  <2>2. QED
    BY <2>1 DEF ForwardedInv, Current, Tells, TellsAt, Told, StateAt, Mine, bridge
<1>3. CASE Reselect
  <2>1. \A chosen \in selected : chosen.subscription <= win.requests /\ win.requests \in Nat
    BY Lengths DEF Numbered
  <2>2. ~Current'
    BY <1>3, <2>1, Lengths DEF Reselect, Current, bridge
  <2>3. QED
    BY <1>1, <2>2
<1>4. CASE Listens
  <2>1. /\ Len(events) \in Nat \ {0} /\ Len(events') = Len(events) - 1
        /\ \A i \in 1 .. Len(events') : /\ Told(i)' = Told(i + 1)
                                        /\ TellsAt(i)' <=> TellsAt(i + 1)
        /\ Tells(0)'
        /\ Told(0)' = IF TellsAt(1) THEN Told(1) ELSE Told(0)
    BY <1>4, ToldOnArrival
  <2>2. UNCHANGED bridge /\ win'.subscription = win.subscription
    BY <1>4 DEF Listens, Arrives
  <2>3. PICK k \in 0 .. Len(events) :
          /\ Tells(k) /\ \A i \in k + 1 .. Len(events) : ~TellsAt(i)
          /\ \A x \in Told(k) : \E a \in active : x.session = a.session /\ forwarded = Some(stamp(x))
    BY <1>1, <2>2 DEF ForwardedInv, Current, bridge
  <2>4. CASE k \in {0, 1}
    <3>1. Told(0)' = Told(k)
      BY <2>1, <2>3, <2>4 DEF Tells
    <3>2. \A i \in 1 .. Len(events') : ~TellsAt(i)'
      BY <2>1, <2>3, <2>4
    <3>3. 0 \in 0 .. Len(events') /\ 0 + 1 = 1
      BY <2>1
    <3>4. QED
      BY <2>1, <2>2, <2>3, <3>1, <3>2, <3>3 DEF ForwardedInv, bridge
  <2>5. CASE k > 1
    <3>1. PICK j \in 1 .. Len(events') : j = k - 1 /\ j + 1 = k
      BY <2>1, <2>3, <2>5
    <3>2. Told(j)' = Told(k) /\ Tells(j)'
      BY <2>1, <2>3, <2>5, <3>1 DEF Tells
    <3>3. \A i \in j + 1 .. Len(events') : ~TellsAt(i)'
      BY <2>1, <2>3, <3>1
    <3>4. j \in 0 .. Len(events')
      BY <2>1
    <3>5. QED
      BY <2>2, <2>3, <3>2, <3>3, <3>4 DEF ForwardedInv, bridge
  <2>6. QED
    BY <2>3, <2>4, <2>5
<1>5. CASE Selects \/ Resubscribes
  <2>1. PICK chosen \in Chosen, n \in {1, 2} : /\ Fails(chosen, n) \/ Opens(chosen, n)
                                               /\ selected' = {chosen}
    BY <1>5, OnlySelected DEF Selects, Resubscribes
  <2>2. chosen.subscription = win'.subscription /\ win' = win
    BY <1>1, <1>5, <2>1 DEF Current, Selects, Resubscribes
  <2>3. chosen.subscription \in Nat /\ Event("SessionEnded", chosen.subscription).kind = "SessionEnded"
    BY PlainTyped DEF Chosen
  <2>4. CASE Fails(chosen, n)
    <3>1. PICK first, last : Gains(first, last, n) /\ last = Event("ConnectFailed", chosen.subscription)
      BY <2>4 DEF Fails
    <3>2. last.kind = "ConnectFailed" /\ last.subscription = chosen.subscription
      BY <2>3, <3>1, PlainTyped
    <3>3. Mine(Len(events))'
      BY <2>2, <3>1, <3>2 DEF Mine, Gains
    <3>4. QED
      BY <2>2, <3>1, <3>2, <3>3, ForwardedByTelling
  <2>5. CASE Opens(chosen, n)
    <3>1. PICK entry \in Session :
            /\ \E first : Gains(first, StateEvent(chosen, entry.state), n)
            /\ active' = {[session |-> entry.state.session, last |-> None]}
            /\ forwarded' = {stamp(entry.state)}
      BY <2>5 DEF Opens
    <3> DEFINE last == StateEvent(chosen, entry.state)
    <3>2. last.kind = "State" /\ last.subscription = chosen.subscription /\ last.state = entry.state
      BY <3>1, StateTyped DEF Session
    <3>3. Mine(Len(events))'
      BY <2>2, <3>1, <3>2 DEF Mine, Gains
    <3>4. \E a \in active' : last.state.session = a.session /\ forwarded' = {stamp(last.state)}
      BY <3>1, <3>2
    <3>5. QED
      BY <2>2, <3>1, <3>2, <3>3, <3>4, ForwardedByTelling
  <2>6. QED
    BY <2>1, <2>4, <2>5
<1>6. CASE Dispatches
  <2>1. win' = win /\ UNCHANGED bridge
    BY <1>6 DEF Dispatches
  <2>2. CASE events' = events
    BY <2>1, <2>2 DEF ForwardedInv, Current, Tells, TellsAt, Told, StateAt, Mine, bridge
  <2>3. ASSUME NEW event, Gains(event, event, 1), event.kind \in {"Failed", "Control"}
        PROVE  ForwardedInv'
    <3>1. ~TellsAt(Len(events))'
      BY <2>3 DEF TellsAt, Gains
    <3>2. QED
      BY <2>1, <2>3, <3>1, ForwardedOn
  <2>4. \/ events' = events
        \/ \E event : Gains(event, event, 1) /\ event.kind \in {"Failed", "Control"}
    BY <1>6, PlainTyped DEF Dispatches, ConflictEvent
  <2>5. QED
    BY <2>2, <2>3, <2>4
<1>7. CASE Forwards
  <2>1. PICK chosen \in selected, x \in State :
          /\ Newest(x, chosen) /\ forwarded' = {stamp(x)}
          /\ Gains(StateEvent(chosen, x), StateEvent(chosen, x), 1)
    BY <1>7 DEF Forwards
  <2>2. UNCHANGED <<win, selected, active>>
    BY <1>7 DEF Forwards
  <2>3. chosen.subscription = win'.subscription /\ chosen \in Chosen
    BY <1>1, <2>2, OnlySelected DEF Current
  <2>4. PICK last : /\ Gains(last, last, 1) /\ last.kind = "State" /\ last.state = x
                    /\ last.subscription = chosen.subscription
    BY <2>1, <2>3, StateTyped
  <2>5. Mine(Len(events))'
    BY <2>3, <2>4 DEF Mine, Gains
  <2>6. \E a \in active' : last.state.session = a.session /\ forwarded' = {stamp(last.state)}
    BY <2>1, <2>2, <2>4, NewestSees
  <2>7. QED
    BY <2>2, <2>4, <2>5, <2>6, ForwardedByTelling
<1>8. CASE Finishes
  <2>1. PICK task \in tasks, event \in Events, first \in Events, n \in {1, 2} :
          /\ Answers(event, task) /\ Gains(first, event, n)
          /\ n = 2 => \E chosen \in selected, x \in State :
                        /\ Newest(x, chosen) /\ forwarded' = {stamp(x)}
                        /\ first = StateEvent(chosen, x)
          /\ n # 2 => forwarded' = forwarded
    BY <1>8 DEF Finishes
  <2>2. UNCHANGED <<win, selected, active>>
    BY <1>8 DEF Finishes
  <2>3. event.kind \notin {"State", "ConnectFailed", "SessionEnded"}
    <3>1. task \in Tasks
      BY DEF TypeOK
    <3>2. task.kind \in {"Refresh", "Control"} \cup ReadKinds
      BY <3>1 DEF Tasks, RefreshTask, ControlTask, ReadTask
    <3>3. QED
      BY <2>1, <3>2 DEF Answers, IsRead, ReadKinds
  <2>4. ~TellsAt(Len(events))'
    BY <2>1, <2>3 DEF TellsAt, Gains
  <2>5. CASE n = 1
    BY <2>1, <2>2, <2>4, <2>5, ForwardedOn DEF bridge
  <2>6. CASE n = 2
    <3>1. PICK chosen \in selected, x \in State :
                        /\ Newest(x, chosen) /\ forwarded' = {stamp(x)}
                        /\ first = StateEvent(chosen, x)
      BY <2>1, <2>6
    <3>2. chosen.subscription = win'.subscription /\ chosen \in Chosen
      BY <1>1, <2>2, OnlySelected DEF Current
    <3>3. first.kind = "State" /\ first.state = x /\ first.subscription = win'.subscription
      BY <3>1, <3>2, StateTyped
    <3>4. /\ Len(events) \in Nat /\ Len(events') = Len(events) + 2
          /\ events'[Len(events) + 1] = first
      BY <2>1, <2>6 DEF Gains, TypeOK
    <3>5. PICK k \in 0 .. Len(events') : k = Len(events) + 1 /\ k # 0
      BY <3>4
    <3>6. Tells(k)' /\ Told(k)' = {x}
      BY <3>3, <3>4, <3>5 DEF Tells, TellsAt, Told, StateAt, Mine
    <3>7. \A i \in k + 1 .. Len(events') : ~TellsAt(i)'
      <4>1. \A i \in k + 1 .. Len(events') : i = Len(events')
        BY <3>4, <3>5
      <4>2. \A i : i = Len(events') => ~TellsAt(i)'
        BY <2>4 DEF TellsAt, Mine
      <4>3. QED
        BY <4>1, <4>2
    <3>8. \E a \in active' : x.session = a.session /\ forwarded' = Some(stamp(x))
      BY <2>2, <3>1, NewestSees DEF Some
    <3>9. QED
      BY <3>5, <3>6, <3>7, <3>8 DEF ForwardedInv
  <2>7. QED
    BY <2>5, <2>6
<1>9. CASE Ends
  <2>1. UNCHANGED <<win, events, selected, forwarded>>
    BY <1>9 DEF Ends
  <2>2. \A a \in active : \E b \in active' : b.session = a.session
    <3>1. \A b \in active' : \E a \in active : a.session = b.session
      BY <1>9 DEF Ends
    <3>2. active # {} => active' # {}
      BY <1>9 DEF Ends, None
    <3>3. QED
      BY <3>1, <3>2 DEF TypeOK, AtMostOne
  <2>3. QED
    BY <2>1, <2>2 DEF ForwardedInv, Current, Tells, TellsAt, Told, StateAt, Mine
<1>10. QED
  BY <1>2, <1>3, <1>4, <1>5, <1>6, <1>7, <1>8, <1>9, StepsAre

\* Telling e from k on: every state told then includes it.
IncludedFrom(k, e) ==
  /\ Tells(k)
  /\ \A i \in k .. Len(events) : Tells(i) => \A x \in Told(i) : Includes(x, e)

LEMMA ReportsForm ==
  ReportsInv <=>
    /\ \A j \in 1 .. Len(events) : IsCompleted(events[j]) /\ Mine(j) =>
         \E k \in 0 .. j - 1 : IncludedFrom(k, events[j])
    /\ \A e \in reported : e.subscription = win.subscription => IncludedFrom(0, e)
BY DEF ReportsInv, IncludedFrom, Tells

\* Events that are added tell what includes every control that took effect.
LEMMA ReportsOnGain ==
  ASSUME TypeOK, ReportsInv, EffectsInv', NEW first, NEW last, NEW n, Gains(first, last, n),
         win' = win, reported' = reported,
         n = 2 => /\ ~IsCompleted(first)
                  /\ first.kind = "State" => Sees(first.state)',
         last.kind = "State" => Sees(last.state)',
         IsCompleted(last) /\ last.subscription = win.subscription =>
           \E k \in 0 .. Len(events') - 1 : IncludedFrom(k, last)'
  PROVE  ReportsInv'
<1>1. /\ Len(events) \in Nat /\ Len(events') \in Nat /\ Len(events) < Len(events')
      /\ \A i \in 0 .. Len(events) : /\ Told(i)' = Told(i)
                                     /\ Tells(i)' <=> Tells(i)
      /\ \A i \in 1 .. Len(events) : /\ events'[i] = events[i]
                                     /\ Mine(i)' <=> Mine(i)
  BY ToldOnGain
<1>2. \A i \in 1 .. Len(events') : \/ i \in 1 .. Len(events) /\ events'[i] = events[i]
                                   \/ i = Len(events') /\ events'[i] = last
                                   \/ n = 2 /\ i = Len(events) + 1 /\ events'[i] = first
  BY Gained
<1>3. \A i \in Len(events) + 1 .. Len(events') : \A x \in Told(i)' : Sees(x)'
  BY <1>1, <1>2 DEF Told, StateAt
<1>4. ASSUME NEW id, NEW s, Effective(id, s)', NEW e, e.id = id, e.in = s,
             NEW k \in 0 .. Len(events), IncludedFrom(k, e)
      PROVE  IncludedFrom(k, e)'
  <2>1. ASSUME NEW i \in k .. Len(events'), Tells(i)', NEW x \in Told(i)'
        PROVE  Includes(x, e)
    <3>1. CASE i \in k .. Len(events)
      BY <1>1, <1>4, <2>1, <3>1 DEF IncludedFrom
    <3>2. CASE i \in Len(events) + 1 .. Len(events')
      BY <1>3, <1>4, <2>1, <3>2 DEF Sees, Includes
    <3>3. QED
      BY <1>1, <3>1, <3>2
  <2>2. QED
    BY <1>1, <1>4, <2>1 DEF IncludedFrom
<1>5. ASSUME NEW j \in 1 .. Len(events'), IsCompleted(events'[j]), Mine(j)'
      PROVE  \E k \in 0 .. j - 1 : IncludedFrom(k, events[j])'
  <2>1. CASE j \in 1 .. Len(events)
    <3>1. PICK e : e = events'[j] /\ e = events[j]
      BY <1>1, <2>1
    <3>2. PICK k \in 0 .. j - 1 : IncludedFrom(k, e)
      BY <1>1, <1>5, <2>1, <3>1, ReportsForm
    <3>3. Effective(e.id, e.in)'
      BY <1>5, <3>1 DEF EffectsInv
    <3>4. IncludedFrom(k, e)'
      BY <1>1, <1>4, <2>1, <3>2, <3>3
    <3>5. QED
      BY <3>1, <3>4 DEF IncludedFrom
  <2>2. CASE j = Len(events') /\ events'[j] = last
    <3>1. PICK k \in 0 .. Len(events') - 1 : IncludedFrom(k, last)'
      BY <1>5, <2>2 DEF Mine
    <3>2. QED
      BY <2>2, <3>1 DEF IncludedFrom
  <2>3. CASE n = 2 /\ events'[j] = first
    BY <1>5, <2>3
  <2>4. QED
    BY <1>2, <2>1, <2>2, <2>3
<1>6. ASSUME NEW e \in reported', e.subscription = win'.subscription
      PROVE  IncludedFrom(0, e)'
  <2>1. IncludedFrom(0, e) /\ Effective(e.id, e.in)'
    BY <1>6, ReportsForm DEF EffectsInv
  <2>2. QED
    BY <1>1, <1>4, <2>1
<1>7. ReportsInv' <=>
        /\ \A j \in 1 .. Len(events') : IsCompleted(events'[j]) /\ Mine(j)' =>
             \E k \in 0 .. j - 1 : IncludedFrom(k, events[j])'
        /\ \A e \in reported' : e.subscription = win'.subscription => IncludedFrom(0, e)'
  BY DEF ReportsInv, IncludedFrom, Tells
<1>8. QED
  BY <1>5, <1>6, <1>7

LEMMA ReportsKept ==
  ASSUME TypeOK, Numbered, SessionsInv, EffectsInv, ForwardedInv, ReportsInv, Next
  PROVE  ReportsInv'
<1>1. TypeOK' /\ SessionsInv' /\ EffectsInv' /\ ForwardedInv'
  BY TypesKept, SessionsKept, EffectsKept, ForwardedKept
<1>2. CASE Quiet \/ Publishes \/ TakesEffect \/ Ends
  <2>1. /\ win'.state = win.state /\ win'.subscription = win.subscription
        /\ UNCHANGED <<events, reported>>
    BY <1>2 DEF Quiet, Publishes, TakesEffect, Ends
  <2>2. QED
    BY <2>1 DEF ReportsInv, Tells, TellsAt, Told, StateAt, Mine, Includes
<1>3. CASE Reselect
  <2>1. /\ events' = events /\ reported' = reported
        /\ win'.subscription = win.requests + 1 /\ win.requests \in Nat
    BY <1>3, Lengths DEF Reselect
  <2>2. \A i \in 1 .. Len(events) : events[i].subscription <= win.requests
    <3>1. SUFFICES ASSUME NEW i \in 1 .. Len(events) PROVE events[i].subscription <= win.requests
      OBVIOUS
    <3>2. CASE events[i].subscription = 0
      BY <2>1, <3>2
    <3>3. CASE \E chosen \in selected : events[i].subscription \in 1 .. chosen.subscription
      BY <3>3, Lengths DEF Numbered
    <3>4. QED
      BY <3>2, <3>3 DEF Numbered, EventsNumbered
  <2>3. \A i \in 1 .. Len(events') : ~Mine(i)'
    BY <2>1, <2>2, Lengths DEF Mine
  <2>4. \A e \in reported' : e.subscription # win'.subscription
    BY <2>1, Lengths DEF Numbered, TypeOK, Report
  <2>5. QED
    BY <2>3, <2>4 DEF ReportsInv
<1>4. CASE Listens
  <2>1. /\ Len(events) \in Nat \ {0} /\ Len(events') = Len(events) - 1
        /\ \A i \in 1 .. Len(events') : /\ events'[i] = events[i + 1] /\ Told(i)' = Told(i + 1)
                                        /\ Mine(i)' <=> Mine(i + 1)
                                        /\ TellsAt(i)' <=> TellsAt(i + 1)
        /\ Tells(0) /\ Tells(0)'
        /\ Told(0)' = IF TellsAt(1) THEN Told(1) ELSE Told(0)
    BY <1>4, ToldOnArrival
  <2>2. ASSUME NEW e, NEW k \in {0, 1}, IncludedFrom(k, e)
        PROVE  IncludedFrom(0, e)'
    <3>1. ASSUME NEW i \in 0 .. Len(events'), Tells(i)', NEW x \in Told(i)'
          PROVE  Includes(x, e)
      <4>1. CASE i = 0
        <5>1. 1 \in k .. Len(events) /\ (~TellsAt(1) => k = 0) /\ k \in k .. Len(events)
          BY <2>1, <2>2 DEF IncludedFrom, Tells
        <5>2. QED
          BY <2>1, <2>2, <3>1, <4>1, <5>1 DEF IncludedFrom, Tells
      <4>2. CASE i # 0
        <5>1. i \in 1 .. Len(events') /\ i + 1 \in k .. Len(events) /\ i + 1 # 0
          BY <2>1, <2>2, <4>2
        <5>2. QED
          BY <2>1, <2>2, <3>1, <4>2, <5>1 DEF IncludedFrom, Tells
      <4>3. QED
        BY <4>1, <4>2
    <3>2. QED
      BY <2>1, <3>1 DEF IncludedFrom
  <2>3. ASSUME NEW e, NEW k \in 2 .. Len(events), NEW l \in 1 .. Len(events'), k = l + 1,
               IncludedFrom(k, e)
        PROVE  IncludedFrom(l, e)'
    <3>1. ASSUME NEW i \in l .. Len(events'), Tells(i)', NEW x \in Told(i)'
          PROVE  Includes(x, e)
      <4>1. i \in 1 .. Len(events') /\ i + 1 \in k .. Len(events) /\ i + 1 # 0 /\ i # 0
        BY <2>1, <2>3
      <4>2. QED
        BY <2>1, <2>3, <3>1, <4>1 DEF IncludedFrom, Tells
    <3>2. Tells(l)'
      BY <2>1, <2>3 DEF IncludedFrom, Tells
    <3>3. QED
      BY <3>1, <3>2 DEF IncludedFrom
  <2>4. ASSUME NEW j \in 1 .. Len(events'), IsCompleted(events'[j]), Mine(j)'
        PROVE  \E k \in 0 .. j - 1 : IncludedFrom(k, events[j])'
    <3>1. PICK e : e = events'[j] /\ e = events[j + 1]
      BY <2>1
    <3>2. j + 1 \in 1 .. Len(events) /\ IsCompleted(events[j + 1]) /\ Mine(j + 1)
      BY <2>1, <2>4
    <3>3. PICK k \in 0 .. j : IncludedFrom(k, e)
      BY <3>1, <3>2, ReportsForm
    <3>4. \E l \in 0 .. j - 1 : IncludedFrom(l, e)'
      <4>1. CASE k \in {0, 1}
        BY <2>2, <3>3, <4>1
      <4>2. CASE k > 1
        <5>1. PICK l \in 1 .. Len(events') : k = l + 1 /\ k \in 2 .. Len(events) /\ l \in 0 .. j - 1
          BY <2>1, <3>2, <4>2
        <5>2. QED
          BY <2>3, <3>3, <5>1
      <4>3. QED
        BY <4>1, <4>2
    <3>5. QED
      BY <3>1, <3>4 DEF IncludedFrom
  <2>5. ASSUME NEW e \in reported', e.subscription = win'.subscription
        PROVE  IncludedFrom(0, e)'
    <3>1. win'.subscription = win.subscription
      BY <1>4 DEF Listens, Arrives
    <3>2. CASE e \in reported
      BY <2>2, <2>5, <3>1, <3>2, ReportsForm
    <3>3. CASE e \notin reported
      <4>1. /\ Mine(1) /\ IsCompleted(events[1]) /\ e.id = events[1].id /\ e.in = events[1].in
        BY <1>4, <2>5, <3>3 DEF Listens, ArrivesState, ArrivesEnd, ArrivesFailure,
           ArrivesRead, ArrivesOther
      <4>2. 1 \in 1 .. Len(events) /\ \A k \in 0 .. 1 - 1 : k = 0
        BY <2>1
      <4>3. IncludedFrom(0, events[1])
        BY <4>1, <4>2, ReportsForm
      <4>4. IncludedFrom(0, e)
        BY <4>1, <4>3 DEF IncludedFrom, Includes
      <4>5. QED
        BY <2>2, <4>4
    <3>4. QED
      BY <3>2, <3>3
  <2>6. ReportsInv' <=>
          /\ \A j \in 1 .. Len(events') : IsCompleted(events'[j]) /\ Mine(j)' =>
               \E k \in 0 .. j - 1 : IncludedFrom(k, events[j])'
          /\ \A e \in reported' : e.subscription = win'.subscription => IncludedFrom(0, e)'
    BY DEF ReportsInv, IncludedFrom, Tells
  <2>7. QED
    BY <2>4, <2>5, <2>6
<1>5. CASE Selects \/ Resubscribes
  <2>1. PICK chosen \in Chosen, n \in {1, 2} : Fails(chosen, n) \/ Opens(chosen, n)
    BY <1>5, OnlySelected DEF Selects, Resubscribes
  <2>2. win' = win /\ reported' = reported
    BY <1>5 DEF Selects, Resubscribes
  <2>3. PICK end : end = Event("SessionEnded", chosen.subscription)
    OBVIOUS
  <2>4. end.kind = "SessionEnded" /\ ~IsCompleted(end)
    BY <2>3 DEF Event, IsCompleted
  <2>5. CASE Fails(chosen, n)
    <3>1. PICK last : Gains(end, last, n) /\ last = Event("ConnectFailed", chosen.subscription)
      BY <2>3, <2>5 DEF Fails
    <3>2. last.kind = "ConnectFailed" /\ ~IsCompleted(last)
      BY <3>1 DEF Event, IsCompleted
    <3>3. QED
      BY <1>1, <2>2, <2>4, <3>1, <3>2, ReportsOnGain
  <2>6. CASE Opens(chosen, n)
    <3>1. PICK entry \in Session :
            /\ Entered(chosen.receiver, entry)
            /\ Gains(end, StateEvent(chosen, entry.state), n)
      BY <2>3, <2>6, OpensEnter DEF SessionsInv
    <3>2. PICK last : last = StateEvent(chosen, entry.state)
      OBVIOUS
    <3>3. last.kind = "State" /\ last.state = entry.state /\ ~IsCompleted(last)
      BY <3>2 DEF StateEvent, IsCompleted
    <3>4. svc'[chosen.receiver] = entry /\ chosen.receiver \in Receivers
      BY <3>1, EnteredService DEF SessionsInv, Chosen
    <3>5. Sees(last.state)'
      BY <3>3, <3>4, EntrySees DEF Sees
    <3>6. QED
      BY <1>1, <2>2, <2>4, <3>1, <3>2, <3>3, <3>5, ReportsOnGain
  <2>7. QED
    BY <2>1, <2>5, <2>6
<1>6. CASE Dispatches
  <2>1. win' = win /\ reported' = reported
    BY <1>6 DEF Dispatches
  <2>2. CASE events' = events
    BY <2>1, <2>2 DEF ReportsInv, Tells, TellsAt, Told, StateAt, Mine, Includes
  <2>3. \/ events' = events
        \/ \E event : /\ Gains(event, event, 1) /\ event.kind # "State"
                      /\ ~IsCompleted(event)
    BY <1>6, PlainTyped DEF Dispatches, ConflictEvent, IsCompleted
  <2>4. QED
    BY <1>1, <2>1, <2>2, <2>3, ReportsOnGain
<1>7. CASE Forwards
  <2>1. PICK chosen \in selected, x \in State :
          /\ Newest(x, chosen) /\ Gains(StateEvent(chosen, x), StateEvent(chosen, x), 1)
    BY <1>7 DEF Forwards
  <2>2. UNCHANGED <<win, selected, active, svc, sessions, reported>>
    BY <1>7 DEF Forwards
  <2>3. PICK last : last = StateEvent(chosen, x)
    OBVIOUS
  <2>4. last.kind = "State" /\ last.state = x /\ ~IsCompleted(last)
    BY <2>3 DEF StateEvent, IsCompleted
  <2>5. Sees(last.state)'
    BY <2>1, <2>2, <2>4, NewestSees DEF Sees, Effective
  <2>6. QED
    BY <1>1, <2>1, <2>2, <2>3, <2>4, <2>5, ReportsOnGain
<1>8. CASE Finishes
  <2>1. PICK task \in tasks, event \in Events, first \in Events, n \in {1, 2} :
          /\ Answers(event, task) /\ Gains(first, event, n)
          /\ IF n = 2
             THEN \E chosen \in selected, x \in State :
                    /\ Newest(x, chosen) /\ forwarded' = {stamp(x)}
                    /\ first = StateEvent(chosen, x)
             ELSE /\ forwarded' = forwarded
                  /\ \A chosen \in selected, x \in State : Newest(x, chosen) => forwarded = {stamp(x)}
    BY <1>8 DEF Finishes
  <2>2. UNCHANGED <<win, selected, active, svc, sessions, reported>>
    BY <1>8 DEF Finishes
  <2>3. event.kind \notin {"State", "ConnectFailed", "SessionEnded"}
    <3>1. task \in Tasks
      BY DEF TypeOK
    <3>2. task.kind \in {"Refresh", "Control"} \cup ReadKinds
      BY <3>1 DEF Tasks, RefreshTask, ControlTask, ReadTask
    <3>3. QED
      BY <2>1, <3>2 DEF Answers, IsRead, ReadKinds
  <2>4. n = 2 => first.kind = "State" /\ ~IsCompleted(first) /\ Sees(first.state)'
    <3>1. SUFFICES ASSUME NEW chosen \in selected, NEW x \in State,
                          Newest(x, chosen), first = StateEvent(chosen, x)
                   PROVE  first.kind = "State" /\ ~IsCompleted(first) /\ Sees(first.state)'
      BY <2>1
    <3>2. first.kind = "State" /\ ~IsCompleted(first) /\ first.state = x
      BY <3>1 DEF StateEvent, IsCompleted
    <3>3. QED
      BY <2>2, <3>1, <3>2, NewestSees DEF Sees, Effective
  <2>5. ASSUME IsCompleted(event), event.subscription = win.subscription
        PROVE  \E k \in 0 .. Len(events') - 1 : IncludedFrom(k, event)'
    <3>1. IsCompleted(task) /\ event.id = task.id /\ event.in = task.in
          /\ event.subscription = task.subscription
      <4>1. task \in Tasks
        BY DEF TypeOK
      <4>2. task.kind \in {"Refresh", "Control"} \cup ReadKinds
        BY <4>1 DEF Tasks, RefreshTask, ControlTask, ReadTask
      <4>3. QED
        BY <2>1, <2>5, <4>2 DEF Answers, IsCompleted, IsRead, ReadKinds
    <3>2. Effective(event.id, event.in)'
      BY <2>2, <3>1 DEF EffectsInv, Effective
    <3>3. Current' /\ Current
      <4>1. PICK chosen \in selected : task.subscription \in 1 .. chosen.subscription
        BY DEF Numbered, TasksNumbered
      <4>2. chosen.subscription \in 1 .. win.subscription
        BY DEF Numbered
      <4>3. chosen.subscription = win.subscription
        BY <2>5, <3>1, <4>1, <4>2, Lengths
      <4>4. QED
        BY <2>2, <4>3 DEF Current
    <3>4. PICK k \in 0 .. Len(events') :
            /\ Tells(k)' /\ \A i \in k + 1 .. Len(events') : ~TellsAt(i)'
            /\ \A x \in Told(k)' : \E a \in active' : x.session = a.session /\ forwarded' = Some(stamp(x))
      BY <1>1, <3>3 DEF ForwardedInv
    <3>5. Len(events') \in Nat /\ Len(events') # 0 /\ events'[Len(events')] = event
      BY <2>1, Gained DEF Gains
    <3>6. k # Len(events')
      BY <2>3, <3>4, <3>5 DEF Tells, TellsAt
    <3>7. ASSUME NEW x \in Told(k)'
          PROVE  Includes(x, event)
      <4>1. PICK a \in active : x.session = a.session /\ forwarded' = {stamp(x)}
        BY <2>2, <3>4, <3>7 DEF Some
      <4>2. active # None
        BY <4>1 DEF None
      <4>3. The(selected) \in selected /\ latest \in State /\ Newest(latest, The(selected))
        BY <4>2, LatestIsNewest
      <4>4. forwarded' = {stamp(latest)}
        <5>1. CASE n = 2
          <6>1. PICK chosen \in selected, y \in State :
                  Newest(y, chosen) /\ forwarded' = {stamp(y)}
            BY <2>1, <5>1
          <6>2. y = latest
            BY <4>2, <6>1, LatestIsNewest
          <6>3. QED
            BY <6>1, <6>2
        <5>2. CASE n # 2
          BY <2>1, <4>3, <5>2
        <5>3. QED
          BY <5>1, <5>2
      <4>5. stamp(x) = stamp(latest)
        BY <4>1, <4>4
      <4>6. x.shows = latest.shows
        BY <4>5 DEF stamp
      <4>7. Sees(latest) /\ latest.session = x.session
        BY <4>1, <4>3, NewestSees
      <4>8. Effective(event.id, event.in)
        BY <3>1 DEF EffectsInv
      <4>9. QED
        BY <4>6, <4>7, <4>8 DEF Sees, Includes
    <3>8. k \in 0 .. Len(events') - 1
      BY <3>4, <3>5, <3>6
    <3>9. \A i \in k .. Len(events') : i = k \/ i \in k + 1 .. Len(events')
      BY <3>5, <3>8
    <3>10. IncludedFrom(k, event)'
      <4>1. \A i \in k + 1 .. Len(events') : i # 0
        BY <3>8
      <4>2. QED
        BY <3>4, <3>7, <3>9, <4>1 DEF IncludedFrom, Tells
    <3>11. QED
      BY <3>8, <3>10
  <2>6. QED
    BY <1>1, <2>1, <2>2, <2>3, <2>4, <2>5, ReportsOnGain
<1>9. QED
  BY <1>2, <1>3, <1>4, <1>5, <1>6, <1>7, <1>8, StepsAre

-----------------------------------------------------------------------------
\* The invariant behind the reports.

LEMMA InitReports ==
  ASSUME Init
  PROVE  EffectsInv /\ ForwardedInv /\ ReportsInv
<1>1. /\ events = <<>> /\ Len(events) = 0
      /\ selected = {} /\ tasks = {} /\ reported = {}
  BY DEF Init, None
<1>2. QED
  BY <1>1 DEF EffectsInv, ForwardedInv, Current, ReportsInv

\* What was told, and what the bridge knows of it.
Reporting == Basics /\ EffectsInv /\ ForwardedInv /\ ReportsInv

LEMMA ReportingKept ==
  ASSUME Reporting, [Next]_vars
  PROVE  Reporting'
<1>1. Basics'
  BY BasicsKept DEF Reporting
<1>2. CASE Next
  BY <1>1, <1>2, EffectsKept, ForwardedKept, ReportsKept DEF Reporting, Basics
<1>3. CASE UNCHANGED vars
  <2>1. UNCHANGED <<win, selected, active, forwarded, tasks, events, svc, sessions, reported>>
    BY <1>3 DEF vars
  <2>2. EffectsInv'
    BY <2>1 DEF Reporting, EffectsInv, Effective, IsCompleted
  <2>3. ForwardedInv'
    BY <2>1 DEF Reporting, ForwardedInv, Current, Tells, TellsAt, Told, StateAt, Mine
  <2>4. ReportsInv'
    BY <2>1 DEF Reporting, ReportsInv, IsCompleted, Includes, Tells, TellsAt, Told, StateAt, Mine
  <2>5. QED
    BY <1>1, <2>2, <2>3, <2>4 DEF Reporting
<1>4. QED
  BY <1>2, <1>3

LEMMA ReportingHolds == Spec => []Reporting
<1>1. Init => Reporting
  BY InitBasics, InitReports DEF Reporting, Basics
<1>2. QED
  BY <1>1, ReportingKept, PTL DEF Spec

\* bridge.rs, the loop (Step::Done): a window that was told a control completed
\* shows a state that includes its effect as long as it shows the session that
\* did it. Tasks and states reach the loop in any order, the session may end and
\* be replaced, the user may select again: the loop sends the newest state ahead
\* of a report, and what it noted as forwarded is what the window was told last.
THEOREM ReportsFollowStates == Spec => []ReportAfterState
<1>1. Reporting => ReportAfterState
  <2> SUFFICES ASSUME Reporting, NEW e \in reported, NEW x \in win.state,
                      x.session = e.in, e.subscription = win.subscription
               PROVE  e.id \in x.shows
    BY DEF ReportAfterState
  <2>1. Tells(0) /\ x \in Told(0)
    BY DEF Tells, Told
  <2>2. 0 \in 0 .. Len(events)
    BY Lengths DEF Reporting, Basics
  <2>3. Includes(x, e)
    BY <2>1, <2>2 DEF Reporting, ReportsInv
  <2>4. QED
    BY <2>3 DEF Includes
<1>2. QED
  BY <1>1, ReportingHolds, PTL

-----------------------------------------------------------------------------
\* The stream to the window: what window w shows, the events q under way to it,
\* and after them what the bridge will send. Place 0 is what the window shows,
\* place i a state that is the i-th event.

IsState(w, e) == e.subscription = w.subscription /\ e.kind = "State"
IsEnd(w, e) == e.subscription = w.subscription /\ e.kind \in {"SessionEnded", "ConnectFailed"}

Place(w, q, i) == i = 0 \/ (i \in 1 .. Len(q) /\ IsState(w, q[i]))
SessionAt(w, q, i) == IF i = 0 THEN w.connection.session ELSE q[i].state.session
EpochAt(w, q, i) == IF i = 0 THEN w.connection.epoch ELSE q[i].state.epoch

\* The end of a session is told between places i and j.
EndedIn(w, q, i, j) == \E k \in 1 .. Len(q) : i < k /\ k < j /\ IsEnd(w, q[k])

\* The window shows a connection that may go on.
IsLive(w) == \/ /\ w.lifecycle = "Connected" /\ w.connection.epoch # 0
                /\ w.generation = w.connection.epoch
             \/ w.lifecycle = "Reconnecting" /\ w.connection.epoch = 0

LiveAt(w, i) == i = 0 => IsLive(w)
UpAt(w, q, i) == IF i = 0 THEN w.lifecycle = "Connected" ELSE q[i].state.epoch # 0

\* The epoch of a later state of the same session.
NotBefore(later, epoch) == later.epoch = 0 \/ epoch <= later.epoch

\* Session s at place j comes after place i: it is a later one, and its
\* predecessor's end is told in between, or the one that goes on.
Follows(w, q, i, s, j) ==
  /\ SessionAt(w, q, i) <= s
  /\ SessionAt(w, q, i) = s => LiveAt(w, i) /\ ~EndedIn(w, q, i, j)
  /\ UpAt(w, q, i) /\ ~EndedIn(w, q, i, j) => SessionAt(w, q, i) = s

\* x comes after place i with no epoch before the one there.
Reached(w, q, i, x) == SessionAt(w, q, i) = x.session => NotBefore(x, EpochAt(w, q, i))

Stream(w, q) ==
  /\ w.lifecycle = "Connected" => IsLive(w)
  /\ \A i, j \in 0 .. Len(q) : Place(w, q, i) /\ Place(w, q, j) /\ i < j =>
       /\ Follows(w, q, i, SessionAt(w, q, j), j)
       /\ Reached(w, q, i, q[j].state)

\* Session s comes after all of it.
Sends(w, q, s) == \A i \in 0 .. Len(q) : Place(w, q, i) => Follows(w, q, i, s, Len(q) + 1)

\* All of it is of sessions before n, and the ends of those are told.
Below(w, q, n) ==
  \A i \in 0 .. Len(q) : Place(w, q, i) =>
    /\ SessionAt(w, q, i) < n
    /\ UpAt(w, q, i) => EndedIn(w, q, i, Len(q) + 1)

\* The session that the next subscription to receiver r is to.
NextSession(r) == IF svc[r].open THEN svc[r].state.session ELSE sessions + 1

StreamInv ==
  /\ Stream(win, events)
  /\ ~Current => win.connection.session = 0 /\ win.lifecycle # "Connected"
  /\ \A chosen \in selected : chosen.subscription = win.subscription =>
       /\ \A a \in active : Sends(win, events, a.session)
       /\ active = None => Below(win, events, NextSession(chosen.receiver))

\* Epoch e of session s, which somebody saw, is not later than the session's newest.
Past(s, e) ==
  /\ s <= sessions /\ (s = 0 => e = 0)
  /\ \A r \in Receivers : svc[r].state.session = s => e <= svc[r].last
  /\ \A a \in active : a.session = s => \A x \in a.last : NotBefore(x, e)

\* A read for the selection the window shows, asked for in connection p under
\* generation g, has not arrived: it is a command, a task or an event.
ReadOf(m, p, g) == IsRead(m) /\ m.from = p /\ m.generation = g
ReadAsked(p, g) == \E i \in 1 .. Len(commands) : ReadOf(commands[i], p, g) /\ NoSelectFrom(i)
ReadRuns(p, g) == \E task \in tasks : /\ ReadOf(task, p, g)
                                      /\ task.subscription = win.subscription
ReadAnswered(p, g) == \E i \in 1 .. Len(events) : ReadOf(events[i], p, g) /\ Mine(i)
ReadComes(p, g) == ReadAsked(p, g) \/ ReadRuns(p, g) \/ ReadAnswered(p, g)

\* Nobody saw a connection that was not there.
PastInv ==
  /\ \A i \in 0 .. Len(events) : Place(win, events, i) =>
       Past(SessionAt(win, events, i), EpochAt(win, events, i))
  /\ \A a \in active : \A x \in a.last : Past(x.session, x.epoch)
  /\ \A p \in Connection, g \in Nat : ReadComes(p, g) => Past(p.session, p.epoch)

\* What was asked for in a connection of the session the window shows is of the
\* connection it shows, or its generation is over.
ReadFits(p, g) ==
  /\ p.session <= win.connection.session
  /\ p.session = win.connection.session /\ p.epoch # 0 =>
       \/ /\ p.epoch = win.connection.epoch
          /\ win.lifecycle = "Connected" => g = p.epoch
       \/ g = p.epoch /\ g < win.generation

\* No state under way to the window goes back behind p.
StatesAfter(p) ==
  \A j \in 1 .. Len(events) : IsState(win, events[j]) /\ events[j].state.session = p.session =>
    NotBefore(events[j].state, p.epoch)

ShownFits(p) ==
  /\ p.session <= win.connection.session
  /\ p.session = win.connection.session => p.epoch \in {0, win.connection.epoch}

Shown(w) == w.information.from \cup w.catalog.from \cup w.names.from

ReadsInv ==
  /\ \A p \in Connection, g \in Nat : ReadComes(p, g) => ReadFits(p, g) /\ StatesAfter(p)
  /\ \A p \in Shown(win) : ShownFits(p)

-----------------------------------------------------------------------------
\* What an event more does to the stream.

Numbers(w, q) ==
  /\ Len(q) \in Nat /\ w.generation \in Nat
  /\ w.connection.session \in Nat /\ w.connection.epoch \in Nat
  /\ \A i \in 1 .. Len(q) : q[i].kind = "State" => /\ q[i].state.session \in Nat
                                                   /\ q[i].state.epoch \in Nat

\* p is q and e after it.
Plus(p, q, e) == /\ Len(p) = Len(q) + 1 /\ p[Len(p)] = e
                 /\ \A i \in 1 .. Len(q) : p[i] = q[i]

LEMMA PlacesTyped ==
  ASSUME NEW w, NEW q, Numbers(w, q), NEW i \in 0 .. Len(q), Place(w, q, i)
  PROVE  SessionAt(w, q, i) \in Nat /\ EpochAt(w, q, i) \in Nat
BY DEF Numbers, Place, IsState, SessionAt, EpochAt

LEMMA PlacesOld ==
  ASSUME NEW w, NEW p, NEW q, NEW e, Numbers(w, q), Plus(p, q, e), NEW i \in 0 .. Len(q)
  PROVE  /\ Place(w, p, i) <=> Place(w, q, i)
         /\ SessionAt(w, p, i) = SessionAt(w, q, i) /\ EpochAt(w, p, i) = EpochAt(w, q, i)
         /\ UpAt(w, p, i) <=> UpAt(w, q, i)
         /\ i # 0 => p[i] = q[i]
<1>1. i # 0 => i \in 1 .. Len(q) /\ i \in 1 .. Len(p) /\ p[i] = q[i]
  BY DEF Numbers, Plus
<1>2. QED
  BY <1>1 DEF Place, SessionAt, EpochAt, UpAt

LEMMA EndsOld ==
  ASSUME NEW w, NEW p, NEW q, NEW e, Numbers(w, q), Plus(p, q, e),
         NEW i \in 0 .. Len(q), NEW j \in 0 .. Len(p)
  PROVE  EndedIn(w, p, i, j) <=> EndedIn(w, q, i, j)
<1>1. Len(q) \in Nat /\ Len(p) = Len(q) + 1
  BY DEF Numbers, Plus
<1>2. \A k \in 1 .. Len(p) : k < j => k \in 1 .. Len(q) /\ p[k] = q[k]
  BY <1>1 DEF Plus
<1>3. \A k \in 1 .. Len(q) : k \in 1 .. Len(p) /\ p[k] = q[k]
  BY <1>1 DEF Plus
<1>4. QED
  BY <1>2, <1>3 DEF EndedIn

LEMMA EndsPlus ==
  ASSUME NEW w, NEW p, NEW q, NEW e, Numbers(w, q), Plus(p, q, e), NEW i \in 0 .. Len(q)
  PROVE  EndedIn(w, p, i, Len(p) + 1) <=> EndedIn(w, q, i, Len(q) + 1) \/ IsEnd(w, e)
<1>1. Len(q) \in Nat /\ Len(p) = Len(q) + 1 /\ p[Len(p)] = e
  BY DEF Numbers, Plus
<1>2. \A k \in 1 .. Len(p) : k = Len(p) \/ (k \in 1 .. Len(q) /\ p[k] = q[k])
  BY <1>1 DEF Plus
<1>3. \A k \in 1 .. Len(q) : k \in 1 .. Len(p) /\ p[k] = q[k] /\ k < Len(p)
  BY <1>1 DEF Plus
<1>4. ASSUME IsEnd(w, e) PROVE EndedIn(w, p, i, Len(p) + 1)
  <2>1. Len(p) \in 1 .. Len(p) /\ i < Len(p) /\ Len(p) < Len(p) + 1
    BY <1>1
  <2>2. QED
    BY <1>1, <1>4, <2>1 DEF EndedIn
<1>5. ASSUME EndedIn(w, q, i, Len(q) + 1) PROVE EndedIn(w, p, i, Len(p) + 1)
  BY <1>1, <1>3, <1>5 DEF EndedIn
<1>6. ASSUME EndedIn(w, p, i, Len(p) + 1), ~IsEnd(w, e) PROVE EndedIn(w, q, i, Len(q) + 1)
  BY <1>1, <1>2, <1>6 DEF EndedIn
<1>7. QED
  BY <1>4, <1>5, <1>6

\* The order of what was there stays; a state that is added must follow it.
LEMMA StreamPlus ==
  ASSUME NEW w, NEW p, NEW q, NEW e, Numbers(w, q), Plus(p, q, e), Stream(w, q),
         IsState(w, e) => /\ Sends(w, q, e.state.session)
                          /\ \A i \in 0 .. Len(q) : Place(w, q, i) => Reached(w, q, i, e.state)
  PROVE  Stream(w, p)
<1>1. /\ Len(q) \in Nat /\ Len(p) = Len(q) + 1 /\ p[Len(p)] = e
  BY DEF Numbers, Plus
<1>2. SUFFICES ASSUME NEW i \in 0 .. Len(p), NEW j \in 0 .. Len(p),
                      Place(w, p, i), Place(w, p, j), i < j
               PROVE  /\ Follows(w, p, i, SessionAt(w, p, j), j)
                      /\ Reached(w, p, i, p[j].state)
  BY DEF Stream
<1>3. i \in 0 .. Len(q) /\ j # 0
  BY <1>1, <1>2
<1>4. /\ Place(w, q, i) /\ SessionAt(w, p, i) = SessionAt(w, q, i)
      /\ EpochAt(w, p, i) = EpochAt(w, q, i) /\ (UpAt(w, p, i) <=> UpAt(w, q, i))
      /\ EndedIn(w, p, i, j) <=> EndedIn(w, q, i, j)
  BY <1>2, <1>3, PlacesOld, EndsOld
<1>5. CASE j \in 0 .. Len(q)
  <2>1. Place(w, q, j) /\ SessionAt(w, p, j) = SessionAt(w, q, j) /\ p[j] = q[j]
    BY <1>2, <1>3, <1>5, PlacesOld
  <2>2. Follows(w, q, i, SessionAt(w, q, j), j) /\ Reached(w, q, i, q[j].state)
    BY <1>2, <1>3, <1>4, <1>5, <2>1 DEF Stream
  <2>3. QED
    BY <1>4, <2>1, <2>2 DEF Follows, Reached
<1>6. CASE j = Len(q) + 1
  <2>1. p[j] = e /\ IsState(w, e) /\ SessionAt(w, p, j) = e.state.session
    BY <1>1, <1>2, <1>3, <1>6 DEF Place, SessionAt
  <2>2. Follows(w, q, i, e.state.session, j) /\ Reached(w, q, i, e.state)
    BY <1>3, <1>4, <1>6, <2>1 DEF Sends
  <2>3. QED
    BY <1>4, <2>1, <2>2 DEF Follows, Reached
<1>7. QED
  BY <1>1, <1>3, <1>5, <1>6

\* An event that tells neither a state nor an end.
LEMMA OtherPlus ==
  ASSUME NEW w, NEW p, NEW q, NEW e, Numbers(w, q), Plus(p, q, e),
         ~IsState(w, e), ~IsEnd(w, e)
  PROVE  /\ \A s \in Nat : Sends(w, q, s) => Sends(w, p, s)
         /\ \A n \in Nat : Below(w, q, n) => Below(w, p, n)
<1>1. /\ Len(q) \in Nat /\ Len(p) = Len(q) + 1 /\ p[Len(p)] = e
  BY DEF Numbers, Plus
<1>2. ASSUME NEW i \in 0 .. Len(p), Place(w, p, i)
      PROVE  /\ i \in 0 .. Len(q) /\ Place(w, q, i) /\ SessionAt(w, p, i) = SessionAt(w, q, i)
             /\ UpAt(w, p, i) <=> UpAt(w, q, i)
             /\ EndedIn(w, p, i, Len(p) + 1) <=> EndedIn(w, q, i, Len(q) + 1)
  <2>1. i \in 0 .. Len(q)
    BY <1>1, <1>2 DEF Place
  <2>2. QED
    BY <1>2, <2>1, PlacesOld, EndsPlus
<1>3. ASSUME NEW s \in Nat, Sends(w, q, s) PROVE Sends(w, p, s)
  BY <1>2, <1>3 DEF Sends, Follows
<1>4. ASSUME NEW n \in Nat, Below(w, q, n) PROVE Below(w, p, n)
  BY <1>2, <1>4 DEF Below
<1>5. QED
  BY <1>3, <1>4

\* An end: no session that was told or would have been sent comes after it.
LEMMA EndPlus ==
  ASSUME NEW w, NEW p, NEW q, NEW e, Numbers(w, q), Plus(p, q, e), IsEnd(w, e),
         NEW n \in Nat, Below(w, q, n) \/ \E s \in Nat : s < n /\ Sends(w, q, s)
  PROVE  Below(w, p, n)
<1>1. /\ Len(q) \in Nat /\ Len(p) = Len(q) + 1 /\ p[Len(p)] = e
  BY DEF Numbers, Plus
<1>2. SUFFICES ASSUME NEW i \in 0 .. Len(p), Place(w, p, i)
               PROVE  SessionAt(w, p, i) < n /\ EndedIn(w, p, i, Len(p) + 1)
  BY DEF Below
<1>3. i \in 0 .. Len(q)
  BY <1>1, <1>2 DEF Place, IsState, IsEnd
<1>4. Place(w, q, i) /\ SessionAt(w, p, i) = SessionAt(w, q, i) /\ EndedIn(w, p, i, Len(p) + 1)
  BY <1>2, <1>3, PlacesOld, EndsPlus
<1>5. SessionAt(w, q, i) \in Nat
  BY <1>3, <1>4, PlacesTyped
<1>6. SessionAt(w, q, i) < n
  BY <1>3, <1>4, <1>5 DEF Below, Sends, Follows
<1>7. QED
  BY <1>4, <1>6

\* A state: its session goes on.
LEMMA StatePlus ==
  ASSUME NEW w, NEW p, NEW q, NEW e, Numbers(w, q), Plus(p, q, e), IsState(w, e),
         Sends(w, q, e.state.session), e.state.session \in Nat
  PROVE  Sends(w, p, e.state.session)
<1>1. /\ Len(q) \in Nat /\ Len(p) = Len(q) + 1 /\ p[Len(p)] = e
  BY DEF Numbers, Plus
<1>2. SUFFICES ASSUME NEW i \in 0 .. Len(p), Place(w, p, i)
               PROVE  Follows(w, p, i, e.state.session, Len(p) + 1)
  BY DEF Sends
<1>3. CASE i \in 0 .. Len(q)
  <2>1. /\ Place(w, q, i) /\ SessionAt(w, p, i) = SessionAt(w, q, i)
        /\ UpAt(w, p, i) <=> UpAt(w, q, i)
        /\ EndedIn(w, p, i, Len(p) + 1) <=> EndedIn(w, q, i, Len(q) + 1)
    BY <1>2, <1>3, PlacesOld, EndsPlus DEF IsState, IsEnd
  <2>2. Follows(w, q, i, e.state.session, Len(q) + 1)
    BY <1>3, <2>1 DEF Sends
  <2>3. QED
    BY <2>1, <2>2 DEF Follows
<1>4. CASE i = Len(p)
  <2>1. i # 0 /\ SessionAt(w, p, i) = e.state.session
    BY <1>1, <1>4 DEF SessionAt
  <2>2. ~EndedIn(w, p, i, Len(p) + 1)
    BY <1>1, <1>4 DEF EndedIn
  <2>3. QED
    BY <2>1, <2>2 DEF Follows, LiveAt
<1>5. QED
  BY <1>1, <1>3, <1>4

\* Nothing below n goes on: session n comes after it.
LEMMA SendsNext ==
  ASSUME NEW w, NEW q, Numbers(w, q), NEW n \in Nat, Below(w, q, n)
  PROVE  Sends(w, q, n)
<1>1. SUFFICES ASSUME NEW i \in 0 .. Len(q), Place(w, q, i)
               PROVE  Follows(w, q, i, n, Len(q) + 1)
  BY DEF Sends
<1>2. /\ SessionAt(w, q, i) \in Nat /\ SessionAt(w, q, i) < n
      /\ UpAt(w, q, i) => EndedIn(w, q, i, Len(q) + 1)
  BY <1>1, PlacesTyped DEF Below
<1>3. QED
  BY <1>2 DEF Follows

-----------------------------------------------------------------------------
\* What taking the first event does to the stream.

\* From w and q to v and p: the window shows the state that was the first event,
\* or what it showed.
Moves(v, p, w, q) ==
  /\ Len(q) \in Nat \ {0} /\ Len(p) = Len(q) - 1
  /\ \A i \in 1 .. Len(p) : p[i] = q[i + 1]
  /\ v.subscription = w.subscription
  /\ IF IsState(w, q[1])
     THEN /\ v.connection.session = q[1].state.session
          /\ v.connection.epoch = q[1].state.epoch
          /\ IsLive(v) /\ (v.lifecycle = "Connected" <=> q[1].state.epoch # 0)
     ELSE /\ v.connection = w.connection
          /\ IF IsEnd(w, q[1]) THEN v.lifecycle # "Connected"
             ELSE v.lifecycle = w.lifecycle /\ v.generation = w.generation

\* Where place i was.
Origin(w, q, i) == IF i = 0 /\ ~IsState(w, q[1]) THEN 0 ELSE i + 1

LEMMA OriginsOf ==
  ASSUME NEW v, NEW p, NEW w, NEW q, Moves(v, p, w, q), NEW i \in 0 .. Len(p),
         Place(v, p, i)
  PROVE  LET o == Origin(w, q, i)
         IN /\ o \in 0 .. Len(q) /\ o <= i + 1 /\ Place(w, q, o)
            /\ SessionAt(v, p, i) = SessionAt(w, q, o) /\ EpochAt(v, p, i) = EpochAt(w, q, o)
            /\ i # 0 => o = i + 1 /\ p[i] = q[o]
<1>1. Len(q) \in Nat \ {0} /\ Len(p) = Len(q) - 1
  BY DEF Moves
<1>2. CASE i # 0
  <2>1. i \in 1 .. Len(p) /\ i + 1 \in 1 .. Len(q) /\ i + 1 # 0 /\ p[i] = q[i + 1]
    BY <1>1, <1>2 DEF Moves
  <2>2. IsState(w, q[i + 1])
    BY <1>2, <2>1 DEF Place, IsState, Moves
  <2>3. QED
    BY <1>1, <1>2, <2>1, <2>2 DEF Origin, Place, SessionAt, EpochAt
<1>3. CASE i = 0
  <2>1. 1 \in 1 .. Len(q) /\ 1 \in 0 .. Len(q) /\ 0 \in 0 .. Len(q)
    BY <1>1
  <2>2. CASE IsState(w, q[1])
    BY <1>3, <2>1, <2>2 DEF Origin, Place, SessionAt, EpochAt, Moves
  <2>3. CASE ~IsState(w, q[1])
    BY <1>3, <2>1, <2>3 DEF Origin, Place, SessionAt, EpochAt, Moves
  <2>4. QED
    BY <2>2, <2>3
<1>4. QED
  BY <1>2, <1>3

\* The ends between two places are those between their origins, but for the first
\* event itself.
LEMMA EndsMoved ==
  ASSUME NEW v, NEW p, NEW w, NEW q, Moves(v, p, w, q), NEW i \in 0 .. Len(p),
         NEW j \in i + 1 .. Len(p) + 1
  PROVE  EndedIn(w, q, Origin(w, q, i), j + 1) <=>
           EndedIn(v, p, i, j) \/ (i = 0 /\ IsEnd(w, q[1]))
<1>1. /\ Len(q) \in Nat \ {0} /\ Len(p) = Len(q) - 1 /\ v.subscription = w.subscription
      /\ \A k \in 1 .. Len(p) : p[k] = q[k + 1]
  BY DEF Moves
<1> DEFINE o == Origin(w, q, i)
<1>2. /\ o \in {0, i + 1} /\ (i # 0 => o = i + 1)
      /\ i = 0 /\ IsEnd(w, q[1]) => o = 0
  BY DEF Origin, IsEnd, IsState
<1>3. o = 0 => i = 0
  BY <1>2
<1> HIDE DEF o
<1>4. ASSUME EndedIn(v, p, i, j) PROVE EndedIn(w, q, o, j + 1)
  <2>1. PICK k \in 1 .. Len(p) : i < k /\ k < j /\ IsEnd(v, p[k])
    BY <1>4 DEF EndedIn
  <2>2. k + 1 \in 1 .. Len(q) /\ o < k + 1 /\ k + 1 < j + 1 /\ IsEnd(w, q[k + 1])
    BY <1>1, <1>2, <2>1 DEF IsEnd
  <2>3. QED
    BY <2>2 DEF EndedIn
<1>5. ASSUME i = 0, IsEnd(w, q[1]) PROVE EndedIn(w, q, o, j + 1)
  <2>1. 1 \in 1 .. Len(q) /\ o < 1 /\ 1 < j + 1
    BY <1>1, <1>2, <1>5
  <2>2. QED
    BY <1>5, <2>1 DEF EndedIn
<1>6. ASSUME EndedIn(w, q, o, j + 1), ~EndedIn(v, p, i, j) PROVE i = 0 /\ IsEnd(w, q[1])
  <2>1. PICK k \in 1 .. Len(q) : o < k /\ k < j + 1 /\ IsEnd(w, q[k])
    BY <1>6 DEF EndedIn
  <2>2. CASE k = 1
    BY <1>2, <2>1, <2>2
  <2>3. CASE k # 1
    <3>1. k - 1 \in 1 .. Len(p) /\ k - 1 < j /\ p[k - 1] = q[k]
      BY <1>1, <2>1, <2>3
    <3>2. i < k - 1
      BY <1>2, <2>1, <2>3
    <3>3. IsEnd(v, p[k - 1])
      BY <1>1, <2>1, <3>1 DEF IsEnd
    <3>4. QED
      BY <1>6, <3>1, <3>2, <3>3 DEF EndedIn
  <2>4. QED
    BY <2>2, <2>3
<1>7. QED
  BY <1>4, <1>5, <1>6 DEF o

LEMMA FollowsMoved ==
  ASSUME NEW v, NEW p, NEW w, NEW q, Numbers(w, q), Moves(v, p, w, q),
         NEW i \in 0 .. Len(p), Place(v, p, i), NEW j \in i + 1 .. Len(p) + 1,
         NEW s \in Nat, Follows(w, q, Origin(w, q, i), s, j + 1)
  PROVE  Follows(v, p, i, s, j)
<1> DEFINE o == Origin(w, q, i)
<1>1. /\ o \in 0 .. Len(q) /\ Place(w, q, o) /\ SessionAt(v, p, i) = SessionAt(w, q, o)
      /\ i # 0 => o = i + 1 /\ p[i] = q[o]
  BY OriginsOf
<1>2. EndedIn(w, q, o, j + 1) <=> EndedIn(v, p, i, j) \/ (i = 0 /\ IsEnd(w, q[1]))
  BY EndsMoved
<1>3. SessionAt(w, q, o) \in Nat
  BY <1>1, PlacesTyped
<1>4. CASE i # 0
  <2>1. UpAt(v, p, i) <=> UpAt(w, q, o)
    BY <1>1, <1>4 DEF UpAt
  <2>2. QED
    BY <1>1, <1>2, <1>4, <2>1 DEF Follows, LiveAt
<1>5. CASE i = 0 /\ IsState(w, q[1])
  <2>1. o = 1 /\ ~IsEnd(w, q[1]) /\ IsLive(v)
    BY <1>5 DEF Origin, IsState, IsEnd, Moves
  <2>2. UpAt(v, p, i) <=> UpAt(w, q, o)
    BY <1>5, <2>1 DEF UpAt, Moves
  <2>3. QED
    BY <1>1, <1>2, <1>5, <2>1, <2>2 DEF Follows, LiveAt
<1>6. CASE i = 0 /\ IsEnd(w, q[1])
  <2>1. ~UpAt(v, p, i)
    BY <1>6 DEF UpAt, Moves, IsState, IsEnd
  <2>2. SessionAt(w, q, o) # s
    BY <1>2, <1>6 DEF Follows
  <2>3. QED
    BY <1>1, <2>1, <2>2 DEF Follows
<1>7. CASE i = 0 /\ ~IsState(w, q[1]) /\ ~IsEnd(w, q[1])
  <2>1. /\ o = 0 /\ v.connection = w.connection /\ v.lifecycle = w.lifecycle
        /\ v.generation = w.generation
    BY <1>7 DEF Origin, Moves
  <2>2. (UpAt(v, p, i) <=> UpAt(w, q, o)) /\ (IsLive(v) <=> IsLive(w))
    BY <1>7, <2>1 DEF UpAt, IsLive
  <2>3. QED
    BY <1>1, <1>2, <1>7, <2>1, <2>2 DEF Follows, LiveAt
<1>8. QED
  BY <1>4, <1>5, <1>6, <1>7

LEMMA StreamMoved ==
  ASSUME NEW v, NEW p, NEW w, NEW q, Numbers(w, q), Moves(v, p, w, q), Stream(w, q)
  PROVE  /\ Stream(v, p)
         /\ \A s \in Nat : Sends(w, q, s) => Sends(v, p, s)
         /\ \A n \in Nat : Below(w, q, n) => Below(v, p, n)
<1>1. Len(q) \in Nat \ {0} /\ Len(p) = Len(q) - 1
  BY DEF Moves
<1>2. v.lifecycle = "Connected" => IsLive(v)
  BY DEF Moves, Stream, IsLive
<1>3. ASSUME NEW i \in 0 .. Len(p), NEW j \in 0 .. Len(p), Place(v, p, i), Place(v, p, j), i < j
      PROVE  Follows(v, p, i, SessionAt(v, p, j), j) /\ Reached(v, p, i, p[j].state)
  <2> DEFINE o == Origin(w, q, i)
  <2>1. /\ o \in 0 .. Len(q) /\ o <= i + 1 /\ Place(w, q, o)
        /\ SessionAt(v, p, i) = SessionAt(w, q, o) /\ EpochAt(v, p, i) = EpochAt(w, q, o)
    BY <1>3, OriginsOf
  <2>2. j # 0 /\ j + 1 \in 0 .. Len(q) /\ Origin(w, q, j) = j + 1
    BY <1>1, <1>3 DEF Origin
  <2>3. /\ Place(w, q, j + 1) /\ SessionAt(v, p, j) = SessionAt(w, q, j + 1)
        /\ p[j] = q[j + 1]
    BY <1>3, <2>2, OriginsOf
  <2>4. o < j + 1
    BY <1>3, <2>1
  <2> HIDE DEF o
  <2>5. Follows(w, q, o, SessionAt(w, q, j + 1), j + 1) /\ Reached(w, q, o, q[j + 1].state)
    BY <2>1, <2>2, <2>3, <2>4 DEF Stream
  <2>6. SessionAt(w, q, j + 1) \in Nat /\ j \in i + 1 .. Len(p) + 1
    BY <1>3, <2>2, <2>3, PlacesTyped
  <2>7. Follows(v, p, i, SessionAt(w, q, j + 1), j)
    BY <1>3, <2>5, <2>6, FollowsMoved DEF o
  <2>8. QED
    BY <2>1, <2>3, <2>5, <2>7 DEF Reached
<1>4. ASSUME NEW s \in Nat, Sends(w, q, s) PROVE Sends(v, p, s)
  <2>1. SUFFICES ASSUME NEW i \in 0 .. Len(p), Place(v, p, i)
                 PROVE  Follows(v, p, i, s, Len(p) + 1)
    BY DEF Sends
  <2>2. Origin(w, q, i) \in 0 .. Len(q) /\ Place(w, q, Origin(w, q, i))
    BY <2>1, OriginsOf
  <2>3. Follows(w, q, Origin(w, q, i), s, Len(q) + 1)
    BY <1>4, <2>2 DEF Sends
  <2>4. PICK j \in i + 1 .. Len(p) + 1 : j = Len(p) + 1 /\ j + 1 = Len(q) + 1
    BY <1>1
  <2>5. QED
    BY <2>1, <2>3, <2>4, FollowsMoved
<1>5. ASSUME NEW n \in Nat, Below(w, q, n) PROVE Below(v, p, n)
  <2>1. SUFFICES ASSUME NEW i \in 0 .. Len(p), Place(v, p, i)
                 PROVE  /\ SessionAt(v, p, i) < n
                        /\ UpAt(v, p, i) => EndedIn(v, p, i, Len(p) + 1)
    BY DEF Below
  <2> DEFINE o == Origin(w, q, i)
  <2>2. /\ o \in 0 .. Len(q) /\ Place(w, q, o) /\ SessionAt(v, p, i) = SessionAt(w, q, o)
        /\ i # 0 => o = i + 1 /\ p[i] = q[o]
    BY <2>1, OriginsOf
  <2>3. SessionAt(w, q, o) < n /\ (UpAt(w, q, o) => EndedIn(w, q, o, Len(q) + 1))
    BY <1>5, <2>2 DEF Below
  <2>4. PICK j \in i + 1 .. Len(p) + 1 : j = Len(p) + 1 /\ j + 1 = Len(q) + 1
    BY <1>1
  <2>5. EndedIn(w, q, o, Len(q) + 1) <=> EndedIn(v, p, i, Len(p) + 1) \/ (i = 0 /\ IsEnd(w, q[1]))
    BY <2>1, <2>4, EndsMoved
  <2>6. UpAt(v, p, i) => UpAt(w, q, o) /\ ~(i = 0 /\ IsEnd(w, q[1]))
    BY <2>2 DEF UpAt, Moves, Origin, IsState, IsEnd
  <2>7. QED
    BY <2>2, <2>3, <2>5, <2>6
<1>6. QED
  BY <1>2, <1>3, <1>4, <1>5 DEF Stream

-----------------------------------------------------------------------------
\* The stream is kept in order.

LEMMA StreamTyped == ASSUME TypeOK PROVE Numbers(win, events)
<1>1. \A i \in 1 .. Len(events) : events[i].kind = "State" => events[i].state \in State
  BY Lengths, EventShape
<1>2. win.connection \in Connection
  BY DEF TypeOK, WindowTypes
<1>3. QED
  BY <1>1, <1>2, Lengths DEF Numbers, State, Connection

\* A window that shows the same connection.
LEMMA SameStream ==
  ASSUME NEW v, NEW w, NEW q, v.subscription = w.subscription,
         v.connection = w.connection, v.generation = w.generation,
         \/ v.lifecycle = w.lifecycle
         \/ v.lifecycle = "Connecting" /\ w.lifecycle = "Disconnected"
  PROVE  /\ Stream(w, q) => Stream(v, q)
         /\ \A s : Sends(w, q, s) => Sends(v, q, s)
         /\ \A n : Below(w, q, n) => Below(v, q, n)
         /\ \A i : /\ Place(v, q, i) <=> Place(w, q, i)
                   /\ SessionAt(v, q, i) = SessionAt(w, q, i)
                   /\ EpochAt(v, q, i) = EpochAt(w, q, i)
<1>1. (v.lifecycle = "Connected" <=> w.lifecycle = "Connected") /\ (IsLive(v) <=> IsLive(w))
  BY DEF IsLive
<1>2. \A e : (IsState(v, e) <=> IsState(w, e)) /\ (IsEnd(v, e) <=> IsEnd(w, e))
  BY DEF IsState, IsEnd
<1>3. \A i : /\ Place(v, q, i) <=> Place(w, q, i)
             /\ SessionAt(v, q, i) = SessionAt(w, q, i)
             /\ EpochAt(v, q, i) = EpochAt(w, q, i)
             /\ UpAt(v, q, i) <=> UpAt(w, q, i)
             /\ LiveAt(v, i) <=> LiveAt(w, i)
  BY <1>1, <1>2 DEF Place, SessionAt, EpochAt, UpAt, LiveAt
<1>4. \A i, j : EndedIn(v, q, i, j) <=> EndedIn(w, q, i, j)
  BY <1>2 DEF EndedIn
<1>5. \A i, s, j : Follows(v, q, i, s, j) <=> Follows(w, q, i, s, j)
  BY <1>3, <1>4 DEF Follows
<1>6. Stream(w, q) => Stream(v, q)
  BY <1>1, <1>3, <1>5 DEF Stream, Reached
<1>7. \A s : Sends(w, q, s) => Sends(v, q, s)
  BY <1>3, <1>5 DEF Sends
<1>8. \A n : Below(w, q, n) => Below(v, q, n)
  BY <1>3, <1>4 DEF Below
<1>9. QED
  BY <1>3, <1>6, <1>7, <1>8

LEMMA BelowMore ==
  ASSUME NEW w, NEW q, Numbers(w, q), NEW n \in Nat, NEW m \in Nat, n <= m, Below(w, q, n)
  PROVE  Below(w, q, m)
<1>1. SUFFICES ASSUME NEW i \in 0 .. Len(q), Place(w, q, i)
               PROVE  /\ SessionAt(w, q, i) < m
                      /\ UpAt(w, q, i) => EndedIn(w, q, i, Len(q) + 1)
  BY DEF Below
<1>2. /\ SessionAt(w, q, i) \in Nat /\ SessionAt(w, q, i) < n
      /\ UpAt(w, q, i) => EndedIn(w, q, i, Len(q) + 1)
  BY <1>1, PlacesTyped DEF Below
<1>3. QED
  BY <1>2

\* The events that are gained, one after the other.
LEMMA GainedOne ==
  ASSUME TypeOK, NEW first, NEW last, Gains(first, last, 1)
  PROVE  Plus(events', events, last)
BY DEF Gains, Plus

LEMMA GainedTwo ==
  ASSUME TypeOK, NEW first \in Events, NEW last, Gains(first, last, 2)
  PROVE  \E mid : Plus(mid, events, first) /\ Plus(events', mid, last) /\ Numbers(win, mid)
<1> DEFINE mid == Append(events, first)
<1>1. events \in Seq(Events)
  BY DEF TypeOK
<1>2. /\ mid \in Seq(Events) /\ Len(mid) = Len(events) + 1 /\ Len(events) \in Nat
      /\ mid[Len(events) + 1] = first
      /\ \A i \in 1 .. Len(events) : mid[i] = events[i]
  BY <1>1
<1>3. \A i \in 1 .. Len(mid) : mid[i] \in Events
  BY <1>2
<1> HIDE DEF mid
<1>4. Plus(mid, events, first)
  BY <1>2 DEF Plus
<1>5. Plus(events', mid, last)
  <2>1. Len(events') = Len(mid) + 1 /\ events'[Len(events')] = last
    BY <1>2 DEF Gains
  <2>2. \A i \in 1 .. Len(mid) : i \in 1 .. Len(events) \/ i = Len(events) + 1
    BY <1>2
  <2>3. \A i \in 1 .. Len(mid) : events'[i] = mid[i]
    BY <1>2, <2>2 DEF Gains
  <2>4. QED
    BY <2>1, <2>3 DEF Plus
<1>6. \A i \in 1 .. Len(mid) : mid[i].kind = "State" => mid[i].state \in State
  BY <1>3, EventShape
<1>7. Numbers(win, mid)
  BY <1>2, <1>6, StreamTyped DEF Numbers, State
<1>8. QED
  BY <1>4, <1>5, <1>7

\* A subscription to session n, or none, after the end of the one before.
LEMMA SubscribeStream ==
  ASSUME NEW w, NEW p, NEW q, NEW last, NEW n \in Nat, Numbers(w, q), Stream(w, q),
         \/ Below(w, q, n) /\ Plus(p, q, last)
         \/ \E mid, first : /\ Plus(mid, q, first) /\ Plus(p, mid, last) /\ Numbers(w, mid)
                            /\ IsEnd(w, first)
                            /\ \E s \in Nat : s < n /\ Sends(w, q, s),
         IsEnd(w, last) \/ (IsState(w, last) /\ last.state.session = n)
  PROVE  /\ Stream(w, p)
         /\ IsEnd(w, last) => Below(w, p, n)
         /\ IsState(w, last) => Sends(w, p, n)
<1>1. \E m : /\ Numbers(w, m) /\ Stream(w, m) /\ Below(w, m, n) /\ Plus(p, m, last)
  <2>1. CASE Below(w, q, n) /\ Plus(p, q, last)
    BY <2>1
  <2>2. CASE \E mid, first : /\ Plus(mid, q, first) /\ Plus(p, mid, last) /\ Numbers(w, mid)
                             /\ IsEnd(w, first)
                             /\ \E s \in Nat : s < n /\ Sends(w, q, s)
    <3>1. PICK mid, first : /\ Plus(mid, q, first) /\ Plus(p, mid, last) /\ Numbers(w, mid)
                            /\ IsEnd(w, first)
                            /\ \E s \in Nat : s < n /\ Sends(w, q, s)
      BY <2>2
    <3>2. ~IsState(w, first)
      BY <3>1 DEF IsEnd, IsState
    <3>3. Stream(w, mid)
      BY <3>1, <3>2, StreamPlus
    <3>4. Below(w, mid, n)
      BY <3>1, EndPlus
    <3>5. QED
      BY <3>1, <3>3, <3>4
  <2>3. QED
    BY <2>1, <2>2
<1>2. PICK m : /\ Numbers(w, m) /\ Stream(w, m) /\ Below(w, m, n) /\ Plus(p, m, last)
  BY <1>1
<1>3. CASE IsEnd(w, last)
  <2>1. ~IsState(w, last)
    BY <1>3 DEF IsEnd, IsState
  <2>2. Stream(w, p)
    BY <1>2, <2>1, StreamPlus
  <2>3. Below(w, p, n)
    BY <1>2, <1>3, EndPlus
  <2>4. QED
    BY <2>1, <2>2, <2>3
<1>4. CASE IsState(w, last) /\ last.state.session = n
  <2>1. Sends(w, m, n)
    BY <1>2, SendsNext
  <2>2. \A i \in 0 .. Len(m) : Place(w, m, i) => Reached(w, m, i, last.state)
    <3>1. SUFFICES ASSUME NEW i \in 0 .. Len(m), Place(w, m, i)
                   PROVE  SessionAt(w, m, i) # n
      BY <1>4 DEF Reached
    <3>2. SessionAt(w, m, i) \in Nat /\ SessionAt(w, m, i) < n
      BY <1>2, <3>1, PlacesTyped DEF Below
    <3>3. QED
      BY <3>2
  <2>3. Stream(w, p)
    BY <1>2, <1>4, <2>1, <2>2, StreamPlus
  <2>4. Sends(w, p, n)
    BY <1>2, <1>4, <2>1, StatePlus
  <2>5. QED
    BY <1>4, <2>3, <2>4 DEF IsEnd, IsState
<1>5. QED
  BY <1>3, <1>4

-----------------------------------------------------------------------------
\* What somebody saw stays in the past.

LEMMA PastService ==
  ASSUME TypeOK, SessionsInv, NEW r \in Receivers, NEW entry \in Session, Entered(r, entry),
         svc[r].open => svc[r].last <= entry.last,
         NEW s \in Nat, NEW e \in Nat, Past(s, e)
  PROVE  /\ s <= sessions' /\ (s = 0 => e = 0)
         /\ \A q \in Receivers : svc'[q].state.session = s => e <= svc'[q].last
<1>1. sessions <= sessions' /\ svc'[r] = entry /\ \A q \in Receivers \ {r} : svc'[q] = svc[q]
  BY EnteredService DEF SessionsInv
<1>2. /\ sessions \in Nat /\ sessions' \in Nat /\ svc[r].last \in Nat /\ entry.last \in Nat
  BY ServiceNumbers DEF Entered, Session
<1>3. s <= sessions /\ (s = 0 => e = 0)
      /\ \A q \in Receivers : svc[q].state.session = s => e <= svc[q].last
  BY DEF Past
<1>4. entry.state.session = s => e <= entry.last
  <2>1. CASE svc[r].open
    BY <1>2, <1>3, <2>1 DEF Entered
  <2>2. CASE ~svc[r].open
    BY <1>2, <1>3, <2>2 DEF Entered
  <2>3. QED
    BY <2>1, <2>2
<1>5. QED
  BY <1>1, <1>2, <1>3, <1>4

LEMMA PastSubscribed ==
  ASSUME TypeOK, SessionsInv, NEW chosen \in Chosen, NEW n, Fails(chosen, n) \/ Opens(chosen, n),
         NEW s \in Nat, NEW e \in Nat, Past(s, e)
  PROVE  Past(s, e)'
<1>1. CASE Fails(chosen, n)
  BY <1>1 DEF Fails, Past, None
<1>2. CASE Opens(chosen, n)
  <2>1. PICK entry \in Session :
          /\ Entered(chosen.receiver, entry)
          /\ svc[chosen.receiver].open => entry = svc[chosen.receiver]
          /\ active' = {[session |-> entry.state.session, last |-> None]}
    BY <1>2, OpensEnter DEF SessionsInv
  <2>2. chosen.receiver \in Receivers
    BY DEF Chosen
  <2>3. svc[chosen.receiver].open => svc[chosen.receiver].last <= entry.last
    BY <2>1, <2>2, ServiceNumbers
  <2>4. \A a \in active' : a.last = {}
    BY <2>1 DEF None
  <2>5. QED
    BY <2>1, <2>2, <2>3, <2>4, PastService DEF Past
<1>3. QED
  BY <1>1, <1>2

LEMMA PastKept ==
  ASSUME TypeOK, Numbered, SessionsInv, Next, NEW s \in Nat, NEW e \in Nat, Past(s, e)
  PROVE  Past(s, e)'
<1>1. CASE Quiet \/ Reselect \/ Listens \/ Dispatches \/ Forwards \/ Finishes
  <2>1. UNCHANGED <<active, svc, sessions>>
    BY <1>1 DEF Quiet, Reselect, Listens, Arrives, Dispatches, Forwards, Finishes, bridge, service
  <2>2. QED
    BY <2>1 DEF Past
<1>2. CASE Selects
  BY <1>2, PastSubscribed DEF Selects
<1>3. CASE Resubscribes
  <2>1. PICK chosen \in selected, n \in {1, 2} : Fails(chosen, n) \/ Opens(chosen, n)
    BY <1>3 DEF Resubscribes
  <2>2. QED
    BY <2>1, OnlySelected, PastSubscribed
<1>4. CASE Publishes
  <2>1. PICK r \in Receivers, entry \in Session : Entered(r, entry) /\ svc[r].last <= entry.last
    BY <1>4, PublishesEnter DEF SessionsInv
  <2>2. active' = active
    BY <1>4 DEF Publishes, bridge
  <2>3. QED
    BY <2>1, <2>2, PastService DEF Past
<1>5. CASE TakesEffect
  <2>1. PICK r \in Receivers, entry \in Session :
          Entered(r, entry) /\ (svc[r].open => entry.last = svc[r].last)
    BY <1>5, TakesEffectEnter DEF SessionsInv
  <2>2. active' = active
    BY <1>5 DEF TakesEffect, bridge
  <2>3. svc[r].open => svc[r].last <= entry.last
    BY <2>1, ServiceNumbers
  <2>4. QED
    BY <2>1, <2>2, <2>3, PastService DEF Past
<1>6. CASE Ends
  <2>1. PICK r \in Receivers, entry \in Session :
           /\ Entered(r, entry) /\ entry.last = svc[r].last
           /\ \A a \in active' :
                \/ a \in active /\ a.session # svc[r].state.session
                \/ a.session = svc[r].state.session /\ a.last = {svc[r].state}
    BY <1>6, EndsEnter DEF SessionsInv
  <2>2. svc[r].last <= entry.last
    BY <2>1, ServiceNumbers
  <2>3. svc[r].state.session = s => NotBefore(svc[r].state, e)
    BY DEF SessionsInv, ServiceInv, Past, NotBefore
  <2>4. \A a \in active' : a.session = s => \A x \in a.last : NotBefore(x, e)
    BY <2>1, <2>3 DEF Past
  <2>5. QED
    BY <2>1, <2>2, <2>4, PastService DEF Past
<1>7. QED
  BY <1>1, <1>2, <1>3, <1>4, <1>5, <1>6, StepsAre

\* What the bridge sends is not before what somebody saw, and is seen then.
LEMMA NewestAfter ==
  ASSUME TypeOK, SessionsInv, PastInv, NEW chosen \in selected, NEW x \in State,
         Newest(x, chosen)
  PROVE  /\ Past(x.session, x.epoch)
         /\ \A e \in Nat : Past(x.session, e) => NotBefore(x, e)
         /\ \E a \in active : active = {a} /\ x.session = a.session
<1>1. PICK a \in active : IF a.last = None THEN x = svc[chosen.receiver].state ELSE a.last = {x}
  BY DEF Newest
<1>2. chosen.receiver \in Receivers
  BY Lengths
<1>3. active = {a} /\ x.session = a.session
  BY <1>1, NewestSees DEF TypeOK, AtMostOne
<1>4. CASE a.last = None
  <2>1. /\ x = svc[chosen.receiver].state /\ x.session <= sessions /\ x.session # 0
        /\ x.epoch \in {0, svc[chosen.receiver].last} /\ svc[chosen.receiver].last \in Nat
        /\ \A q \in Receivers : svc[q].state.session = x.session => q = chosen.receiver
    BY <1>1, <1>2, <1>4, ServiceNumbers DEF SessionsInv, ServiceInv, ActiveInv
  <2>2. \A e \in Nat : Past(x.session, e) => NotBefore(x, e)
    BY <1>2, <2>1 DEF Past, NotBefore
  <2>3. Past(x.session, x.epoch)
    BY <1>3, <1>4, <2>1 DEF Past, None
  <2>4. QED
    BY <1>3, <2>2, <2>3
<1>5. CASE a.last # None
  <2>1. x \in a.last
    BY <1>1, <1>5
  <2>2. Past(x.session, x.epoch)
    BY <2>1 DEF PastInv
  <2>3. \A e \in Nat : Past(x.session, e) => NotBefore(x, e)
    BY <1>3, <2>1 DEF Past
  <2>4. QED
    BY <1>3, <2>2, <2>3
<1>6. QED
  BY <1>4, <1>5

\* So is the state of a session that was just opened for the bridge.
LEMMA EntryAfter ==
  ASSUME SessionsInv', TypeOK', NEW r \in Receivers, NEW entry, svc'[r] = entry, entry.open,
         \A a \in active' : a.last = None
  PROVE  /\ Past(entry.state.session, entry.state.epoch)'
         /\ \A e \in Nat : Past(entry.state.session, e)' => NotBefore(entry.state, e)
<1>1. /\ entry.state.session <= sessions' /\ entry.state.session # 0
      /\ entry.state.epoch \in {0, entry.last}
      /\ \A q \in Receivers : svc'[q].state.session = entry.state.session => q = r
  BY DEF SessionsInv, ServiceInv
<1>2. svc'[r] \in Session
  BY DEF TypeOK
<1>3. entry.last \in Nat
  BY <1>2 DEF Session
<1>4. \A a \in active' : a.last = {}
  BY DEF None
<1>5. QED
  BY <1>1, <1>3, <1>4 DEF Past, NotBefore

-----------------------------------------------------------------------------
\* The stream, step by step.

\* A state that arrives is of the session the window shows, if that one is up, and
\* does not go back in it: the window is live then.
LEMMA ArrivalMoves ==
  ASSUME TypeOK, StreamInv, Listens
  PROVE  Moves(win', events', win, events)
<1>1. Arrives
  BY DEF Listens
<1>2. /\ Len(events) \in Nat \ {0} /\ Len(events') = Len(events) - 1
      /\ \A i \in 1 .. Len(events') : events'[i] = events[i + 1]
      /\ win'.subscription = win.subscription
  BY <1>1, ArrivedEvents DEF Arrives
<1>3. CASE IsState(win, events[1])
  <2>1. ArrivesState
    BY <1>3 DEF Listens, ArrivesEnd, ArrivesFailure, ArrivesRead, ArrivesOther,
                IsState, IsRead, ReadKinds, Mine
  <2>2. /\ 0 \in 0 .. Len(events) /\ 1 \in 0 .. Len(events)
        /\ Place(win, events, 0) /\ Place(win, events, 1)
    BY <1>2, <1>3 DEF Place
  <2>3. /\ Follows(win, events, 0, SessionAt(win, events, 1), 1)
        /\ Reached(win, events, 0, events[1].state)
    BY <2>2 DEF StreamInv, Stream
  <2>4. ~EndedIn(win, events, 0, 1)
    BY DEF EndedIn
  <2>5. SessionAt(win, events, 1) = events[1].state.session
    BY DEF SessionAt
  <2>6. win.lifecycle = "Connected" =>
          /\ win.connection.epoch # 0 /\ win.generation = win.connection.epoch
          /\ NotBefore(events[1].state, win.connection.epoch)
    BY <2>3, <2>4, <2>5 DEF StreamInv, Stream, IsLive, Follows, UpAt, Reached, SessionAt, EpochAt
  <2>7. events[1].state.epoch \in Nat /\ win.connection.epoch \in Nat
    BY <1>2, <1>3, StreamTyped DEF Numbers, IsState
  <2>8. /\ win'.connection.session = events[1].state.session
        /\ win'.connection.epoch = events[1].state.epoch
        /\ Followed(win', win, events[1].state.epoch)
    BY <2>1 DEF ArrivesState
  <2>9. IsLive(win') /\ (win'.lifecycle = "Connected" <=> events[1].state.epoch # 0)
    BY <2>6, <2>7, <2>8 DEF Followed, IsLive, NotBefore
  <2>10. QED
    BY <1>2, <1>3, <2>8, <2>9 DEF Moves
<1>4. CASE IsEnd(win, events[1])
  <2>1. ArrivesEnd \/ ArrivesFailure
    BY <1>4 DEF Listens, ArrivesState, ArrivesRead, ArrivesOther, StateAt,
                IsEnd, IsRead, ReadKinds, Mine
  <2>2. win'.connection = win.connection /\ win'.lifecycle # "Connected"
    BY <2>1 DEF ArrivesEnd, ArrivesFailure
  <2>3. QED
    BY <1>2, <1>4, <2>2 DEF Moves, IsState, IsEnd
<1>5. CASE ~IsState(win, events[1]) /\ ~IsEnd(win, events[1])
  <2>1. ArrivesRead \/ ArrivesOther
    BY <1>5 DEF Listens, ArrivesState, ArrivesEnd, ArrivesFailure, StateAt, IsState, IsEnd, Mine
  <2>2. SameShown
    BY <2>1 DEF ArrivesRead, ArrivesOther
  <2>3. QED
    BY <1>2, <1>5, <2>2 DEF Moves, SameShown
<1>6. QED
  BY <1>3, <1>4, <1>5

\* Nothing is told to a window whose selection the bridge has not taken up.
LEMMA NothingTold ==
  ASSUME TypeOK, Numbered, ~Current, NEW i \in 1 .. Len(events)
  PROVE  ~IsState(win, events[i]) /\ ~IsEnd(win, events[i])
<1>1. SUFFICES ASSUME events[i].kind # "Failed", events[i].subscription = win.subscription
               PROVE  FALSE
  BY DEF IsState, IsEnd
<1>2. PICK chosen \in selected : events[i].subscription \in 1 .. chosen.subscription
  BY <1>1 DEF Numbered, EventsNumbered
<1>3. /\ chosen.subscription \in 1 .. win.subscription /\ win.subscription \in Nat
      /\ chosen.subscription # win.subscription
  BY Lengths DEF Numbered, Current
<1>4. QED
  BY <1>1, <1>2, <1>3

LEMMA ListensStream ==
  ASSUME TypeOK, Numbered, StreamInv, Listens
  PROVE  StreamInv'
<1>1. Moves(win', events', win, events) /\ Numbers(win, events)
  BY ArrivalMoves, StreamTyped
<1>2. /\ UNCHANGED <<selected, active, svc, sessions>> /\ win'.subscription = win.subscription
  BY DEF Listens, Arrives, bridge, service
<1>3. /\ Stream(win', events')
      /\ \A s \in Nat : Sends(win, events, s) => Sends(win', events', s)
      /\ \A n \in Nat : Below(win, events, n) => Below(win', events', n)
  BY <1>1, StreamMoved DEF StreamInv
<1>4. ASSUME ~Current'
      PROVE  win'.connection.session = 0 /\ win'.lifecycle # "Connected"
  <2>1. ~Current
    BY <1>2, <1>4 DEF Current
  <2>2. 1 \in 1 .. Len(events)
    BY <1>1 DEF Moves
  <2>3. ~IsState(win, events[1]) /\ ~IsEnd(win, events[1])
    BY <2>1, <2>2, NothingTold
  <2>4. QED
    BY <1>1, <2>1, <2>3 DEF Moves, StreamInv
<1>5. ASSUME NEW chosen \in selected, chosen.subscription = win.subscription
      PROVE  /\ \A a \in active : Sends(win', events', a.session)
             /\ active = None => Below(win', events', NextSession(chosen.receiver))
  <2>1. \A a \in active : a.session \in Nat
    BY ServiceNumbers
  <2>2. NextSession(chosen.receiver) \in Nat
    BY Lengths, ServiceNumbers DEF NextSession
  <2>3. QED
    BY <1>3, <1>5, <2>1, <2>2 DEF StreamInv
<1>6. \A r : NextSession(r)' = NextSession(r)
  BY <1>2 DEF NextSession
<1>7. QED
  BY <1>2, <1>3, <1>4, <1>5, <1>6 DEF StreamInv

LEMMA WindowStream ==
  ASSUME TypeOK, Numbered, StreamInv, Quiet \/ Reselect
  PROVE  StreamInv'
<1>1. UNCHANGED <<events, selected, active, svc, sessions>>
  BY DEF Quiet, Reselect, bridge, service
<1>2. \A r : NextSession(r)' = NextSession(r)
  BY <1>1 DEF NextSession
<1>3. CASE Quiet
  <2>1. /\ win'.subscription = win.subscription /\ win'.connection = win.connection
        /\ win'.generation = win.generation
        /\ \/ win'.lifecycle = win.lifecycle
           \/ win'.lifecycle = "Connecting" /\ win.lifecycle = "Disconnected"
    BY <1>3 DEF Quiet
  <2>2. /\ Stream(win, events) => Stream(win', events)
        /\ \A s : Sends(win, events, s) => Sends(win', events, s)
        /\ \A n : Below(win, events, n) => Below(win', events, n)
    BY <2>1, SameStream
  <2>3. Current' <=> Current
    BY <1>1, <2>1 DEF Current
  <2>4. QED
    BY <1>1, <1>2, <2>1, <2>2, <2>3 DEF StreamInv
<1>4. CASE Reselect
  <2>1. /\ win'.subscription = win.requests + 1 /\ win'.connection.session = 0
        /\ win'.lifecycle = "Selected"
    BY <1>4 DEF Reselect, Unconnected
  <2>2. /\ win.requests \in Nat /\ win.subscription \in Nat /\ win.subscription <= win.requests
        /\ \A chosen \in selected : chosen.subscription \in 1 .. win.subscription
    BY Lengths DEF Numbered
  <2>3. \A chosen \in selected : chosen.subscription # win'.subscription
    BY <2>1, <2>2
  <2>4. ASSUME NEW i \in 1 .. Len(events), IsState(win', events[i]) PROVE FALSE
    <3>1. events[i].kind # "Failed" /\ events[i].subscription = win.requests + 1
      BY <2>1, <2>4 DEF IsState
    <3>2. PICK chosen \in selected : events[i].subscription \in 1 .. chosen.subscription
      BY <3>1 DEF Numbered, EventsNumbered
    <3>3. QED
      BY <2>2, <3>1, <3>2
  <2>5. \A i \in 0 .. Len(events) : Place(win', events, i) => i = 0
    BY <2>4 DEF Place
  <2>6. Stream(win', events)
    BY <2>1, <2>5 DEF Stream
  <2>7. QED
    BY <1>1, <2>1, <2>3, <2>6 DEF StreamInv
<1>5. QED
  BY <1>3, <1>4

\* The number of a receiver's next session only grows.
LEMMA NextGrows ==
  ASSUME TypeOK, SessionsInv, NEW r \in Receivers, NEW entry \in Session, Entered(r, entry),
         NEW q \in Receivers
  PROVE  /\ NextSession(q) \in Nat /\ NextSession(q)' \in Nat
         /\ NextSession(q) <= NextSession(q)'
<1>1. sessions <= sessions' /\ svc'[r] = entry /\ \A x \in Receivers \ {r} : svc'[x] = svc[x]
  BY EnteredService DEF SessionsInv
<1>2. /\ sessions \in Nat /\ sessions' \in Nat /\ entry.state.session \in Nat
      /\ svc[q].state.session \in Nat /\ svc[q].state.session <= sessions
      /\ svc[r].state.session \in Nat /\ svc[r].state.session <= sessions
  BY ServiceNumbers DEF Entered, Session, State, SessionsInv, ServiceInv
<1>3. CASE q = r
  <2>1. svc'[q] = entry /\ svc[q] = svc[r]
    BY <1>1, <1>3
  <2>2. CASE sessions' = sessions /\ svc[r].open /\ entry.state.session = svc[r].state.session
    <3>1. NextSession(q) = svc[r].state.session
      BY <2>1, <2>2 DEF NextSession
    <3>2. NextSession(q)' \in {svc[r].state.session, sessions + 1}
      BY <2>1, <2>2 DEF NextSession
    <3>3. QED
      BY <1>2, <3>1, <3>2
  <2>3. CASE sessions' = sessions + 1 /\ ~svc[r].open /\ entry.state.session = sessions + 1
    <3>1. NextSession(q) = sessions + 1
      BY <2>1, <2>3 DEF NextSession
    <3>2. NextSession(q)' \in {sessions + 1, sessions' + 1}
      BY <2>1, <2>3 DEF NextSession
    <3>3. QED
      BY <1>1, <1>2, <3>1, <3>2
  <2>4. QED
    BY <2>2, <2>3 DEF Entered
<1>4. CASE q # r
  <2>1. svc'[q] = svc[q]
    BY <1>1, <1>4
  <2>2. CASE svc[q].open
    <3>1. NextSession(q) = svc[q].state.session /\ NextSession(q)' = svc[q].state.session
      BY <2>1, <2>2 DEF NextSession
    <3>2. QED
      BY <1>2, <3>1
  <2>3. CASE ~svc[q].open
    <3>1. NextSession(q) = sessions + 1 /\ NextSession(q)' = sessions' + 1
      BY <2>1, <2>3 DEF NextSession
    <3>2. sessions' = sessions \/ sessions' = sessions + 1
      BY DEF Entered
    <3>3. NextSession(q)' = sessions + 1 \/ NextSession(q)' = (sessions + 1) + 1
      BY <3>1, <3>2
    <3>4. NextSession(q) = sessions + 1 /\ sessions \in Nat
      BY <1>2, <3>1
    <3>5. QED
      BY <3>3, <3>4
  <2>4. QED
    BY <2>2, <2>3
<1>5. QED
  BY <1>3, <1>4

LEMMA ServiceStream ==
  ASSUME TypeOK, SessionsInv, StreamInv, Publishes \/ Ends \/ TakesEffect
  PROVE  StreamInv'
<1>1. UNCHANGED <<win, selected, events>>
  BY DEF Publishes, Ends, TakesEffect, bridge
<1>2. \E r \in Receivers, entry \in Session : Entered(r, entry)
  BY PublishesEnter, EndsEnter, TakesEffectEnter DEF SessionsInv
<1>3. /\ \A a \in active' : \E b \in active : a.session = b.session
      /\ active' = None => active = None
  <2>1. CASE Publishes \/ TakesEffect
    BY <2>1 DEF Publishes, TakesEffect, bridge
  <2>2. CASE Ends
    <3>1. \A a \in active' : \E b \in active : a.session = b.session
      BY <2>2, EndsEnter DEF SessionsInv
    <3>2. QED
      BY <2>2, <3>1 DEF Ends
  <2>3. QED
    BY <2>1, <2>2
<1>4. Current' <=> Current
  BY <1>1 DEF Current
<1>5. ASSUME NEW chosen \in selected, chosen.subscription = win.subscription
      PROVE  /\ \A a \in active' : Sends(win, events, a.session)
             /\ active' = None => Below(win, events, NextSession(chosen.receiver)')
  <2>1. /\ \A a \in active : Sends(win, events, a.session)
        /\ active = None => Below(win, events, NextSession(chosen.receiver))
    BY <1>5 DEF StreamInv
  <2>2. PICK n \in Nat, m \in Nat :
           n = NextSession(chosen.receiver) /\ m = NextSession(chosen.receiver)' /\ n <= m
    <3>1. chosen.receiver \in Receivers
      BY Lengths
    <3>2. PICK q \in Receivers : q = chosen.receiver
      BY <3>1
    <3>3. NextSession(q) \in Nat /\ NextSession(q)' \in Nat /\ NextSession(q) <= NextSession(q)'
      BY <1>2, NextGrows
    <3>4. QED
      BY <3>2, <3>3
  <2>3. active' = None => Below(win, events, m)
    BY <1>3, <2>1, <2>2, BelowMore, StreamTyped
  <2>4. QED
    BY <1>3, <2>1, <2>2, <2>3
<1>6. QED
  BY <1>1, <1>4, <1>5 DEF StreamInv

\* Only events of others are gained, or such as tell nothing.
LEMMA OthersGained ==
  ASSUME TypeOK, StreamInv, NEW first \in Events, NEW last, NEW n, Gains(first, last, n),
         ~IsState(win, last), ~IsEnd(win, last),
         n = 2 => ~IsState(win, first) /\ ~IsEnd(win, first)
  PROVE  /\ Stream(win, events')
         /\ \A s \in Nat : Sends(win, events, s) => Sends(win, events', s)
         /\ \A m \in Nat : Below(win, events, m) => Below(win, events', m)
<1>1. Numbers(win, events) /\ Stream(win, events)
  BY StreamTyped DEF StreamInv
<1>2. n \in {1, 2}
  BY DEF Gains
<1>3. CASE n = 1
  <2>1. Plus(events', events, last)
    BY <1>3, GainedOne
  <2>2. QED
    BY <1>1, <2>1, StreamPlus, OtherPlus
<1>4. CASE n = 2
  <2>1. PICK mid : Plus(mid, events, first) /\ Plus(events', mid, last) /\ Numbers(win, mid)
    BY <1>4, GainedTwo
  <2>2. /\ Stream(win, mid)
        /\ \A s \in Nat : Sends(win, events, s) => Sends(win, mid, s)
        /\ \A m \in Nat : Below(win, events, m) => Below(win, mid, m)
    BY <1>1, <1>4, <2>1, StreamPlus, OtherPlus
  <2>3. /\ Stream(win, events')
        /\ \A s \in Nat : Sends(win, mid, s) => Sends(win, events', s)
        /\ \A m \in Nat : Below(win, mid, m) => Below(win, events', m)
    BY <2>1, <2>2, StreamPlus, OtherPlus
  <2>4. QED
    BY <2>2, <2>3
<1>5. QED
  BY <1>2, <1>3, <1>4

\* A subscription for the selection the window shows.
LEMMA SubscribedStream ==
  ASSUME TypeOK, SessionsInv, StreamInv, NEW chosen \in Chosen, NEW n \in {1, 2},
         Fails(chosen, n) \/ Opens(chosen, n), win' = win, selected' = {chosen},
         chosen.subscription = win.subscription,
         NEW next \in Nat, next = NextSession(chosen.receiver),
         IF n = 1 THEN Below(win, events, next)
         ELSE \E s \in Nat : s < next /\ Sends(win, events, s)
  PROVE  StreamInv'
<1>1. Numbers(win, events) /\ Stream(win, events)
  BY StreamTyped DEF StreamInv
<1>2. chosen.receiver \in Receivers /\ chosen.subscription \in Nat
  BY DEF Chosen
<1>3. Current'
  BY DEF Current
<1> DEFINE ended == Event("SessionEnded", chosen.subscription)
<1>4. ended \in Events /\ IsEnd(win, ended)
  BY <1>2, PlainTyped DEF IsEnd
<1> HIDE DEF ended
<1>5. ASSUME NEW last, Gains(ended, last, n),
             IsEnd(win, last) \/ (IsState(win, last) /\ last.state.session = next)
      PROVE  /\ Stream(win, events')
             /\ IsEnd(win, last) => Below(win, events', next)
             /\ IsState(win, last) => Sends(win, events', next)
  <2>1. CASE n = 1
    <3>1. Below(win, events, next) /\ Plus(events', events, last)
      BY <1>5, <2>1, GainedOne
    <3>2. QED
      BY <1>1, <1>5, <3>1, SubscribeStream
  <2>2. CASE n = 2
    <3>1. \E mid : Plus(mid, events, ended) /\ Plus(events', mid, last) /\ Numbers(win, mid)
      BY <1>4, <1>5, <2>2, GainedTwo
    <3>2. \E s \in Nat : s < next /\ Sends(win, events, s)
      BY <2>2
    <3>3. \E mid, first : /\ Plus(mid, events, first) /\ Plus(events', mid, last)
                          /\ Numbers(win, mid) /\ IsEnd(win, first)
                          /\ \E s \in Nat : s < next /\ Sends(win, events, s)
      BY <1>4, <3>1, <3>2
    <3>4. QED
      BY <1>1, <1>5, <3>3, SubscribeStream
  <2>3. QED
    BY <2>1, <2>2
<1>6. CASE Fails(chosen, n)
  <2> DEFINE last == Event("ConnectFailed", chosen.subscription)
  <2>1. IsEnd(win, last)
    BY <1>2, PlainTyped DEF IsEnd
  <2>2. Gains(ended, last, n) /\ active' = None /\ UNCHANGED <<svc, sessions>>
    BY <1>6 DEF Fails, ended
  <2> HIDE DEF last
  <2>3. Stream(win, events') /\ Below(win, events', next)
    BY <1>5, <2>1, <2>2
  <2>4. NextSession(chosen.receiver)' = next
    BY <2>2 DEF NextSession
  <2>5. QED
    BY <1>3, <2>2, <2>3, <2>4 DEF StreamInv, None
<1>7. CASE Opens(chosen, n)
  <2>1. PICK entry \in Session :
           /\ Entered(chosen.receiver, entry)
           /\ Gains(ended, StateEvent(chosen, entry.state), n)
           /\ active' = {[session |-> entry.state.session, last |-> None]}
    BY <1>7, OpensEnter DEF SessionsInv, ended
  <2>2. entry.state.session = next
    BY <2>1 DEF Entered, NextSession
  <2> DEFINE last == StateEvent(chosen, entry.state)
  <2>3. IsState(win, last) /\ last.state.session = next
    BY <2>2, StateTyped DEF IsState, Session
  <2>4. Gains(ended, last, n)
    BY <2>1
  <2> HIDE DEF last
  <2>5. Stream(win, events') /\ Sends(win, events', next)
    BY <1>5, <2>3, <2>4
  <2>6. active' # None /\ \A a \in active' : a.session = next
    BY <2>1, <2>2 DEF None
  <2>7. QED
    BY <1>3, <2>5, <2>6 DEF StreamInv
<1>8. QED
  BY <1>6, <1>7

\* A subscription for another one.
LEMMA OtherSubscribed ==
  ASSUME TypeOK, Numbered, SessionsInv, StreamInv, NEW chosen \in Chosen, NEW n \in {1, 2},
         Fails(chosen, n) \/ Opens(chosen, n), win' = win, selected' = {chosen},
         chosen.subscription # win.subscription, ~Current
  PROVE  StreamInv'
<1>1. ~Current'
  BY DEF Current
<1>2. Event("SessionEnded", chosen.subscription) \in Events
  BY PlainTyped DEF Chosen
<1>3. \E first \in Events : \E last :
         /\ Gains(first, last, n)
         /\ \A e \in {first, last} : ~IsState(win, e) /\ ~IsEnd(win, e)
  <2>1. CASE Fails(chosen, n)
    <3>1. /\ \A e \in {Event("SessionEnded", chosen.subscription),
                       Event("ConnectFailed", chosen.subscription)} :
               ~IsState(win, e) /\ ~IsEnd(win, e)
      BY PlainTyped DEF Chosen, IsState, IsEnd
    <3>2. QED
      BY <1>2, <2>1, <3>1 DEF Fails
  <2>2. CASE Opens(chosen, n)
    <3>1. PICK entry \in Session :
            Gains(Event("SessionEnded", chosen.subscription), StateEvent(chosen, entry.state), n)
      BY <2>2 DEF Opens
    <3>2. /\ \A e \in {Event("SessionEnded", chosen.subscription),
                       StateEvent(chosen, entry.state)} :
               ~IsState(win, e) /\ ~IsEnd(win, e)
      BY PlainTyped, StateTyped DEF Chosen, IsState, IsEnd, Session
    <3>3. QED
      BY <1>2, <3>1, <3>2
  <2>3. QED
    BY <2>1, <2>2
<1>4. Stream(win, events')
  BY <1>3, OthersGained
<1>5. QED
  BY <1>1, <1>4 DEF StreamInv

LEMMA SelectsStream ==
  ASSUME TypeOK, Numbered, SessionsInv, StreamInv, Selects
  PROVE  StreamInv'
<1>1. PICK chosen \in Chosen :
        /\ chosen.subscription = commands[1].id /\ selected' = {chosen}
        /\ Fails(chosen, 1) \/ Opens(chosen, 1)
  BY DEF Selects
<1>2. win' = win /\ 1 \in 1 .. Len(commands) /\ IsSelect(1)
  BY DEF Selects, Taken, IsSelect
<1>3. ~Current
  <2>1. /\ commands[1].id \in 1 .. win.subscription
        /\ \A x \in selected : x.subscription < commands[1].id
    BY <1>2 DEF Numbered, SelectsNumbered
  <2>2. QED
    BY <2>1, Lengths DEF Current
<1>4. CASE chosen.subscription = win.subscription
  <2>1. NextSession(chosen.receiver) \in Nat \ {0}
    <3>1. chosen.receiver \in Receivers
      BY DEF Chosen
    <3>2. QED
      BY <3>1, ServiceNumbers DEF NextSession, SessionsInv, ServiceInv
  <2>2. \A i \in 0 .. Len(events) : Place(win, events, i) => i = 0
    BY <1>3, NothingTold DEF Place
  <2>3. Below(win, events, NextSession(chosen.receiver))
    BY <1>3, <2>1, <2>2 DEF Below, StreamInv, SessionAt, UpAt
  <2>4. QED
    BY <1>1, <1>2, <1>4, <2>1, <2>3, SubscribedStream
<1>5. CASE chosen.subscription # win.subscription
  BY <1>1, <1>2, <1>3, <1>5, OtherSubscribed
<1>6. QED
  BY <1>4, <1>5

LEMMA ResubscribesStream ==
  ASSUME TypeOK, Numbered, SessionsInv, StreamInv, Resubscribes
  PROVE  StreamInv'
<1>1. PICK chosen \in selected, n \in {1, 2} :
        /\ IF n = 2 THEN \E a \in active : a.last # None ELSE active = None
        /\ Fails(chosen, n) \/ Opens(chosen, n)
  BY DEF Resubscribes
<1>2. win' = win /\ selected' = {chosen} /\ chosen \in Chosen /\ selected = {chosen}
  BY OnlySelected DEF Resubscribes
<1>3. CASE chosen.subscription = win.subscription
  <2>1. chosen.receiver \in Receivers
    BY <1>2 DEF Chosen
  <2>2. PICK next \in Nat : next = NextSession(chosen.receiver)
    BY <2>1, ServiceNumbers DEF NextSession
  <2>3. CASE n = 1
    <3>1. Below(win, events, next)
      BY <1>1, <1>3, <2>2, <2>3 DEF StreamInv
    <3>2. QED
      BY <1>1, <1>2, <1>3, <2>2, <2>3, <3>1, SubscribedStream
  <2>4. CASE n = 2
    <3>1. PICK a \in active : a.last # None
      BY <1>1, <2>4
    <3>2. a.session \in Nat /\ Sends(win, events, a.session)
      BY <1>3, ServiceNumbers DEF StreamInv
    <3>3. /\ svc[chosen.receiver].state.session \in Nat /\ sessions \in Nat
          /\ a.session <= svc[chosen.receiver].state.session /\ a.session <= sessions
          /\ svc[chosen.receiver].open => svc[chosen.receiver].state.session # a.session
      <4>1. PICK x : x \in a.last
        BY <3>1 DEF None
      <4>2. QED
        BY <2>1, <4>1, ServiceNumbers DEF SessionsInv, ActiveInv
    <3>4. a.session < next
      <4>1. CASE svc[chosen.receiver].open
        BY <2>2, <3>2, <3>3, <4>1 DEF NextSession
      <4>2. CASE ~svc[chosen.receiver].open
        BY <2>2, <3>2, <3>3, <4>2 DEF NextSession
      <4>3. QED
        BY <4>1, <4>2
    <3>5. QED
      BY <1>1, <1>2, <1>3, <2>2, <2>4, <3>2, <3>4, SubscribedStream
  <2>5. QED
    BY <2>3, <2>4
<1>4. CASE chosen.subscription # win.subscription
  <2>1. ~Current
    BY <1>2, <1>4 DEF Current
  <2>2. QED
    BY <1>1, <1>2, <1>4, <2>1, OtherSubscribed
<1>5. QED
  BY <1>3, <1>4

\* The bridge goes on with its subscription.
LEMMA StreamOn ==
  ASSUME StreamInv, win' = win, UNCHANGED <<selected, active, svc, sessions>>,
         Stream(win, events'),
         \A a \in active : Sends(win, events, a.session) => Sends(win, events', a.session),
         active = None => \A r \in Receivers : Below(win, events, NextSession(r)) =>
                                                 Below(win, events', NextSession(r)),
         \A chosen \in selected : chosen.receiver \in Receivers
  PROVE  StreamInv'
<1>1. (Current' <=> Current) /\ \A r : NextSession(r)' = NextSession(r)
  BY DEF Current, NextSession
<1>2. QED
  BY <1>1 DEF StreamInv

LEMMA OthersStream ==
  ASSUME TypeOK, StreamInv, NEW first \in Events, NEW last, NEW n, Gains(first, last, n),
         ~IsState(win, last), ~IsEnd(win, last),
         n = 2 => ~IsState(win, first) /\ ~IsEnd(win, first),
         win' = win, UNCHANGED <<selected, active, svc, sessions>>
  PROVE  StreamInv'
<1>1. /\ Stream(win, events')
      /\ \A s \in Nat : Sends(win, events, s) => Sends(win, events', s)
      /\ \A m \in Nat : Below(win, events, m) => Below(win, events', m)
  BY OthersGained
<1>2. \A r \in Receivers : NextSession(r) \in Nat
  BY ServiceNumbers DEF NextSession
<1>3. QED
  BY <1>1, <1>2, ServiceNumbers, Lengths, StreamOn

\* It sends its newest state: nobody saw a later one.
LEMMA NewestSent ==
  ASSUME TypeOK, SessionsInv, StreamInv, PastInv, NEW chosen \in selected, NEW x \in State,
         Newest(x, chosen), NEW p, Plus(p, events, StateEvent(chosen, x))
  PROVE  /\ active # None /\ Stream(win, p)
         /\ \A a \in active : Sends(win, events, a.session) => Sends(win, p, a.session)
<1> DEFINE e == StateEvent(chosen, x)
<1>1. /\ Numbers(win, events) /\ Stream(win, events)
      /\ chosen \in Chosen /\ selected = {chosen}
  BY StreamTyped, OnlySelected DEF StreamInv
<1>2. PICK a \in active : active = {a} /\ x.session = a.session
  BY NewestAfter
<1>3. /\ e.state = x /\ ~IsEnd(win, e) /\ x.session \in Nat
      /\ IsState(win, e) => chosen.subscription = win.subscription
  BY <1>1, StateTyped DEF IsState, IsEnd, State
<1> HIDE DEF e
<1>4. Plus(p, events, e)
  BY DEF e
<1>5. CASE IsState(win, e)
  <2>1. Sends(win, events, e.state.session)
    BY <1>2, <1>3, <1>5 DEF StreamInv
  <2>2. \A i \in 0 .. Len(events) : Place(win, events, i) => Reached(win, events, i, e.state)
    <3>1. SUFFICES ASSUME NEW i \in 0 .. Len(events), Place(win, events, i),
                          SessionAt(win, events, i) = x.session
                   PROVE  NotBefore(x, EpochAt(win, events, i))
      BY <1>3 DEF Reached
    <3>2. Past(x.session, EpochAt(win, events, i)) /\ EpochAt(win, events, i) \in Nat
      BY <1>1, <3>1, PlacesTyped DEF PastInv
    <3>3. QED
      BY <3>2, NewestAfter
  <2>3. Stream(win, p)
    BY <1>1, <1>4, <2>1, <2>2, StreamPlus
  <2>4. Sends(win, p, e.state.session)
    BY <1>1, <1>3, <1>4, <1>5, <2>1, StatePlus
  <2>5. QED
    BY <1>2, <1>3, <2>3, <2>4 DEF None
<1>6. CASE ~IsState(win, e)
  <2>1. Stream(win, p)
    BY <1>1, <1>4, <1>6, StreamPlus
  <2>2. \A s \in Nat : Sends(win, events, s) => Sends(win, p, s)
    BY <1>1, <1>3, <1>4, <1>6, OtherPlus
  <2>3. QED
    BY <1>2, <1>3, <2>1, <2>2 DEF None
<1>7. QED
  BY <1>5, <1>6

LEMMA BridgeStream ==
  ASSUME TypeOK, Numbered, SessionsInv, StreamInv, PastInv, Dispatches \/ Forwards \/ Finishes
  PROVE  StreamInv'
<1>1. win' = win /\ UNCHANGED <<selected, active, svc, sessions>>
  BY DEF Dispatches, Forwards, Finishes, bridge
<1>2. \A chosen \in selected : chosen.receiver \in Receivers
  BY Lengths
<1>3. CASE Dispatches
  <2>1. CASE events' = events
    BY <1>1, <2>1 DEF StreamInv, Current, NextSession
  <2>2. CASE Gains(Event("Failed", 0), Event("Failed", 0), 1)
    <3>1. /\ Event("Failed", 0) \in Events
          /\ ~IsState(win, Event("Failed", 0)) /\ ~IsEnd(win, Event("Failed", 0))
      BY PlainTyped DEF IsState, IsEnd
    <3>2. QED
      BY <1>1, <2>2, <3>1, OthersStream
  <2>3. CASE \E event \in ConflictEvent : Gains(event, event, 1)
    <3>1. PICK event \in ConflictEvent : Gains(event, event, 1)
      BY <2>3
    <3>2. event \in Events /\ ~IsState(win, event) /\ ~IsEnd(win, event)
      BY DEF Events, ConflictEvent, IsState, IsEnd
    <3>3. QED
      BY <1>1, <3>1, <3>2, OthersStream
  <2>4. QED
    BY <1>3, <2>1, <2>2, <2>3 DEF Dispatches
<1>4. CASE Forwards
  <2>1. PICK chosen \in selected, x \in State :
          /\ Newest(x, chosen)
          /\ Gains(StateEvent(chosen, x), StateEvent(chosen, x), 1)
    BY <1>4 DEF Forwards
  <2>2. Plus(events', events, StateEvent(chosen, x))
    BY <2>1, GainedOne
  <2>3. /\ active # None /\ Stream(win, events')
        /\ \A a \in active : Sends(win, events, a.session) => Sends(win, events', a.session)
    BY <2>1, <2>2, NewestSent
  <2>4. QED
    BY <1>1, <1>2, <2>3, StreamOn
<1>5. CASE Finishes
  <2>1. PICK task \in tasks, event \in Events, first \in Events, n \in {1, 2} :
          /\ Answers(event, task) /\ Gains(first, event, n)
          /\ n = 2 => \E chosen \in selected, x \in State :
                        Newest(x, chosen) /\ first = StateEvent(chosen, x)
    BY <1>5 DEF Finishes
  <2>2. ~IsState(win, event) /\ ~IsEnd(win, event)
    <3>1. task.kind \in {"Refresh", "Control"} \cup ReadKinds
      BY DEF TypeOK, Tasks, RefreshTask, ControlTask, ReadTask
    <3>2. event.kind \in {"Refreshed", "Failed", "Control"} \cup ReadKinds
      BY <2>1, <3>1 DEF Answers, IsRead
    <3>3. QED
      BY <3>2 DEF IsState, IsEnd, ReadKinds
  <2>3. CASE n = 1
    BY <1>1, <2>1, <2>2, <2>3, OthersStream
  <2>4. CASE n = 2
    <3>1. PICK chosen \in selected, x \in State :
            Newest(x, chosen) /\ first = StateEvent(chosen, x)
      BY <2>1, <2>4
    <3>2. PICK mid : Plus(mid, events, first) /\ Plus(events', mid, event) /\ Numbers(win, mid)
      BY <2>1, <2>4, GainedTwo
    <3>3. /\ active # None /\ Stream(win, mid)
          /\ \A a \in active : Sends(win, events, a.session) => Sends(win, mid, a.session)
      BY <3>1, <3>2, NewestSent
    <3>4. /\ Stream(win, events')
          /\ \A s \in Nat : Sends(win, mid, s) => Sends(win, events', s)
      BY <2>2, <3>2, <3>3, StreamPlus, OtherPlus
    <3>5. \A a \in active : Sends(win, events, a.session) => Sends(win, events', a.session)
      BY <3>3, <3>4, ServiceNumbers
    <3>6. QED
      BY <1>1, <1>2, <3>3, <3>4, <3>5, StreamOn
  <2>5. QED
    BY <2>3, <2>4
<1>6. QED
  BY <1>3, <1>4, <1>5

LEMMA StreamKept ==
  ASSUME TypeOK, Numbered, SessionsInv, StreamInv, PastInv, Next
  PROVE  StreamInv'
BY StepsAre, WindowStream, ListensStream, SelectsStream, ResubscribesStream, BridgeStream,
   ServiceStream

-----------------------------------------------------------------------------
\* Where the reads under way come from.

LEMMA ReadAskedBefore ==
  ASSUME TypeOK, UNCHANGED commands \/ Taken, NEW p, NEW g, ReadAsked(p, g)'
  PROVE  ReadAsked(p, g)
<1>1. CASE UNCHANGED commands
  BY <1>1 DEF ReadAsked, NoSelectFrom, IsSelect
<1>2. CASE Taken
  <2>1. /\ Len(commands) \in Nat \ {0} /\ Len(commands') = Len(commands) - 1
        /\ \A i \in 1 .. Len(commands') : commands'[i] = commands[i + 1]
    BY <1>2 DEF Taken
  <2>2. PICK i \in 1 .. Len(commands') : ReadOf(commands'[i], p, g) /\ NoSelectFrom(i)'
    BY DEF ReadAsked
  <2>3. PICK k \in 1 .. Len(commands) : k = i + 1 /\ ReadOf(commands[k], p, g)
    BY <2>1, <2>2
  <2>4. ASSUME NEW j \in k .. Len(commands) PROVE ~IsSelect(j)
    <3>1. PICK m \in i .. Len(commands') : m = j - 1 /\ m \in 1 .. Len(commands') /\ m + 1 = j
      BY <2>1, <2>3, <2>4
    <3>2. QED
      BY <2>1, <2>2, <3>1 DEF NoSelectFrom, IsSelect
  <2>5. QED
    BY <2>3, <2>4 DEF ReadAsked, NoSelectFrom
<1>3. QED
  BY <1>1, <1>2

LEMMA ReadAskedNow ==
  ASSUME TypeOK, NEW s, Asked(s), NEW p, NEW g, ReadAsked(p, g)'
  PROVE  ReadAsked(p, g) \/ (p = win'.connection /\ g = win'.generation)
<1>1. /\ Len(commands) \in Nat /\ Len(s) \in Nat /\ Len(commands') = Len(commands) + Len(s)
      /\ \A i \in 1 .. Len(commands) : commands'[i] = commands[i]
      /\ \A i \in 1 .. Len(s) : commands'[Len(commands) + i] = s[i]
  BY AskedAfter, Lengths
<1>2. PICK i \in 1 .. Len(commands') : ReadOf(commands'[i], p, g) /\ NoSelectFrom(i)'
  BY DEF ReadAsked
<1>3. CASE i \in 1 .. Len(commands)
  <2>1. \A j \in i .. Len(commands) : j \in i .. Len(commands') /\ commands'[j] = commands[j]
    BY <1>1, <1>3
  <2>2. NoSelectFrom(i)
    BY <1>2, <2>1 DEF NoSelectFrom, IsSelect
  <2>3. QED
    BY <1>1, <1>2, <1>3, <2>2 DEF ReadAsked
<1>4. CASE i \notin 1 .. Len(commands)
  <2>1. PICK k \in 1 .. Len(s) : i = Len(commands) + k
    <3>1. i - Len(commands) \in 1 .. Len(s)
      BY <1>1, <1>2, <1>4
    <3>2. i = Len(commands) + (i - Len(commands))
      BY <1>1, <1>2
    <3>3. QED
      BY <3>1, <3>2
  <2>2. commands'[i] = s[k]
    BY <1>1, <2>1
  <2>3. QED
    BY <1>2, <2>2 DEF ReadOf, Asked
<1>5. QED
  BY <1>3, <1>4

LEMMA ReadGained ==
  ASSUME TypeOK, win' = win, NEW first, NEW last, NEW n, Gains(first, last, n),
         n = 2 => ~IsRead(first), NEW p, NEW g, ReadAnswered(p, g)'
  PROVE  ReadAnswered(p, g) \/ (ReadOf(last, p, g) /\ last.subscription = win.subscription)
<1>1. PICK i \in 1 .. Len(events') : /\ ReadOf(events'[i], p, g)
                                     /\ events'[i].subscription = win.subscription
  BY DEF ReadAnswered, Mine
<1>2. \/ i \in 1 .. Len(events) /\ events'[i] = events[i]
      \/ i = Len(events') /\ events'[i] = last
      \/ n = 2 /\ i = Len(events) + 1 /\ events'[i] = first
  BY Gained
<1>3. QED
  BY <1>1, <1>2 DEF ReadAnswered, Mine, ReadOf

\* The window leaves reads for the connection it shows.
LEMMA ReadsLeft ==
  ASSUME TypeOK, Quiet \/ Listens, NEW p, NEW g, ReadComes(p, g)'
  PROVE  ReadComes(p, g) \/ (p = win'.connection /\ g = win'.generation)
<1>1. /\ win'.subscription = win.subscription /\ tasks' = tasks /\ \E s : Asked(s)
  BY DEF Quiet, Listens, Arrives
<1>2. ReadRuns(p, g)' => ReadRuns(p, g)
  BY <1>1 DEF ReadRuns
<1>3. ASSUME ReadAnswered(p, g)' PROVE ReadAnswered(p, g)
  <2>1. PICK i \in 1 .. Len(events') : /\ ReadOf(events'[i], p, g)
                                       /\ events'[i].subscription = win.subscription
    BY <1>1, <1>3 DEF ReadAnswered, Mine
  <2>2. \E k \in 1 .. Len(events) : events'[i] = events[k]
    <3>1. CASE Quiet
      BY <2>1, <3>1 DEF Quiet
    <3>2. CASE Listens
      <4>1. /\ Len(events) \in Nat \ {0} /\ Len(events') = Len(events) - 1
            /\ events'[i] = events[i + 1]
        BY <2>1, <3>2, ArrivedEvents DEF Listens
      <4>2. i + 1 \in 1 .. Len(events)
        BY <2>1, <4>1
      <4>3. QED
        BY <4>1, <4>2
    <3>3. QED
      BY <3>1, <3>2
  <2>3. QED
    BY <2>1, <2>2 DEF ReadAnswered, Mine
<1>4. QED
  BY <1>1, <1>2, <1>3, ReadAskedNow DEF ReadComes

\* None is left for a selection that was just made.
LEMMA NoReadComes ==
  ASSUME TypeOK, Numbered, Reselect, NEW p, NEW g
  PROVE  ~ReadComes(p, g)'
<1>1. /\ win'.subscription = win.requests + 1 /\ tasks' = tasks /\ events' = events
      /\ win.requests \in Nat /\ win.subscription \in Nat /\ win.subscription <= win.requests
      /\ \A chosen \in selected : chosen.subscription \in 1 .. win.subscription
  BY Lengths DEF Reselect, Numbered
<1>2. ~ReadAsked(p, g)'
  <2>1. PICK r \in Receivers :
          commands' = Append(commands, [kind |-> "Select", id |-> win.requests + 1, receiver |-> r])
    BY DEF Reselect
  <2>2. commands \in Seq(Command)
    BY DEF TypeOK
  <2>3. /\ Len(commands') = Len(commands) + 1 /\ Len(commands) \in Nat
        /\ commands'[Len(commands) + 1].kind = "Select"
    BY <2>1, <2>2
  <2>4. PICK k \in 1 .. Len(commands') : k = Len(commands') /\ commands'[k].kind = "Select"
    BY <2>3
  <2>5. \A i \in 1 .. Len(commands') : k \in i .. Len(commands')
    BY <2>3, <2>4
  <2>6. QED
    BY <2>4, <2>5 DEF ReadAsked, NoSelectFrom, IsSelect
<1>3. ~ReadRuns(p, g)'
  <2>1. SUFFICES ASSUME NEW task \in tasks, task.subscription = win.requests + 1 PROVE FALSE
    BY <1>1 DEF ReadRuns
  <2>2. PICK chosen \in selected : task.subscription \in 1 .. chosen.subscription
    BY DEF Numbered, TasksNumbered
  <2>3. QED
    BY <1>1, <2>1, <2>2
<1>4. ~ReadAnswered(p, g)'
  <2>1. SUFFICES ASSUME NEW i \in 1 .. Len(events), IsRead(events[i]),
                        events[i].subscription = win.requests + 1
                 PROVE  FALSE
    BY <1>1 DEF ReadAnswered, ReadOf, Mine
  <2>2. PICK chosen \in selected : events[i].subscription \in 1 .. chosen.subscription
    BY <2>1 DEF Numbered, EventsNumbered, IsRead, ReadKinds
  <2>3. QED
    BY <1>1, <2>1, <2>2
<1>5. QED
  BY <1>2, <1>3, <1>4 DEF ReadComes

\* The bridge and the tasks hand them on.
LEMMA ReadsHandedOn ==
  ASSUME TypeOK, Numbered, Selects \/ Resubscribes \/ Dispatches \/ Forwards \/ Finishes
                           \/ Publishes \/ Ends \/ TakesEffect,
         NEW p, NEW g, ReadComes(p, g)'
  PROVE  ReadComes(p, g)
<1>1. win' = win /\ (UNCHANGED commands \/ Taken)
  BY DEF Selects, Resubscribes, Dispatches, Forwards, Finishes, Publishes, Ends, TakesEffect
<1>2. ReadAsked(p, g)' => ReadAsked(p, g)
  BY <1>1, ReadAskedBefore
<1>3. CASE Selects \/ Resubscribes
  <2>1. PICK chosen \in Chosen, n \in {1, 2} : Fails(chosen, n) \/ Opens(chosen, n)
    BY <1>3, OnlySelected DEF Selects, Resubscribes
  <2>2. PICK first, last : /\ Gains(first, last, n) /\ first.kind = "SessionEnded"
                           /\ last.kind \in {"State", "ConnectFailed"}
    BY <2>1, Subscribed
  <2>3. ~IsRead(first) /\ ~IsRead(last)
    BY <2>2 DEF IsRead, ReadKinds
  <2>4. ReadAnswered(p, g)' => ReadAnswered(p, g)
    BY <1>1, <2>2, <2>3, ReadGained DEF ReadOf
  <2>5. tasks' = tasks
    BY <1>3 DEF Selects, Resubscribes
  <2>6. QED
    BY <1>1, <1>2, <2>4, <2>5 DEF ReadComes, ReadRuns
<1>4. CASE Dispatches
  <2>1. CASE tasks' = tasks
    <3>1. \/ \E last : Gains(last, last, 1) /\ ~IsRead(last)
          \/ UNCHANGED events
      BY <1>4, <2>1 DEF Dispatches, Event, IsRead, ReadKinds, ConflictEvent
    <3>2. ReadAnswered(p, g)' => ReadAnswered(p, g)
      <4>1. CASE UNCHANGED events
        BY <1>1, <4>1 DEF ReadAnswered, Mine
      <4>2. CASE \E last : Gains(last, last, 1) /\ ~IsRead(last)
        BY <1>1, <4>2, ReadGained DEF ReadOf
      <4>3. QED
        BY <3>1, <4>1, <4>2
    <3>3. QED
      BY <1>1, <1>2, <2>1, <3>2 DEF ReadComes, ReadRuns
  <2>2. CASE tasks' # tasks
    <3>1. PICK chosen \in selected, task \in Tasks :
            /\ task.subscription = chosen.subscription /\ task.kind = commands[1].kind
            /\ IsRead(task) => /\ task.from = commands[1].from
                               /\ task.generation = commands[1].generation
            /\ tasks' = tasks \cup {task} /\ UNCHANGED events
      BY <1>4, <2>2 DEF Dispatches
    <3>2. 1 \in 1 .. Len(commands)
      BY <1>4 DEF Dispatches, Taken
    <3>3. ASSUME ReadOf(task, p, g), task.subscription = win.subscription
          PROVE  ReadAsked(p, g)
      <4>1. ReadOf(commands[1], p, g)
        BY <3>1, <3>3 DEF ReadOf, IsRead
      <4>2. NoSelectFrom(1)
        <5>1. SUFFICES ASSUME NEW j \in 1 .. Len(commands), IsSelect(j) PROVE FALSE
          BY DEF NoSelectFrom
        <5>2. commands[j].id \in 1 .. win.subscription /\ chosen.subscription < commands[j].id
          BY <5>1 DEF Numbered, SelectsNumbered
        <5>3. chosen.subscription = win.subscription /\ win.subscription \in Nat
          BY <3>1, <3>3, Lengths
        <5>4. QED
          BY <5>2, <5>3
      <4>3. QED
        BY <3>2, <4>1, <4>2 DEF ReadAsked
    <3>4. ReadAnswered(p, g)' => ReadAnswered(p, g)
      BY <1>1, <3>1 DEF ReadAnswered, Mine
    <3>5. ReadRuns(p, g)' => ReadRuns(p, g) \/ ReadAsked(p, g)
      BY <1>1, <3>1, <3>3 DEF ReadRuns
    <3>6. QED
      BY <1>2, <3>4, <3>5 DEF ReadComes
  <2>3. QED
    BY <2>1, <2>2
<1>5. CASE Forwards
  <2>1. PICK chosen \in selected, x \in State :
          Gains(StateEvent(chosen, x), StateEvent(chosen, x), 1)
    BY <1>5 DEF Forwards
  <2>2. ~IsRead(StateEvent(chosen, x))
    BY DEF StateEvent, IsRead, ReadKinds
  <2>3. ReadAnswered(p, g)' => ReadAnswered(p, g)
    BY <1>1, <2>1, <2>2, ReadGained DEF ReadOf
  <2>4. QED
    BY <1>1, <1>2, <1>5, <2>3 DEF ReadComes, ReadRuns, Forwards
<1>6. CASE Finishes
  <2>1. PICK task \in tasks, event \in Events, first \in Events, n \in {1, 2} :
          /\ tasks' = tasks \ {task} /\ Answers(event, task) /\ Gains(first, event, n)
          /\ n = 2 => \E chosen \in selected, x \in State : first = StateEvent(chosen, x)
    BY <1>6 DEF Finishes
  <2>2. n = 2 => ~IsRead(first)
    BY <2>1 DEF StateEvent, IsRead, ReadKinds
  <2>3. ASSUME ReadOf(event, p, g), event.subscription = win.subscription
        PROVE  ReadRuns(p, g)
    <3>1. task.kind \in {"Refresh", "Control"} \cup ReadKinds
      BY DEF TypeOK, Tasks, RefreshTask, ControlTask, ReadTask
    <3>2. IsRead(task)
      BY <2>1, <2>3, <3>1 DEF Answers, ReadOf, IsRead, ReadKinds
    <3>3. ReadOf(task, p, g) /\ task.subscription = win.subscription
      BY <2>1, <2>3, <3>2 DEF Answers, ReadOf
    <3>4. QED
      BY <3>3 DEF ReadRuns
  <2>4. ReadAnswered(p, g)' => ReadAnswered(p, g) \/ ReadRuns(p, g)
    BY <1>1, <2>1, <2>2, <2>3, ReadGained
  <2>5. ReadRuns(p, g)' => ReadRuns(p, g)
    BY <1>1, <2>1 DEF ReadRuns
  <2>6. QED
    BY <1>2, <2>4, <2>5 DEF ReadComes
<1>7. CASE Publishes \/ Ends \/ TakesEffect
  <2>1. events' = events
    BY <1>7 DEF Publishes, Ends, TakesEffect
  <2>2. \A task \in tasks' : IsRead(task) => task \in tasks
    BY <1>7 DEF Publishes, Ends, TakesEffect, IsCompleted, IsRead, ReadKinds
  <2>3. QED
    BY <1>1, <1>2, <2>1, <2>2 DEF ReadComes, ReadRuns, ReadAnswered, Mine, ReadOf
<1>8. QED
  BY <1>3, <1>4, <1>5, <1>6, <1>7

-----------------------------------------------------------------------------
\* Nobody saw what was not there, step by step.

SeenPast == \A i \in 0 .. Len(events) : Place(win, events, i) =>
              Past(SessionAt(win, events, i), EpochAt(win, events, i))

LEMMA PastGained ==
  ASSUME TypeOK, Numbered, SessionsInv, PastInv, Next, win' = win,
         NEW first, NEW last, NEW n, Gains(first, last, n),
         last.kind = "State" => Past(last.state.session, last.state.epoch)',
         n = 2 /\ first.kind = "State" => Past(first.state.session, first.state.epoch)'
  PROVE  SeenPast'
<1>1. SUFFICES ASSUME NEW i \in 0 .. Len(events'), Place(win, events', i), NEW s, NEW e,
                      s = SessionAt(win, events', i), e = EpochAt(win, events', i)
               PROVE  Past(s, e)'
  BY DEF SeenPast, Past
<1>2. Len(events) \in Nat /\ Len(events') \in Nat
  BY Gained
<1>3. \/ i = 0
      \/ i \in 1 .. Len(events) /\ events'[i] = events[i]
      \/ i \in 1 .. Len(events') /\ i # 0 /\ events'[i] = last
      \/ i \in 1 .. Len(events') /\ i # 0 /\ n = 2 /\ events'[i] = first
  <2>1. i # 0 => i \in 1 .. Len(events')
    BY <1>2
  <2>2. QED
    BY <1>2, <2>1, Gained
<1>4. CASE i = 0 \/ (i \in 1 .. Len(events) /\ events'[i] = events[i])
  <2>1. i \in 0 .. Len(events)
    BY <1>2, <1>4
  <2>2. /\ Place(win, events, i) /\ SessionAt(win, events', i) = SessionAt(win, events, i)
        /\ EpochAt(win, events', i) = EpochAt(win, events, i)
    BY <1>1, <1>4 DEF Place, SessionAt, EpochAt
  <2>3. s \in Nat /\ e \in Nat
    BY <1>1, <2>1, <2>2, PlacesTyped, StreamTyped
  <2>4. Past(s, e)
    BY <1>1, <2>1, <2>2 DEF PastInv
  <2>5. QED
    BY <2>3, <2>4, PastKept
<1>5. CASE i # 0 /\ (events'[i] = last \/ (n = 2 /\ events'[i] = first))
  <2>1. events'[i].kind = "State"
    BY <1>1, <1>5 DEF Place, IsState
  <2>2. s = events'[i].state.session /\ e = events'[i].state.epoch
    BY <1>1, <1>5 DEF SessionAt, EpochAt
  <2>3. CASE events'[i] = last
    BY <2>1, <2>2, <2>3
  <2>4. CASE n = 2 /\ events'[i] = first
    BY <2>1, <2>2, <2>4
  <2>5. QED
    BY <1>5, <2>3, <2>4
<1>6. QED
  BY <1>3, <1>4, <1>5

\* What the window shows, or will show, it or another showed before.
LEMMA PastShown ==
  ASSUME TypeOK, Numbered, SessionsInv, StreamInv, PastInv, Next, Quiet \/ Reselect \/ Listens
  PROVE  SeenPast'
<1>1. SUFFICES ASSUME NEW i \in 0 .. Len(events'), Place(win', events', i), NEW s, NEW e,
                      s = SessionAt(win', events', i), e = EpochAt(win', events', i)
               PROVE  Past(s, e)'
  BY DEF SeenPast, Past
<1>2. ASSUME NEW o \in 0 .. Len(events), Place(win, events, o),
             s = SessionAt(win, events, o), e = EpochAt(win, events, o)
      PROVE  Past(s, e)'
  <2>1. s \in Nat /\ e \in Nat
    BY <1>2, PlacesTyped, StreamTyped
  <2>2. Past(s, e)
    BY <1>2 DEF PastInv
  <2>3. QED
    BY <2>1, <2>2, PastKept
<1>3. CASE Quiet
  <2>1. /\ win'.subscription = win.subscription /\ win'.connection = win.connection
        /\ events' = events
    BY <1>3 DEF Quiet
  <2>2. /\ Place(win, events, i) /\ s = SessionAt(win, events, i)
        /\ e = EpochAt(win, events, i) /\ i \in 0 .. Len(events)
    BY <1>1, <2>1 DEF Place, IsState, SessionAt, EpochAt
  <2>3. QED
    BY <1>2, <2>2
<1>4. CASE Listens
  <2>1. Moves(win', events', win, events)
    BY <1>4, ArrivalMoves
  <2>2. PICK o \in 0 .. Len(events) :
          /\ Place(win, events, o) /\ SessionAt(win', events', i) = SessionAt(win, events, o)
          /\ EpochAt(win', events', i) = EpochAt(win, events, o)
    BY <1>1, <2>1, OriginsOf
  <2>3. QED
    BY <1>1, <1>2, <2>2
<1>5. CASE Reselect
  <2>1. /\ win'.subscription = win.requests + 1 /\ events' = events
        /\ win'.connection.session = 0 /\ win'.connection.epoch = 0
        /\ UNCHANGED <<active, svc, sessions>>
    BY <1>5 DEF Reselect, Unconnected, bridge, service
  <2>2. i = 0
    <3>1. SUFFICES ASSUME i \in 1 .. Len(events), events[i].kind = "State",
                          events[i].subscription = win.requests + 1
                   PROVE  FALSE
      BY <1>1, <2>1 DEF Place, IsState
    <3>2. PICK chosen \in selected : events[i].subscription \in 1 .. chosen.subscription
      BY <3>1 DEF Numbered, EventsNumbered
    <3>3. /\ chosen.subscription \in 1 .. win.subscription /\ win.subscription <= win.requests
          /\ win.subscription \in Nat /\ win.requests \in Nat
      BY Lengths DEF Numbered
    <3>4. QED
      BY <3>1, <3>2, <3>3
  <2>3. s = 0 /\ e = 0
    BY <1>1, <2>1, <2>2 DEF SessionAt, EpochAt
  <2>4. /\ \A a \in active : \A x \in a.last : x.epoch \in Nat
        /\ \A r \in Receivers : svc[r].last \in Nat
        /\ sessions \in Nat
    BY ServiceNumbers DEF TypeOK, Active, State
  <2>5. Past(s, e)
    BY <2>3, <2>4 DEF Past, NotBefore
  <2>6. QED
    BY <2>1, <2>5 DEF Past
<1>6. QED
  BY <1>3, <1>4, <1>5

LEMMA PastSent ==
  ASSUME TypeOK, Numbered, SessionsInv, PastInv, Next, TypeOK', SessionsInv',
         Selects \/ Resubscribes \/ Dispatches \/ Forwards \/ Finishes
  PROVE  SeenPast'
<1>1. win' = win
  BY DEF Selects, Resubscribes, Dispatches, Forwards, Finishes
<1>2. ASSUME NEW chosen \in selected, NEW x \in State, Newest(x, chosen)
      PROVE  Past(x.session, x.epoch)'
  <2>1. Past(x.session, x.epoch) /\ x.session \in Nat /\ x.epoch \in Nat
    BY <1>2, NewestAfter DEF State
  <2>2. QED
    BY <2>1, PastKept
<1>3. CASE Selects \/ Resubscribes
  <2>1. PICK chosen \in Chosen, n \in {1, 2} : Fails(chosen, n) \/ Opens(chosen, n)
    BY <1>3, OnlySelected DEF Selects, Resubscribes
  <2> DEFINE ended == Event("SessionEnded", chosen.subscription)
  <2>2. ended.kind # "State" /\ chosen.receiver \in Receivers
    BY DEF Event, Chosen
  <2> HIDE DEF ended
  <2>3. CASE Fails(chosen, n)
    <3>1. Gains(ended, Event("ConnectFailed", chosen.subscription), n)
      BY <2>3 DEF Fails, ended
    <3>2. Event("ConnectFailed", chosen.subscription).kind # "State"
      BY DEF Event
    <3>3. QED
      BY <1>1, <2>2, <3>1, <3>2, PastGained
  <2>4. CASE Opens(chosen, n)
    <3>1. PICK entry \in Session :
             /\ Entered(chosen.receiver, entry) /\ entry.open
             /\ Gains(ended, StateEvent(chosen, entry.state), n)
             /\ active' = {[session |-> entry.state.session, last |-> None]}
      BY <2>4, OpensEnter DEF SessionsInv, ended
    <3>2. svc'[chosen.receiver] = entry
      BY <2>2, <3>1, EnteredService DEF SessionsInv
    <3>3. PICK r \in Receivers : svc'[r] = entry
      BY <2>2, <3>2
    <3>4. \A a \in active' : a.last = None
      BY <3>1
    <3>5. Past(entry.state.session, entry.state.epoch)'
      BY <3>1, <3>3, <3>4, EntryAfter
    <3> DEFINE told == StateEvent(chosen, entry.state)
    <3>6. told.state = entry.state
      BY DEF StateEvent
    <3>7. Gains(ended, told, n)
      BY <3>1
    <3> HIDE DEF told
    <3>8. Past(told.state.session, told.state.epoch)'
      BY <3>5, <3>6
    <3>9. QED
      BY <1>1, <2>2, <3>7, <3>8, PastGained
  <2>5. QED
    BY <2>1, <2>3, <2>4
<1>4. CASE Dispatches
  <2>1. CASE events' = events
    <3>1. UNCHANGED <<active, svc, sessions>>
      BY <1>4 DEF Dispatches, bridge
    <3>2. QED
      BY <1>1, <2>1, <3>1 DEF PastInv, SeenPast, Past
  <2>2. CASE \E last : Gains(last, last, 1) /\ last.kind # "State"
    BY <1>1, <2>2, PastGained
  <2>3. QED
    BY <1>4, <2>1, <2>2 DEF Dispatches, Event, ConflictEvent
<1>5. CASE Forwards
  <2>1. PICK chosen \in selected, x \in State :
          Newest(x, chosen) /\ Gains(StateEvent(chosen, x), StateEvent(chosen, x), 1)
    BY <1>5 DEF Forwards
  <2>2. PICK told : told = StateEvent(chosen, x)
    OBVIOUS
  <2>3. told.state = x /\ Gains(told, told, 1)
    BY <2>1, <2>2 DEF StateEvent
  <2>4. Past(told.state.session, told.state.epoch)'
    BY <1>2, <2>1, <2>3
  <2>5. QED
    BY <1>1, <2>3, <2>4, PastGained
<1>6. CASE Finishes
  <2>1. PICK task \in tasks, event \in Events, first \in Events, n \in {1, 2} :
          /\ Answers(event, task) /\ Gains(first, event, n)
          /\ n = 2 => \E chosen \in selected, x \in State :
                        Newest(x, chosen) /\ first = StateEvent(chosen, x)
    BY <1>6 DEF Finishes
  <2>2. event.kind # "State"
    <3>1. task.kind \in {"Refresh", "Control"} \cup ReadKinds
      BY DEF TypeOK, Tasks, RefreshTask, ControlTask, ReadTask
    <3>2. QED
      BY <2>1, <3>1 DEF Answers, IsRead, ReadKinds
  <2>3. ASSUME n = 2 PROVE Past(first.state.session, first.state.epoch)'
    <3>1. PICK chosen \in selected, x \in State :
            Newest(x, chosen) /\ first = StateEvent(chosen, x)
      BY <2>1, <2>3
    <3>2. first.state = x
      BY <3>1 DEF StateEvent
    <3>3. QED
      BY <1>2, <3>1, <3>2
  <2>4. QED
    BY <1>1, <2>1, <2>2, <2>3, PastGained
<1>7. QED
  BY <1>3, <1>4, <1>5, <1>6

LEMMA PastInvKept ==
  ASSUME TypeOK, Numbered, SessionsInv, StreamInv, PastInv, Next, TypeOK', SessionsInv'
  PROVE  PastInv'
<1>1. SeenPast'
  <2>1. CASE Publishes \/ Ends \/ TakesEffect
    <3>1. win' = win /\ events' = events
      BY <2>1 DEF Publishes, Ends, TakesEffect
    <3>2. SUFFICES ASSUME NEW i \in 0 .. Len(events), Place(win, events, i), NEW s, NEW e,
                          s = SessionAt(win, events, i), e = EpochAt(win, events, i)
                   PROVE  Past(s, e)'
      BY <3>1 DEF SeenPast, Past
    <3>3. s \in Nat /\ e \in Nat
      BY <3>2, PlacesTyped, StreamTyped
    <3>4. Past(s, e)
      BY <3>2 DEF PastInv
    <3>5. QED
      BY <3>3, <3>4, PastKept
  <2>2. QED
    BY <2>1, PastShown, PastSent, StepsAre
<1>2. \A a \in active' : \A x \in a.last : Past(x.session, x.epoch)'
  <2>1. SUFFICES ASSUME NEW a \in active', NEW x \in a.last PROVE Past(x.session, x.epoch)'
    OBVIOUS
  <2>2. ASSUME x \in State, Past(x.session, x.epoch) PROVE Past(x.session, x.epoch)'
    <3>1. x.session \in Nat /\ x.epoch \in Nat
      BY <2>2 DEF State
    <3>2. QED
      BY <2>2, <3>1, PastKept
  <2>3. a \in active => x \in State /\ Past(x.session, x.epoch)
    BY <2>1 DEF TypeOK, Active, PastInv
  <2>4. CASE Selects \/ Resubscribes
    <3>1. PICK chosen \in Chosen, n \in {1, 2} : Fails(chosen, n) \/ Opens(chosen, n)
      BY <2>4, OnlySelected DEF Selects, Resubscribes
    <3>2. a.last = None
      BY <2>1, <3>1, SubscribedTyped
    <3>3. QED
      BY <2>1, <3>2 DEF None
  <2>5. CASE Ends
    <3>1. PICK r \in Receivers :
            /\ svc[r].open
            /\ \/ a \in active
               \/ a.session = svc[r].state.session /\ a.last = {svc[r].state}
      BY <2>1, <2>5, EndsEnter DEF SessionsInv
    <3>2. CASE a.session = svc[r].state.session /\ a.last = {svc[r].state} /\ a \notin active
      <4>1. x = svc[r].state /\ x \in State
        BY <2>1, <3>2, ServiceNumbers
      <4>2. /\ x.session <= sessions /\ x.session # 0
            /\ x.epoch \in {0, svc[r].last} /\ svc[r].last \in Nat
        BY <3>1, <4>1, ServiceNumbers DEF SessionsInv, ServiceInv
      <4>3. \A q \in Receivers : svc[q].state.session = x.session => q = r
        BY <4>1, <4>2 DEF SessionsInv, ServiceInv
      <4>4. \A c \in active : c.session = x.session => c.last = {}
        <5>1. SUFFICES ASSUME NEW c \in active, NEW y \in c.last, c.session = x.session
                       PROVE  FALSE
          OBVIOUS
        <5>2. PICK chosen : chosen \in selected
          BY <5>1 DEF SessionsInv, None
        <5>3. QED
          BY <3>1, <4>1, <5>1, <5>2 DEF SessionsInv, ActiveInv
      <4>5. Past(x.session, x.epoch)
        BY <4>1, <4>2, <4>3, <4>4 DEF Past
      <4>6. QED
        BY <2>2, <4>1, <4>5
    <3>3. QED
      BY <2>2, <2>3, <3>1, <3>2
  <2>6. QED
    BY <2>1, <2>2, <2>3, <2>4, <2>5, StepsAre
       DEF Quiet, Reselect, Listens, Arrives, Dispatches, Forwards, Finishes, Publishes,
           TakesEffect, bridge
<1>3. ASSUME NEW p \in Connection, NEW g \in Nat, ReadComes(p, g)'
      PROVE  Past(p.session, p.epoch)'
  <2>1. p.session \in Nat /\ p.epoch \in Nat
    BY DEF Connection
  <2>2. CASE ReadComes(p, g)
    <3>1. Past(p.session, p.epoch)
      BY <2>2 DEF PastInv
    <3>2. QED
      BY <2>1, <3>1, PastKept
  <2>3. CASE p = win'.connection
    <3>1. Place(win', events', 0) /\ 0 \in 0 .. Len(events')
      BY DEF Place, TypeOK
    <3>2. p.session = SessionAt(win', events', 0) /\ p.epoch = EpochAt(win', events', 0)
      BY <2>3 DEF SessionAt, EpochAt
    <3>3. QED
      BY <1>1, <3>1, <3>2 DEF SeenPast, Past
  <2>4. QED
    BY <1>3, <2>2, <2>3, StepsAre, ReadsLeft, NoReadComes, ReadsHandedOn
<1>4. QED
  BY <1>1, <1>2, <1>3 DEF PastInv, SeenPast

-----------------------------------------------------------------------------
\* The reads are of the connection they were asked for in, step by step.

\* A read that is asked for now.
LEMMA NewReadFits ==
  ASSUME TypeOK', StreamInv', NEW p, NEW g, p = win'.connection, g = win'.generation
  PROVE  (ReadFits(p, g) /\ StatesAfter(p))'
<1>1. win'.connection \in Connection /\ events' \in Seq(Events)
  BY DEF TypeOK, WindowTypes
<1>2. p.session \in Nat /\ p.epoch \in Nat /\ Len(events') \in Nat
  BY <1>1 DEF Connection
<1>3. Stream(win', events')
  BY DEF StreamInv
<1>4. win'.lifecycle = "Connected" => g = p.epoch
  BY <1>3 DEF Stream, IsLive
<1>5. ReadFits(p, g)'
  BY <1>2, <1>4 DEF ReadFits
<1>6. ASSUME NEW j \in 1 .. Len(events'), IsState(win', events'[j]),
             events'[j].state.session = p.session
      PROVE  NotBefore(events'[j].state, p.epoch)
  <2>1. /\ 0 \in 0 .. Len(events') /\ j \in 0 .. Len(events') /\ 0 < j
        /\ Place(win', events', 0) /\ Place(win', events', j)
    BY <1>2, <1>6 DEF Place
  <2>2. Reached(win', events', 0, events'[j].state)
    BY <1>3, <2>1 DEF Stream
  <2>3. QED
    BY <1>6, <2>2 DEF Reached, SessionAt, EpochAt
<1>7. QED
  BY <1>5, <1>6 DEF StatesAfter

\* A state arrives. It is of a later session, or it goes on in the one the window
\* shows, which was live then.
LEMMA StateArrives ==
  ASSUME TypeOK, StreamInv, Listens, ArrivesState, NEW s, NEW e,
         s = events[1].state.session, e = events[1].state.epoch
  PROVE  /\ s \in Nat /\ e \in Nat /\ win.connection.session <= s
         /\ win'.connection.session = s /\ win'.connection.epoch = e
         /\ IsLive(win') /\ (win'.lifecycle = "Connected" <=> e # 0)
         /\ win.connection.session = s => IsLive(win)
<1>1. IsState(win, events[1])
  BY DEF ArrivesState, StateAt, Mine, IsState
<1>2. /\ Len(events) \in Nat \ {0}
      /\ win'.connection.session = s /\ win'.connection.epoch = e
      /\ IsLive(win') /\ (win'.lifecycle = "Connected" <=> e # 0)
  BY <1>1, ArrivalMoves DEF Moves
<1>3. /\ 0 \in 0 .. Len(events) /\ 1 \in 0 .. Len(events) /\ 1 \in 1 .. Len(events)
      /\ Place(win, events, 0) /\ Place(win, events, 1)
  BY <1>1, <1>2 DEF Place
<1>4. Follows(win, events, 0, SessionAt(win, events, 1), 1)
  BY <1>3 DEF StreamInv, Stream
<1>5. SessionAt(win, events, 1) = s /\ SessionAt(win, events, 0) = win.connection.session
  BY DEF SessionAt
<1>6. s \in Nat /\ e \in Nat
  BY <1>1, <1>3, StreamTyped DEF Numbers, IsState
<1>7. QED
  BY <1>2, <1>4, <1>5, <1>6 DEF Follows, LiveAt

LEMMA StateKeepsReads ==
  ASSUME TypeOK, StreamInv, Listens, ArrivesState, NEW p \in Connection, NEW g \in Nat,
         ReadFits(p, g), StatesAfter(p)
  PROVE  ReadFits(p, g)'
<1>1. PICK s, e : s = events[1].state.session /\ e = events[1].state.epoch
  OBVIOUS
<1>2. /\ s \in Nat /\ e \in Nat /\ win.connection.session <= s
      /\ win'.connection.session = s /\ win'.connection.epoch = e
      /\ IsLive(win') /\ (win'.lifecycle = "Connected" <=> e # 0)
      /\ win.connection.session = s => IsLive(win)
  BY <1>1, StateArrives
<1>3. /\ p.session \in Nat /\ p.epoch \in Nat
      /\ win.connection.session \in Nat /\ win.connection.epoch \in Nat
      /\ win.generation \in Nat
  BY StreamTyped DEF Connection, Numbers
<1>4. p.session <= s
  BY <1>2, <1>3 DEF ReadFits
<1>5. SUFFICES ASSUME p.session = s, p.epoch # 0
               PROVE  \/ /\ p.epoch = e
                         /\ win'.lifecycle = "Connected" => g = p.epoch
                      \/ g = p.epoch /\ g < win'.generation
  BY <1>2, <1>4 DEF ReadFits
<1>6. /\ p.session = win.connection.session /\ IsLive(win)
  BY <1>2, <1>3, <1>5 DEF ReadFits
<1>7. g = p.epoch
  BY <1>5, <1>6 DEF ReadFits, IsLive
<1>8. e = 0 \/ p.epoch <= e
  <2>1. 1 \in 1 .. Len(events) /\ IsState(win, events[1])
    BY ArrivalMoves DEF Moves, ArrivesState, StateAt, Mine, IsState
  <2>2. QED
    BY <1>1, <1>5, <2>1 DEF StatesAfter, NotBefore
<1>9. CASE e # 0
  <2>1. win'.generation = e
    BY <1>2, <1>9 DEF IsLive
  <2>2. QED
    BY <1>2, <1>3, <1>7, <1>8, <1>9, <2>1
<1>10. CASE e = 0
  <2>1. Followed(win', win, 0)
    BY <1>1, <1>10 DEF ArrivesState
  <2>2. p.epoch = win.connection.epoch \/ g < win.generation
    BY <1>5, <1>6 DEF ReadFits
  <2>3. CASE win.lifecycle = "Reconnecting"
    <3>1. win.connection.epoch = 0 /\ win'.generation = win.generation
      BY <1>6, <2>1, <2>3 DEF IsLive, Followed
    <3>2. QED
      BY <1>5, <1>7, <2>2, <3>1
  <2>4. CASE win.lifecycle = "Connected"
    <3>1. win.generation = win.connection.epoch /\ win'.generation = win.generation + 1
      BY <1>6, <2>1, <2>4 DEF IsLive, Followed
    <3>2. QED
      BY <1>3, <1>7, <2>2, <3>1
  <2>5. QED
    BY <1>6, <2>3, <2>4 DEF IsLive
<1>11. QED
  BY <1>9, <1>10

LEMMA StateKeepsShown ==
  ASSUME TypeOK, StreamInv, Listens, ArrivesState, NEW p \in Shown(win'),
         p \in Shown(win) => ShownFits(p)
  PROVE  ShownFits(p)'
<1>1. PICK s, e : s = events[1].state.session /\ e = events[1].state.epoch
  OBVIOUS
<1>2. /\ s \in Nat /\ e \in Nat /\ win.connection.session <= s
      /\ win'.connection.session = s /\ win'.connection.epoch = e
      /\ IsLive(win') /\ (win'.lifecycle = "Connected" <=> e # 0)
      /\ win.connection.session = s => IsLive(win)
  BY <1>1, StateArrives
<1>3. Followed(win', win, e)
  BY <1>1 DEF ArrivesState
<1>4. ~Emptied(win')
  BY DEF Emptied, Shown, None
<1>5. Narrower(win', win)
  BY <1>3, <1>4 DEF Followed
<1>6. p \in Shown(win)
  BY <1>5 DEF Narrower, Shown
<1>7. /\ ShownFits(p) /\ p \in Connection /\ win.connection \in Connection
      /\ win.generation \in Nat
  BY <1>6 DEF Shown, TypeOK, WindowTypes, Cache
<1>8. /\ p.session \in Nat /\ p.epoch \in Nat
      /\ win.connection.session \in Nat /\ win.connection.epoch \in Nat
  BY <1>7 DEF Connection
<1>9. p.session <= s
  BY <1>2, <1>7, <1>8 DEF ShownFits
<1>10. ASSUME p.session = s PROVE p.epoch \in {0, e}
  <2>1. p.session = win.connection.session /\ IsLive(win)
    BY <1>2, <1>7, <1>8, <1>10 DEF ShownFits
  <2>2. p.epoch \in {0, win.connection.epoch}
    BY <1>7, <2>1 DEF ShownFits
  <2>3. CASE win.lifecycle = "Reconnecting"
    BY <2>1, <2>2, <2>3 DEF IsLive
  <2>4. CASE win.lifecycle = "Connected"
    <3>1. win.generation = win.connection.epoch /\ win.connection.epoch # 0
      BY <2>1, <2>4 DEF IsLive
    <3>2. win'.generation = win.generation /\ e # 0
      BY <1>3, <1>4, <2>4 DEF Followed
    <3>3. win'.generation = e
      BY <1>2, <3>2 DEF IsLive
    <3>4. QED
      BY <2>2, <3>1, <3>2, <3>3
  <2>5. QED
    BY <2>1, <2>3, <2>4 DEF IsLive
<1>11. QED
  BY <1>2, <1>9, <1>10 DEF ShownFits

LEMMA StatesAfterGained ==
  ASSUME TypeOK, win' = win, NEW first, NEW last, NEW n, Gains(first, last, n),
         NEW p, StatesAfter(p),
         last.kind = "State" /\ last.state.session = p.session => NotBefore(last.state, p.epoch),
         n = 2 /\ first.kind = "State" /\ first.state.session = p.session =>
           NotBefore(first.state, p.epoch)
  PROVE  StatesAfter(p)'
<1>1. SUFFICES ASSUME NEW j \in 1 .. Len(events'), IsState(win, events'[j]),
                      events'[j].state.session = p.session
               PROVE  NotBefore(events'[j].state, p.epoch)
  BY DEF StatesAfter
<1>2. \/ j \in 1 .. Len(events) /\ events'[j] = events[j]
      \/ events'[j] = last
      \/ n = 2 /\ events'[j] = first
  BY Gained
<1>3. events'[j].kind = "State"
  BY <1>1 DEF IsState
<1>4. CASE j \in 1 .. Len(events) /\ events'[j] = events[j]
  BY <1>1, <1>4 DEF StatesAfter
<1>5. CASE events'[j] = last
  BY <1>1, <1>3, <1>5
<1>6. CASE n = 2 /\ events'[j] = first
  BY <1>1, <1>3, <1>6
<1>7. QED
  BY <1>2, <1>4, <1>5, <1>6

\* What the bridge sends does not go back behind what somebody saw.
LEMMA StatesAfterSent ==
  ASSUME TypeOK, Numbered, SessionsInv, PastInv, Next, TypeOK', SessionsInv',
         Selects \/ Resubscribes \/ Dispatches \/ Forwards \/ Finishes,
         NEW p \in Connection, Past(p.session, p.epoch), StatesAfter(p)
  PROVE  StatesAfter(p)'
<1>1. win' = win
  BY DEF Selects, Resubscribes, Dispatches, Forwards, Finishes
<1>2. p.session \in Nat /\ p.epoch \in Nat
  BY DEF Connection
<1>3. ASSUME NEW chosen \in selected, NEW x \in State, Newest(x, chosen), x.session = p.session
      PROVE  NotBefore(x, p.epoch)
  BY <1>2, <1>3, NewestAfter
<1>4. CASE Selects \/ Resubscribes
  <2>1. PICK chosen \in Chosen, n \in {1, 2} : Fails(chosen, n) \/ Opens(chosen, n)
    BY <1>4, OnlySelected DEF Selects, Resubscribes
  <2> DEFINE ended == Event("SessionEnded", chosen.subscription)
  <2>2. ended.kind # "State" /\ chosen.receiver \in Receivers
    BY DEF Event, Chosen
  <2> HIDE DEF ended
  <2>3. CASE Fails(chosen, n)
    <3>1. Gains(ended, Event("ConnectFailed", chosen.subscription), n)
      BY <2>3 DEF Fails, ended
    <3>2. Event("ConnectFailed", chosen.subscription).kind # "State"
      BY DEF Event
    <3>3. QED
      BY <1>1, <2>2, <3>1, <3>2, StatesAfterGained
  <2>4. CASE Opens(chosen, n)
    <3>1. PICK entry \in Session :
             /\ Entered(chosen.receiver, entry) /\ entry.open
             /\ Gains(ended, StateEvent(chosen, entry.state), n)
             /\ active' = {[session |-> entry.state.session, last |-> None]}
      BY <2>4, OpensEnter DEF SessionsInv, ended
    <3>2. svc'[chosen.receiver] = entry
      BY <2>2, <3>1, EnteredService DEF SessionsInv
    <3>3. PICK r \in Receivers : svc'[r] = entry
      BY <2>2, <3>2
    <3>4. \A a \in active' : a.last = None
      BY <3>1
    <3>5. \A e \in Nat : Past(entry.state.session, e)' => NotBefore(entry.state, e)
      BY <3>1, <3>3, <3>4, EntryAfter
    <3>6. Past(p.session, p.epoch)'
      BY <1>2, PastKept
    <3>7. entry.state.session = p.session => NotBefore(entry.state, p.epoch)
      BY <1>2, <3>5, <3>6
    <3>8. PICK told : told = StateEvent(chosen, entry.state)
      OBVIOUS
    <3>9. told.state = entry.state /\ Gains(ended, told, n)
      BY <3>1, <3>8 DEF StateEvent
    <3>10. QED
      BY <1>1, <2>2, <3>7, <3>9, StatesAfterGained
  <2>5. QED
    BY <2>1, <2>3, <2>4
<1>5. CASE Dispatches
  <2>1. CASE events' = events
    BY <1>1, <2>1 DEF StatesAfter
  <2>2. CASE \E last : Gains(last, last, 1) /\ last.kind # "State"
    BY <1>1, <2>2, StatesAfterGained
  <2>3. QED
    BY <1>5, <2>1, <2>2 DEF Dispatches, Event, ConflictEvent
<1>6. CASE Forwards
  <2>1. PICK chosen \in selected, x \in State :
          Newest(x, chosen) /\ Gains(StateEvent(chosen, x), StateEvent(chosen, x), 1)
    BY <1>6 DEF Forwards
  <2>2. PICK told : told = StateEvent(chosen, x)
    OBVIOUS
  <2>3. told.state = x /\ Gains(told, told, 1)
    BY <2>1, <2>2 DEF StateEvent
  <2>4. QED
    BY <1>1, <1>3, <2>1, <2>3, StatesAfterGained
<1>7. CASE Finishes
  <2>1. PICK task \in tasks, event \in Events, first \in Events, n \in {1, 2} :
          /\ Answers(event, task) /\ Gains(first, event, n)
          /\ n = 2 => \E chosen \in selected, x \in State :
                        Newest(x, chosen) /\ first = StateEvent(chosen, x)
    BY <1>7 DEF Finishes
  <2>2. event.kind # "State"
    <3>1. task.kind \in {"Refresh", "Control"} \cup ReadKinds
      BY DEF TypeOK, Tasks, RefreshTask, ControlTask, ReadTask
    <3>2. QED
      BY <2>1, <3>1 DEF Answers, IsRead, ReadKinds
  <2>3. ASSUME n = 2, first.state.session = p.session PROVE NotBefore(first.state, p.epoch)
    <3>1. PICK chosen \in selected, x \in State :
            Newest(x, chosen) /\ first = StateEvent(chosen, x)
      BY <2>1, <2>3
    <3>2. first.state = x
      BY <3>1 DEF StateEvent
    <3>3. QED
      BY <1>3, <2>3, <3>1, <3>2
  <2>4. QED
    BY <1>1, <2>1, <2>2, <2>3, StatesAfterGained
<1>8. QED
  BY <1>4, <1>5, <1>6, <1>7

\* A read that is under way and was before.
LEMMA OldReadFits ==
  ASSUME TypeOK, Numbered, SessionsInv, StreamInv, PastInv, Next, TypeOK', SessionsInv', ~Reselect,
         NEW p \in Connection, NEW g \in Nat, Past(p.session, p.epoch),
         ReadFits(p, g), StatesAfter(p)
  PROVE  (ReadFits(p, g) /\ StatesAfter(p))'
<1>1. CASE Quiet
  <2>1. /\ win'.connection = win.connection /\ win'.generation = win.generation
        /\ win'.subscription = win.subscription /\ events' = events
        /\ win'.lifecycle = "Connected" => win.lifecycle = "Connected"
    BY <1>1 DEF Quiet
  <2>2. QED
    BY <2>1 DEF ReadFits, StatesAfter, IsState
<1>2. CASE Listens
  <2>1. /\ Len(events) \in Nat \ {0} /\ Len(events') = Len(events) - 1
        /\ \A i \in 1 .. Len(events') : events'[i] = events[i + 1]
        /\ win'.subscription = win.subscription
    BY <1>2, ArrivedEvents DEF Arrives, Listens
  <2>2. StatesAfter(p)'
    <3>1. SUFFICES ASSUME NEW j \in 1 .. Len(events'), IsState(win, events'[j]),
                          events'[j].state.session = p.session
                   PROVE  NotBefore(events'[j].state, p.epoch)
      BY <2>1 DEF StatesAfter, IsState
    <3>2. PICK k \in 1 .. Len(events) : events'[j] = events[k]
      <4>1. j + 1 \in 1 .. Len(events) /\ events'[j] = events[j + 1]
        BY <2>1
      <4>2. QED
        BY <4>1
    <3>3. QED
      BY <3>1, <3>2 DEF StatesAfter
  <2>3. CASE ArrivesState
    BY <1>2, <2>2, <2>3, StateKeepsReads
  <2>4. CASE ArrivesEnd
    <3>1. /\ win'.connection = win.connection /\ win'.generation = win.generation + 1
          /\ win'.lifecycle # "Connected" /\ win.generation \in Nat
      BY <2>4, StreamTyped DEF ArrivesEnd, Numbers
    <3>2. ReadFits(p, g)'
      BY <3>1 DEF ReadFits
    <3>3. QED
      BY <2>2, <3>2
  <2>5. CASE ArrivesFailure
    <3>1. /\ win'.connection = win.connection /\ win'.generation = win.generation
          /\ win'.lifecycle # "Connected"
      BY <2>5 DEF ArrivesFailure
    <3>2. QED
      BY <2>2, <3>1 DEF ReadFits
  <2>6. CASE SameShown
    BY <2>2, <2>6 DEF ReadFits, SameShown
  <2>7. QED
    BY <1>2, <2>3, <2>4, <2>5, <2>6 DEF Listens, ArrivesRead, ArrivesOther
<1>3. CASE Selects \/ Resubscribes \/ Dispatches \/ Forwards \/ Finishes
  <2>1. win' = win
    BY <1>3 DEF Selects, Resubscribes, Dispatches, Forwards, Finishes
  <2>2. QED
    BY <1>3, <2>1, StatesAfterSent DEF ReadFits
<1>4. CASE Publishes \/ Ends \/ TakesEffect
  <2>1. win' = win /\ events' = events
    BY <1>4 DEF Publishes, Ends, TakesEffect
  <2>2. QED
    BY <2>1 DEF ReadFits, StatesAfter
<1>5. QED
  BY <1>1, <1>2, <1>3, <1>4, StepsAre

\* What the window shows was asked for in the connection it shows.
LEMMA ShownKept ==
  ASSUME TypeOK, Numbered, SessionsInv, StreamInv, ReadsInv, Next, NEW p \in Shown(win')
  PROVE  ShownFits(p)'
<1>1. ASSUME win'.connection = win.connection, p \in Shown(win) PROVE ShownFits(p)'
  BY <1>1 DEF ReadsInv, ShownFits
<1>2. ~Emptied(win')
  BY DEF Emptied, Shown, None
<1>3. CASE Listens /\ ArrivesRead
  <2>1. win'.connection = win.connection
    BY <1>3 DEF ArrivesRead, SameShown
  <2>2. CASE p \in Shown(win)
    BY <1>1, <2>1, <2>2
  <2>3. CASE p = events[1].from /\ events[1].generation = win.generation
    <3>1. /\ events[1] \in ReadEvent /\ Mine(1) /\ IsRead(events[1])
      BY <1>3 DEF ArrivesRead
    <3>2. p \in Connection /\ win.generation \in Nat
      BY <2>3, <3>1, StreamTyped DEF ReadEvent, Numbers
    <3>3. 1 \in 1 .. Len(events)
      BY <1>3, ArrivedEvents DEF Listens
    <3>4. ReadComes(p, win.generation)
      BY <2>3, <3>1, <3>3 DEF ReadComes, ReadAnswered, ReadOf
    <3>5. ReadFits(p, win.generation)
      BY <3>2, <3>4 DEF ReadsInv
    <3>6. QED
      BY <2>1, <3>2, <3>5 DEF ReadFits, ShownFits
  <2>4. QED
    BY <1>3, <2>2, <2>3 DEF ArrivesRead, Within, Shown
<1>4. CASE Listens /\ ArrivesState
  BY <1>4, StateKeepsShown DEF ReadsInv
<1>5. CASE Quiet \/ (Listens /\ ArrivesOther)
  BY <1>1, <1>5 DEF Quiet, ArrivesOther, SameShown, Narrower, Shown
<1>6. CASE win' = win
  BY <1>1, <1>6
<1>7. QED
  BY <1>2, <1>3, <1>4, <1>5, <1>6, StepsAre
     DEF Listens, ArrivesEnd, ArrivesFailure, Reselect, Selects, Resubscribes, Dispatches,
         Forwards, Finishes, Publishes, Ends, TakesEffect

LEMMA ReadsKept ==
  ASSUME TypeOK, Numbered, SessionsInv, StreamInv, PastInv, ReadsInv, Next,
         TypeOK', SessionsInv', StreamInv'
  PROVE  ReadsInv'
<1>1. ASSUME NEW p \in Connection, NEW g \in Nat, ReadComes(p, g)'
      PROVE  (ReadFits(p, g) /\ StatesAfter(p))'
  <2>1. CASE ReadComes(p, g) /\ ~Reselect
    BY <2>1, OldReadFits DEF ReadsInv, PastInv
  <2>2. CASE p = win'.connection /\ g = win'.generation
    BY <2>2, NewReadFits
  <2>3. QED
    BY <1>1, <2>1, <2>2, StepsAre, ReadsLeft, NoReadComes, ReadsHandedOn
<1>2. \A p \in Shown(win') : ShownFits(p)'
  BY ShownKept
<1>3. QED
  BY <1>1, <1>2 DEF ReadsInv

-----------------------------------------------------------------------------
\* The invariant behind the reads.

LEMMA InitReads ==
  ASSUME Init
  PROVE  StreamInv /\ PastInv /\ ReadsInv
<1>1. /\ win = new /\ commands = <<>> /\ events = <<>> /\ Len(commands) = 0 /\ Len(events) = 0
      /\ selected = {} /\ active = {} /\ tasks = {} /\ sessions = 0
  BY DEF Init, None
<1>2. \A r \in Receivers : svc[r].last = 0
  BY DEF Init, NoSession
<1>3. /\ win.connection.session = 0 /\ win.connection.epoch = 0 /\ win.lifecycle = "NoReceiver"
      /\ Emptied(win)
  BY <1>1, NewWindow
<1>4. \A i \in 0 .. Len(events) : i = 0
  BY <1>1
<1>5. StreamInv
  BY <1>1, <1>3, <1>4 DEF StreamInv, Stream
<1>6. \A p, g : ~ReadComes(p, g)
  BY <1>1 DEF ReadComes, ReadAsked, ReadRuns, ReadAnswered
<1>7. PastInv
  BY <1>1, <1>2, <1>3, <1>4, <1>6 DEF PastInv, Past, SessionAt, EpochAt
<1>8. Shown(win) = {}
  BY <1>3 DEF Shown, Emptied, None
<1>9. QED
  BY <1>5, <1>6, <1>7, <1>8 DEF ReadsInv

\* What was seen of the connections, and the reads that were asked for in them.
Reading == Basics /\ StreamInv /\ PastInv /\ ReadsInv

LEMMA ReadingKept ==
  ASSUME Reading, [Next]_vars
  PROVE  Reading'
<1>1. Basics'
  BY BasicsKept DEF Reading
<1>2. CASE Next
  <2>1. StreamInv'
    BY <1>2, StreamKept DEF Reading, Basics
  <2>2. QED
    BY <1>1, <1>2, <2>1, PastInvKept, ReadsKept DEF Reading, Basics
<1>3. CASE UNCHANGED vars
  <2>1. UNCHANGED <<win, commands, selected, active, tasks, events, svc, sessions>>
    BY <1>3 DEF vars
  <2>2. StreamInv'
    BY <2>1 DEF Reading, StreamInv, Current, NextSession
  <2>3. /\ \A s, e : Past(s, e)' <=> Past(s, e)
        /\ \A p, g : ReadComes(p, g)' <=> ReadComes(p, g)
    BY <2>1 DEF Past, ReadComes, ReadAsked, ReadRuns, ReadAnswered, NoSelectFrom, IsSelect, Mine
  <2>4. PastInv'
    BY <2>1, <2>3 DEF Reading, PastInv, Past
  <2>5. ReadsInv'
    BY <2>1, <2>3 DEF Reading, ReadsInv, ReadFits, StatesAfter, ShownFits
  <2>6. QED
    BY <1>1, <2>2, <2>4, <2>5 DEF Reading
<1>4. QED
  BY <1>2, <1>3

LEMMA ReadingHolds == Spec => []Reading
<1>1. Init => Reading
  BY InitBasics, InitReads DEF Reading, Basics
<1>2. QED
  BY <1>1, ReadingKept, PTL DEF Spec

\* session.rs, on_bridge (the checks of a read's generation) and apply_state (the
\* connection as the newest state tells it): what was asked for over HTTP in one
\* connection is not shown in a later one of the same session. The generation is
\* the epoch while the window is connected and counts up when a connection is
\* lost, so that the two numberings overlap: that a late answer still never fits
\* rests on what the bridge may send, a session's states in their order and its
\* end before the next session's first.
THEOREM ReadsAreOfThisConnection == Spec => []ReadsOfThisConnection
<1>1. Reading => ReadsOfThisConnection
  BY DEF Reading, ReadsInv, ShownFits, Shown, ReadsOfThisConnection
<1>2. QED
  BY <1>1, ReadingHolds, PTL
=============================================================================
