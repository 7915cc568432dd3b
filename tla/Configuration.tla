--------------------------- MODULE Configuration ---------------------------
(***************************************************************************)
(* The configuration file and everyone who rewrites it: the window's two   *)
(* savers, the command line, which remembers the receiver it used, the     *)
(* API server's PUT with an ETag and a lock, and a user with an editor.    *)
(* The window, the command line and the server are processes of their own  *)
(* on one file; a save reads the old file, keeps it aside unless this      *)
(* release can read it, writes a temporary file and renames it.            *)
(***************************************************************************)
EXTENDS ApiContract

CONSTANTS
    Names, Hosts, Modes,      \* receivers the user may add, their addresses, sound modes
    InitialFiles, HandTexts,  \* what the file may hold at first, and be edited into
    MaxStarts,                \* bound on commands, saves, clicks and edits begun
    MaxBackups                \* MAX_BACKUPS, made small

VARIABLES
    file,        \* Option of a text
    backups,     \* attempt number -> the text kept there
    task,        \* the save each writer has under way
    lock,        \* config_lock of the API server: Option of a writer
    configured, save_in_flight, pending,   \* the window's own copy and its queue of one
    clicked,     \* the favourites as the user last clicked them
    writer,      \* who wrote the file last
    outside,     \* whether anyone but the window has written it
    failed, overlapped,   \* whether a save failed; whether the window's two savers ran together
    starts       \* how many were begun

window == <<configured, save_in_flight, pending>>
vars == <<file, backups, task, lock, window, clicked, writer, outside, failed, overlapped, starts>>

Puts == {"put1", "put2"}
Tasks == {"receiver", "favorites", "cli"} \cup Puts
Process(t) == IF t \in Puts THEN "server" ELSE IF t = "cli" THEN "cli" ELSE "window"

(***************************************************************************)
(* Identities and configurations.  A text that is blank is "", and "\n"    *)
(* stands for one with a line break.                                       *)
(***************************************************************************)
Unusable == {"", "\n"}
ReservedNames == {"adhoc:h"}
Identity(host) == [host |-> host, model |-> None, friendly_name |-> None]
Default == [current |-> None, receivers |-> << >>, favorites |-> << >>]

Only(n, x) == [k \in {n} |-> x]
With(f, n, x) == [k \in DOMAIN f \cup {n} |-> IF k = n THEN x ELSE f[k]]
Without(f, n) == [k \in DOMAIN f \ {n} |-> f[k]]
Listed(c, n, identity) == [c EXCEPT !.receivers = With(@, n, identity)]

current(c) == {n \in c.current : n \in DOMAIN c.receivers}

validate(c) ==
    /\ \A n \in DOMAIN c.receivers : /\ {n, c.receivers[n].host} \cap Unusable = {}
                                     /\ n \notin ReservedNames
    /\ c.current \subseteq DOMAIN c.receivers
    /\ DOMAIN c.favorites \subseteq DOMAIN c.receivers

toggle_current_sound_mode_favorite(c, mode) ==
    {LET old == IF n \in DOMAIN c.favorites THEN c.favorites[n] ELSE {}
         new == IF mode \in old THEN old \ {mode} ELSE old \cup {mode}
     IN [c EXCEPT !.favorites = IF new = {} THEN Without(@, n) ELSE With(@, n, new)]
        : n \in {k \in current(c) : mode # ""}}

(***************************************************************************)
(* The file's text: its top-level keys, whether it parses in the schema    *)
(* they name, and what it says.                                            *)
(***************************************************************************)
CURRENT_VERSION == 2
Text(keys, parses, body) == [blank |-> FALSE, keys |-> keys, parses |-> parses, body |-> body]
Blank == [blank |-> TRUE, keys |-> {}, parses |-> FALSE, body |-> << >>]
Cut == Text({}, FALSE, << >>)

optional_text(text) == {t \in text : t # ""}
identity_of(record) == [record EXCEPT !.model = optional_text(@),
                                      !.friendly_name = optional_text(@)]
file_favorites(modes) == [n \in DOMAIN modes |-> modes[n] \ {""}]
into_modes(f) ==
    IF f.by_category THEN [n \in DOMAIN f.modes |-> UNION Range(f.modes[n])] ELSE f.modes

schema_of(text) ==
    CASE text.keys = {"version"} -> Some("MultiReceiver")
      [] text.keys = {"receiver"} -> Some("SingleReceiver")
      [] OTHER -> None

single_receiver(body) ==
    LET identity == identity_of(body.receiver)
        name == IF identity.friendly_name = None THEN "default" ELSE The(identity.friendly_name)
    IN [current |-> Some(name), receivers |-> Only(name, identity),
        favorites |-> file_favorites(into_modes(body.favorites))]
multi_receiver(body) ==
    [current |-> body.current,
     receivers |-> [n \in DOMAIN body.receivers |-> identity_of(body.receivers[n])],
     favorites |-> file_favorites(body.favorites)]

decode_text(text) ==
    {c \in CASE ~text.parses \/ schema_of(text) = None -> None
             [] text.parses /\ schema_of(text) = Some("SingleReceiver") ->
                    Some(single_receiver(text.body))
             [] OTHER -> IF text.body.version # CURRENT_VERSION THEN None
                         ELSE Some(multi_receiver(text.body))
        : validate(c)}
encode_text(c) ==
    Text({"version"}, TRUE,
         [version |-> CURRENT_VERSION, current |-> c.current, favorites |-> c.favorites,
          receivers |-> [n \in DOMAIN c.receivers |-> identity_of(c.receivers[n])]])

\* Mutated form: the text is judged by its keys alone.
is_readable_current_schema_Keys(text) == schema_of(text) = Some("MultiReceiver")
is_readable_current_schema(text) ==
    schema_of(text) = Some("MultiReceiver") /\ decode_text(text) # None

(* What a save must keep before it replaces what it found. *)
plan_save(existing) == {old \in existing : ~old.blank /\ ~is_readable_current_schema(old)}

load(f) == IF f = None THEN Some(Default) ELSE decode_text(The(f))

(* A favourites list of a file is finite, as the file is. *)
ASSUME ConfigurationAssumption ==
    /\ MaxBackups \in Nat
    /\ \A f \in InitialFiles : f = None \/ f = Some(The(f))
    /\ \A text \in HandTexts \cup UNION InitialFiles : \A c \in decode_text(text) :
          \A n \in DOMAIN c.favorites : IsFiniteSet(c.favorites[n])

(***************************************************************************)
(* The steps every save takes.                                             *)
(***************************************************************************)
Idle == [at |-> "idle"]
Begin(t, fields) == task' = [task EXCEPT ![t] = fields]
At(t, place) == task[t].at = place
Started == starts < MaxStarts /\ starts' = starts + 1

(* Two savers of the window at once. *)
Overlaps == overlapped' = (overlapped \/ (task'["receiver"] # Idle /\ task'["favorites"] # Idle))

Fail(t) ==
    /\ task' = [task EXCEPT ![t] = Idle]
    /\ failed' = (failed \/ Process(t) = "window")
    /\ lock' = lock \ {t}
    /\ IF t = "favorites" THEN save_in_flight' = FALSE /\ pending' = None
       ELSE UNCHANGED <<save_in_flight, pending>>
    /\ UNCHANGED <<configured, overlapped>>

(* The service refuses what does not validate before the file is looked at. *)
save_configuration(t, want) ==
    IF validate(want)
    THEN /\ Begin(t, [at |-> "save", base |-> task[t].base, want |-> want])
         /\ UNCHANGED <<failed, lock, window, overlapped>>
    ELSE Fail(t)

ReadExisting(t) ==
    /\ At(t, "save")
    /\ Begin(t, [at |-> IF plan_save(file) = None THEN "install" ELSE "backup",
                 base |-> task[t].base, want |-> task[t].want, existing |-> file])
    /\ UNCHANGED <<file, backups, lock, window, writer, outside, failed, overlapped, starts, clicked>>

(* create_new: the first number nobody has taken.  A write that fails leaves *)
(* what it had written there.                                                *)
Attempt == CHOOSE n \in 0 .. MaxBackups :
               n \notin DOMAIN backups /\ \A k \in 0 .. n - 1 : k \in DOMAIN backups
write_backup(t) ==
    /\ At(t, "backup")
    /\ \/ /\ Attempt = MaxBackups
          /\ Fail(t) /\ UNCHANGED backups
       \/ /\ Attempt < MaxBackups
          /\ backups' = With(backups, Attempt, The(task[t].existing))
          /\ task' = [task EXCEPT ![t].at = "install"]
          /\ UNCHANGED <<lock, window, failed, overlapped>>
       \/ /\ Attempt < MaxBackups
          /\ backups' = With(backups, Attempt, Cut)
          /\ Fail(t)
    /\ UNCHANGED <<file, writer, outside, starts, clicked>>

SaveFails(t) ==
    /\ task[t].at \in {"save", "backup", "install"}
    /\ Fail(t)
    /\ UNCHANGED <<file, backups, writer, outside, starts, clicked>>

install_config(t) ==
    /\ At(t, "install")
    /\ file' = Some(encode_text(task[t].want)) /\ writer' = Process(t)
    /\ outside' = (outside \/ Process(t) # "window")
    /\ task' = [task EXCEPT ![t].at = "saved"]
    /\ UNCHANGED <<backups, lock, window, failed, overlapped, starts, clicked>>

(***************************************************************************)
(* The window.                                                             *)
(***************************************************************************)
manual_entry(host, name) ==
    [name |-> IF name = "" THEN host ELSE name,
     identity |-> [Identity(host) EXCEPT !.friendly_name = optional_text(Some(name))]]
receiver_entry_for_discovered(host, model) ==
    LET name == IF model = "" THEN host ELSE model
    IN [name |-> name, identity |-> [host |-> host, model |-> Some(model),
                                     friendly_name |-> Some(name)]]

(* A receiver entered by hand, or a discovered one.  Nothing in the window   *)
(* keeps a user from saving a second one meanwhile: that one such save is    *)
(* under way at a time is a bound of this model.                             *)
SaveReceiver(host, name) ==
    /\ At("receiver", "idle") /\ host # "" /\ Started
    /\ \E e \in {manual_entry(host, name), receiver_entry_for_discovered(host, name)} :
          Begin("receiver", [at |-> "load", base |-> Default, entry |-> e])
    /\ Overlaps
    /\ UNCHANGED <<file, backups, lock, window, writer, outside, failed, clicked>>

save_receiver ==
    /\ At("receiver", "load")
    /\ IF load(file) = None THEN Fail("receiver")
       ELSE LET c == The(load(file))
                e == task["receiver"].entry
            IN save_configuration("receiver",
                   [Listed(c, e.name, e.identity) EXCEPT !.current = Some(e.name)])
    /\ UNCHANGED <<file, backups, writer, outside, starts, clicked>>

ReceiverSaved ==
    /\ At("receiver", "saved")
    /\ configured' = task["receiver"].want
    /\ task' = [task EXCEPT !["receiver"] = Idle]
    /\ UNCHANGED <<file, backups, lock, save_in_flight, pending, writer, outside, failed, overlapped, starts, clicked>>

StartFavorites(c) == Begin("favorites", [at |-> "load", base |-> Default, saving |-> c]) /\ Overlaps

toggle_sound_mode_favorite(mode) ==
    /\ Started
    /\ \E c \in toggle_current_sound_mode_favorite(configured, mode) :
          /\ configured' = c /\ clicked' = c.favorites
          /\ IF save_in_flight
             THEN pending' = Some(c) /\ UNCHANGED <<save_in_flight, task, overlapped>>
             ELSE save_in_flight' = TRUE /\ StartFavorites(c) /\ UNCHANGED pending
    /\ UNCHANGED <<file, backups, lock, writer, outside, failed>>

save_favorites ==
    /\ At("favorites", "load")
    /\ IF load(file) = None THEN Fail("favorites")
       ELSE LET saving == task["favorites"].saving
                want == [The(load(file)) EXCEPT !.favorites = saving.favorites]
            IN IF validate(want)
               THEN /\ Begin("favorites", [at |-> "save", base |-> saving, want |-> want])
                    /\ UNCHANGED <<failed, lock, window, overlapped>>
               ELSE Fail("favorites")
    /\ UNCHANGED <<file, backups, writer, outside, starts, clicked>>

\* Mutated form: clicks made during a save are forgotten.
sound_mode_favorites_saved_NoQueue ==
    /\ At("favorites", "saved")
    /\ configured' = task["favorites"].base
    /\ save_in_flight' = FALSE /\ pending' = None
    /\ task' = [task EXCEPT !["favorites"] = Idle]
    /\ UNCHANGED <<file, backups, lock, writer, outside, failed, overlapped, starts, clicked>>
sound_mode_favorites_saved ==
    /\ At("favorites", "saved")
    /\ IF pending = None
       THEN /\ configured' = task["favorites"].base /\ save_in_flight' = FALSE
            /\ task' = [task EXCEPT !["favorites"] = Idle]
            /\ UNCHANGED overlapped
       ELSE /\ configured' = The(pending) /\ UNCHANGED save_in_flight
            /\ StartFavorites(The(pending))
    /\ pending' = None
    /\ UNCHANGED <<file, backups, lock, writer, outside, failed, starts, clicked>>

(***************************************************************************)
(* The command line: a target is resolved, the command runs, and then the  *)
(* receiver is remembered unless several are saved.                        *)
(***************************************************************************)
resolve_target ==
    /\ At("cli", "idle") /\ Started
    /\ \/ \E h \in Hosts :
             Begin("cli", [at |-> "load", base |-> Default, saved_name |-> None,
                           identity |-> Identity(h)])
       \/ \E c \in load(file) : \E n \in current(c) :
             Begin("cli", [at |-> "load", base |-> Default, saved_name |-> Some(n),
                           identity |-> c.receivers[n]])
    /\ UNCHANGED <<file, backups, lock, window, writer, outside, failed, overlapped, clicked>>

remember ==
    /\ At("cli", "load")
    /\ LET target == task["cli"]
           name == CASE target.saved_name # None -> The(target.saved_name)
                     [] target.saved_name = None /\ target.identity.friendly_name # None ->
                            The(target.identity.friendly_name)
                     [] OTHER -> "default"
       IN CASE load(file) = None -> Fail("cli")
            [] load(file) # None /\ Cardinality(DOMAIN The(load(file)).receivers) > 1 ->
                   /\ task' = [task EXCEPT !["cli"] = Idle]
                   /\ UNCHANGED <<failed, lock, window, overlapped>>
            [] OTHER ->
                   LET kept == The(load(file)).favorites
                   IN save_configuration("cli",
                          [current |-> Some(name), receivers |-> Only(name, target.identity),
                           favorites |-> [n \in DOMAIN kept \cap {name} |-> kept[n]]])
    /\ UNCHANGED <<file, backups, writer, outside, starts, clicked>>

Remembered ==
    /\ At("cli", "saved")
    /\ task' = [task EXCEPT !["cli"] = Idle]
    /\ UNCHANGED <<file, backups, lock, window, writer, outside, failed, overlapped, starts, clicked>>

(***************************************************************************)
(* The API.  A client reads the configuration and its ETag, changes it and *)
(* sends it back; the ETag tells two configurations apart as their JSON    *)
(* does.                                                                   *)
(***************************************************************************)
etag_of(c) == ConfigDto(c)

Edits(c) ==
    (UNION {toggle_current_sound_mode_favorite(c, m) : m \in Modes})
        \cup {Listed(c, n, Identity(h)) : n \in Names, h \in Hosts}

config_get(p) ==
    /\ At(p, "idle") /\ Started
    /\ \E c \in load(file) : \E edited \in Edits(c) :
          Begin(p, [at |-> "asked", base |-> c, request |-> ConfigDto(edited)])
    /\ UNCHANGED <<file, backups, lock, window, writer, outside, failed, overlapped, clicked>>

(* The lock is held from the comparison to the save. *)
Refused(p) ==
    /\ task' = [task EXCEPT ![p] = Idle]
    /\ UNCHANGED <<lock, window, failed, overlapped>>
Replacement(p) == {c \in config_of(task[p].request) : validate(c)}
Accepted(p) ==
    Begin(p, [at |-> "save", base |-> task[p].base, want |-> The(Replacement(p))])
\* Mutated form: the tag is compared without the lock.
config_put_Unlocked(p) ==
    /\ At(p, "asked")
    /\ \E now \in load(file) :
          IF etag_of(now) = etag_of(task[p].base) /\ Replacement(p) # None
          THEN Accepted(p) /\ UNCHANGED <<lock, window, failed, overlapped>>
          ELSE Refused(p)
    /\ UNCHANGED <<file, backups, writer, outside, starts, clicked>>
config_put(p) ==
    /\ At(p, "asked") /\ lock = None
    /\ IF load(file) = None THEN Fail(p)
       ELSE IF etag_of(The(load(file))) = etag_of(task[p].base) /\ Replacement(p) # None
            THEN Accepted(p) /\ lock' = Some(p) /\ UNCHANGED <<window, failed, overlapped>>
            ELSE Refused(p)
    /\ UNCHANGED <<file, backups, writer, outside, starts, clicked>>

(* The answer is what the file holds now; a file that cannot be read by then *)
(* is an error, though the save was made.                                    *)
Answered(p) ==
    /\ At(p, "saved")
    /\ lock' = lock \ {p}
    /\ task' = [task EXCEPT ![p] = Idle]
    /\ UNCHANGED <<file, backups, window, writer, outside, failed, overlapped, starts, clicked>>

(* A PUT is dropped where it waits, at the server's time limit or when its   *)
(* client goes, and its lock is free.  What its blocking thread had begun    *)
(* goes on alone: a backup or the rename, after which nothing follows.       *)
DropPut(p) ==
    /\ task[p].at \in {"asked", "save", "backup", "install", "saved"}
    /\ lock' = lock \ {p}
    /\ \/ task' = [task EXCEPT ![p] = Idle]
       \/ At(p, "backup") /\ task' = [task EXCEPT ![p].at = "keeping"]
       \/ At(p, "install") /\ task' = [task EXCEPT ![p].at = "renaming"]
    /\ UNCHANGED <<file, backups, window, writer, outside, failed, overlapped, starts, clicked>>

KeepingEnds(p) ==
    /\ At(p, "keeping")
    /\ task' = [task EXCEPT ![p] = Idle]
    /\ \/ UNCHANGED backups
       \/ /\ Attempt < MaxBackups
          /\ \E kept \in {The(task[p].existing), Cut} : backups' = With(backups, Attempt, kept)
    /\ UNCHANGED <<file, lock, window, writer, outside, failed, overlapped, starts, clicked>>

RenamingEnds(p) ==
    /\ At(p, "renaming")
    /\ task' = [task EXCEPT ![p] = Idle]
    /\ \/ UNCHANGED <<file, writer, outside>>
       \/ /\ file' = Some(encode_text(task[p].want))
          /\ writer' = "dropped" /\ outside' = TRUE
    /\ UNCHANGED <<backups, lock, window, failed, overlapped, starts, clicked>>

(* A user with an editor, at any time. *)
HandEdit ==
    /\ Started /\ \E text \in HandTexts : file' = Some(text)
    /\ writer' = "hand" /\ outside' = TRUE
    /\ UNCHANGED <<backups, task, lock, window, failed, overlapped, clicked>>

Init ==
    /\ file \in InitialFiles
    /\ backups = << >> /\ task = [t \in Tasks |-> Idle] /\ lock = None
    /\ configured = (IF load(file) = None THEN Default ELSE The(load(file)))
    /\ save_in_flight = FALSE /\ pending = None /\ clicked = configured.favorites
    /\ writer = "none" /\ outside = FALSE /\ failed = FALSE /\ overlapped = FALSE
    /\ starts = 0

Next ==
    \/ \E h \in Hosts \cup {""}, n \in Names \cup {""} : SaveReceiver(h, n)
    \/ \E m \in Modes : toggle_sound_mode_favorite(m)
    \/ save_receiver \/ ReceiverSaved \/ save_favorites \/ sound_mode_favorites_saved
    \/ resolve_target \/ remember \/ Remembered
    \/ \E p \in Puts : config_get(p) \/ config_put(p) \/ Answered(p)
    \/ \E p \in Puts : DropPut(p) \/ KeepingEnds(p) \/ RenamingEnds(p)
    \/ \E t \in Tasks : ReadExisting(t) \/ write_backup(t) \/ SaveFails(t) \/ install_config(t)
    \/ HandEdit

Spec == Init /\ [][Next]_vars
-----------------------------------------------------------------------------
(* A text this release cannot read as its own schema is never lost to a save *)
(* that saw it: when the save replaces it, it stands in a backup, and what   *)
(* stands in a backup is never changed; whatever failed on the way, whoever  *)
(* else is saving and whether or not somebody still waits for the save       *)
(* (files.rs, plan_save).                                                    *)
Replaces(t) ==
    task[t].at \in {"install", "renaming"} /\ task'[t] # task[t] /\ file' # file
KeptBeforeReplaced ==
    [][/\ \A n \in DOMAIN backups : n \in DOMAIN backups' /\ backups'[n] = backups[n]
       /\ \A t \in Tasks :
             (Replaces(t) /\ file = task[t].existing)
                => \A old \in file :
                      \/ old.blank
                      \/ schema_of(old) = Some("MultiReceiver") /\ decode_text(old) # None
                      \/ old \in Range(backups)]_vars

(* Of two clients of the API that read the configuration and each write it   *)
(* back, neither overwrites the other's edit: a PUT whose client still waits *)
(* replaces what that client read, unless somebody outside the server, or a  *)
(* PUT that was dropped, wrote the file in between (config_put's ETag and    *)
(* lock).                                                                    *)
NoEditLost ==
    [][\A p \in Puts :
          (At(p, "install") /\ task'[p].at = "saved" /\ load(file) # Some(task[p].base))
              => writer # "server"]_vars

(* The same of every PUT: "two clients that read the same file and each      *)
(* write it back would otherwise lose one edit" (routes.rs, config_put).  It *)
(* does not hold: the rename of a PUT that was dropped goes on without the   *)
(* lock, over the edit of another, or between its comparison and its rename. *)
NoEditLostToDrops ==
    [][\A p \in Puts :
          (Replaces(p) /\ load(file) # Some(task[p].base))
              => writer \notin {"server", "dropped"}]_vars

(* With nobody else writing and no save failed, once the window's saves are  *)
(* over the file holds what the window shows, and the favourites are as they *)
(* were last clicked, however fast: the receivers, less their blank texts,   *)
(* the current one and every favourite (save_in_flight and pending_config).  *)
Settled == /\ ~outside /\ ~failed
           /\ task["receiver"] = Idle /\ task["favorites"] = Idle
Tidy(c) == [c EXCEPT !.receivers = [n \in DOMAIN @ |-> identity_of(@[n])]]
Shown == /\ load(file) \in {None, Some(Tidy(configured))}
         /\ configured.favorites = clicked
WindowMatchesFile == (Settled /\ ~overlapped) => Shown

(* The same with both of the window's savers at work: save_receiver keeps    *)
(* "every other receiver and every sound mode favorite" (setup.rs).  It does *)
(* not hold: each reads the file, and the one that renames last wins.        *)
KeepsEverything == Settled => Shown
=============================================================================
