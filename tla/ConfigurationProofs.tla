------------------------ MODULE ConfigurationProofs ------------------------
(***************************************************************************)
(* Theorems about the configuration file and its writers, for any number   *)
(* of commands, saves, clicks and edits, and for any bound on backups.     *)
(* At the end, one about a call of the port, which crosses the same        *)
(* contract.                                                               *)
(***************************************************************************)
EXTENDS Configuration, FiniteSetTheorems, TLAPS

-----------------------------------------------------------------------------
(***************************************************************************)
(* What the operators on texts and configurations do.                      *)
(***************************************************************************)

(* A configuration as this release holds it: its favourites are finite sets *)
(* without a blank text.                                                    *)
Config(c) ==
    /\ c = [current |-> c.current, receivers |-> c.receivers, favorites |-> c.favorites]
    /\ c.receivers = [n \in DOMAIN c.receivers |-> c.receivers[n]]
    /\ c.favorites = [n \in DOMAIN c.favorites |-> c.favorites[n]]
    /\ \A n \in DOMAIN c.favorites : IsFiniteSet(c.favorites[n]) /\ "" \notin c.favorites[n]

\* A configuration is made of its parts.
LEMMA Made ==
  ASSUME NEW a, NEW r, NEW f,
         r = [n \in DOMAIN r |-> r[n]], f = [n \in DOMAIN f |-> f[n]],
         \A n \in DOMAIN f : IsFiniteSet(f[n]) /\ "" \notin f[n]
  PROVE  Config([current |-> a, receivers |-> r, favorites |-> f])
<1> DEFINE c == [current |-> a, receivers |-> r, favorites |-> f]
<1>1. c.current = a /\ c.receivers = r /\ c.favorites = f
  OBVIOUS
<1>2. Config(c)
  BY <1>1 DEF Config
<1>3. QED
  BY <1>2

\* Its parts are all there is of a configuration.
LEMMA Parts ==
  ASSUME NEW c, Config(c)
  PROVE  c = [current |-> c.current, receivers |-> c.receivers, favorites |-> c.favorites]
BY DEF Config

\* What an Option of a value holds is the value.
LEMMA TheValue == ASSUME NEW x PROVE The(Some(x)) = x
BY DEF The, Some

\* Reading a record a second time drops nothing more.
LEMMA IdentityTwice ==
  ASSUME NEW r PROVE identity_of(identity_of(r)) = identity_of(r)
<1>1. \A x : optional_text(optional_text(x)) = optional_text(x)
  BY DEF optional_text
<1>2. QED
  BY <1>1 DEF identity_of

\* What a text reads as holds finite favourites if they are, and is tidy.
LEMMA DecodedShape ==
  ASSUME NEW text, NEW c \in decode_text(text),
         \A n \in DOMAIN c.favorites : IsFiniteSet(c.favorites[n])
  PROVE  Config(c) /\ Tidy(c) = c
<1>1. \E a, f, m : /\ c = [current |-> a, receivers |-> m, favorites |-> file_favorites(f)]
                   /\ m = [n \in DOMAIN m |-> m[n]]
                   /\ \A n \in DOMAIN m : identity_of(m[n]) = m[n]
  <2>1. CASE c = single_receiver(text.body)
    <3> DEFINE i == identity_of(text.body.receiver)
               name == IF i.friendly_name = None THEN "default" ELSE The(i.friendly_name)
               m == Only(name, i)
    <3>1. c = [current |-> Some(name), receivers |-> m,
               favorites |-> file_favorites(into_modes(text.body.favorites))]
      BY <2>1 DEF single_receiver
    <3>2. identity_of(i) = i
      BY IdentityTwice
    <3>3. m = [n \in DOMAIN m |-> m[n]] /\ \A n \in DOMAIN m : m[n] = i
      <4>1. m = [n \in {name} |-> i]
        BY DEF Only
      <4>2. QED
        <5> HIDE DEF i, m, name
        <5> QED  BY <4>1
    <3>4. QED
      <4> HIDE DEF i, m, name
      <4> QED  BY <3>1, <3>2, <3>3
  <2>2. CASE c = multi_receiver(text.body)
    <3> DEFINE m == [n \in DOMAIN text.body.receivers |-> identity_of(text.body.receivers[n])]
    <3>1. c = [current |-> text.body.current, receivers |-> m,
               favorites |-> file_favorites(text.body.favorites)]
      BY <2>2 DEF multi_receiver
    <3>2. /\ m = [n \in DOMAIN m |-> m[n]]
          /\ \A n \in DOMAIN m : identity_of(m[n]) = m[n]
      BY IdentityTwice
    <3>3. QED
      <4> HIDE DEF m
      <4> QED  BY <3>1, <3>2
  <2>3. QED
    BY <2>1, <2>2 DEF decode_text, Some, None
<1>2. PICK a, f, m : /\ c = [current |-> a, receivers |-> m, favorites |-> file_favorites(f)]
                     /\ m = [n \in DOMAIN m |-> m[n]]
                     /\ \A n \in DOMAIN m : identity_of(m[n]) = m[n]
  BY <1>1
<1>3. Config(c)
  BY <1>2 DEF Config, file_favorites
<1>4. [n \in DOMAIN m |-> identity_of(m[n])] = m
  BY <1>2
<1>5. c.receivers = m
  BY <1>2
<1>6. Tidy(c) = [c EXCEPT !.receivers = m]
  BY <1>4, <1>5 DEF Tidy
<1>7. QED
  BY <1>2, <1>3, <1>6

\* Tidying keeps all but the blank texts of the receivers.
LEMMA Tidied ==
  ASSUME NEW c, Config(c)
  PROVE  /\ Tidy(c) = [current |-> c.current,
                       receivers |-> [n \in DOMAIN c.receivers |-> identity_of(c.receivers[n])],
                       favorites |-> c.favorites]
         /\ Config(Tidy(c))
<1>1. c = [current |-> c.current, receivers |-> c.receivers, favorites |-> c.favorites]
  BY DEF Config
<1>2. Tidy(c) = [current |-> c.current,
                 receivers |-> [n \in DOMAIN c.receivers |-> identity_of(c.receivers[n])],
                 favorites |-> c.favorites]
  BY <1>1 DEF Tidy
<1> DEFINE m == [n \in DOMAIN c.receivers |-> identity_of(c.receivers[n])]
           d == [current |-> c.current, receivers |-> m, favorites |-> c.favorites]
<1>3. m = [n \in DOMAIN m |-> m[n]]
  OBVIOUS
<1>4. d.current = c.current /\ d.receivers = m /\ d.favorites = c.favorites
  OBVIOUS
<1>5. Config(d)
  <2> HIDE DEF m
  <2> QED  BY <1>3, <1>4 DEF Config
<1>6. QED
  BY <1>2, <1>5

\* What is written is read back as it was, tidied, if it is read at all.
LEMMA WrittenReadsBack ==
  ASSUME NEW c, Config(c)
  PROVE  decode_text(encode_text(c)) \subseteq {Tidy(c)}
<1> DEFINE m == [n \in DOMAIN c.receivers |-> identity_of(c.receivers[n])]
           body == [version |-> CURRENT_VERSION, current |-> c.current,
                    favorites |-> c.favorites, receivers |-> m]
           text == encode_text(c)
<1>1. text.parses /\ text.keys = {"version"} /\ text.body = body
  BY DEF encode_text, Text
<1>2. schema_of(text) = Some("MultiReceiver")
  BY <1>1 DEF schema_of
<1>3. decode_text(text) \subseteq {multi_receiver(body)}
  <2> HIDE DEF text, body
  <2> QED  BY <1>1, <1>2 DEF decode_text, Some, None
<1>4. [n \in DOMAIN m |-> identity_of(m[n])] = m
  BY IdentityTwice
<1>5. file_favorites(c.favorites) = c.favorites
  BY DEF file_favorites, Config
<1>6. multi_receiver(body) = Tidy(c)
  <2>1. multi_receiver(body) = [current |-> body.current,
            receivers |-> [n \in DOMAIN body.receivers |-> identity_of(body.receivers[n])],
            favorites |-> file_favorites(body.favorites)]
    BY DEF multi_receiver
  <2>2. body.current = c.current /\ body.receivers = m /\ body.favorites = c.favorites
    OBVIOUS
  <2>3. Tidy(c) = [current |-> c.current, receivers |-> m, favorites |-> c.favorites]
    BY Tidied
  <2>4. QED
    <3> HIDE DEF m, body
    <3> QED  BY <1>4, <1>5, <2>1, <2>2, <2>3
<1>7. QED
  BY <1>3, <1>6

\* The list of a finite set holds the set, and is finite.
LEMMA ListOfSet ==
  ASSUME NEW S, IsFiniteSet(S)
  PROVE  Range(SetToSeq(S)) = S /\ IsFiniteSet(DOMAIN SetToSeq(S))
<1> DEFINE n == Cardinality(S)
           list == SetToSeq(S)
<1>1. n \in Nat /\ ExistsBijection(1 .. n, S)
  BY FS_CardinalityType
<1>2. \E f \in [1 .. n -> S] : IsInjective(f)
  BY <1>1 DEF ExistsBijection, Bijection, Injection
<1>3. list \in [1 .. n -> S] /\ IsInjective(list)
  BY <1>2 DEF SetToSeq
<1>4. IsFiniteSet(1 .. n) /\ Cardinality(1 .. n) = n
  <2> HIDE DEF n
  <2> QED  BY <1>1, FS_Interval
<1>5. list \in Injection(1 .. n, S)
  BY <1>3 DEF Injection
<1>6. list \in Surjection(1 .. n, S)
  <2> HIDE DEF list
  <2> QED  BY <1>4, <1>5, FS_Injection
<1>7. Range(list) = S /\ IsFiniteSet(DOMAIN list)
  <2> HIDE DEF list, n
  <2> QED  BY <1>3, <1>4, <1>6 DEF Surjection, Range
<1>8. QED
  BY <1>7

\* The tag tells two configurations apart.
LEMMA SameTag ==
  ASSUME NEW a, NEW b, Config(a), Config(b), etag_of(a) = etag_of(b)
  PROVE  a = b
<1> DEFINE lists(c) == [n \in DOMAIN c.favorites |-> SetToSeq(c.favorites[n])]
<1>1. ASSUME NEW c
      PROVE  /\ etag_of(c).current = c.current /\ etag_of(c).receivers = c.receivers
             /\ etag_of(c).sound_mode_favorites = lists(c)
  BY DEF etag_of, ConfigDto
<1>2. a.current = b.current /\ a.receivers = b.receivers /\ lists(a) = lists(b)
  <2> HIDE DEF lists
  <2> QED  BY <1>1
<1>3. DOMAIN a.favorites = DOMAIN b.favorites
  <2>1. DOMAIN lists(a) = DOMAIN a.favorites /\ DOMAIN lists(b) = DOMAIN b.favorites
    OBVIOUS
  <2>2. QED
    <3> HIDE DEF lists
    <3> QED  BY <1>2, <2>1
<1>4. ASSUME NEW n \in DOMAIN a.favorites
      PROVE  a.favorites[n] = b.favorites[n]
  <2>1. lists(a)[n] = SetToSeq(a.favorites[n]) /\ lists(b)[n] = SetToSeq(b.favorites[n])
    BY <1>3
  <2>2. SetToSeq(a.favorites[n]) = SetToSeq(b.favorites[n])
    <3> HIDE DEF lists
    <3> QED  BY <1>2, <2>1
  <2>3. IsFiniteSet(a.favorites[n]) /\ IsFiniteSet(b.favorites[n])
    BY <1>3 DEF Config
  <2>4. QED
    BY <2>2, <2>3, ListOfSet
<1>5. a.favorites = b.favorites
  BY <1>3, <1>4 DEF Config
<1>6. QED
  BY <1>2, <1>5 DEF Config

\* A click changes the favourites only, and leaves a configuration.
LEMMA Toggled ==
  ASSUME NEW c, Config(c), NEW mode, NEW d \in toggle_current_sound_mode_favorite(c, mode)
  PROVE  Config(d) /\ d.current = c.current /\ d.receivers = c.receivers
<1> DEFINE old(n) == IF n \in DOMAIN c.favorites THEN c.favorites[n] ELSE {}
           new(n) == IF mode \in old(n) THEN old(n) \ {mode} ELSE old(n) \cup {mode}
           f(n) == IF new(n) = {} THEN Without(c.favorites, n) ELSE With(c.favorites, n, new(n))
<1>1. PICK n : d = [c EXCEPT !.favorites = f(n)] /\ mode # ""
  BY DEF toggle_current_sound_mode_favorite
<1>2. IsFiniteSet(new(n)) /\ "" \notin new(n)
  <2>1. IsFiniteSet(old(n)) /\ "" \notin old(n)
    BY FS_EmptySet DEF Config
  <2>2. QED
    <3> HIDE DEF old
    <3> QED  BY <1>1, <2>1, FS_AddElement, FS_RemoveElement
<1>3. /\ f(n) = [k \in DOMAIN f(n) |-> f(n)[k]]
      /\ \A k \in DOMAIN f(n) : IsFiniteSet(f(n)[k]) /\ "" \notin f(n)[k]
  <2> HIDE DEF new
  <2> QED  BY <1>2 DEF Without, With, Config
<1>4. d = [current |-> c.current, receivers |-> c.receivers, favorites |-> f(n)]
  <2> HIDE DEF f
  <2> QED  BY <1>1 DEF Config
<1>5. QED
  <2> HIDE DEF f
  <2> QED  BY <1>3, <1>4, Made DEF Config

\* A receiver more leaves a configuration.
LEMMA Added ==
  ASSUME NEW c, Config(c), NEW n, NEW identity
  PROVE  /\ Listed(c, n, identity) = [current |-> c.current,
                                      receivers |-> With(c.receivers, n, identity),
                                      favorites |-> c.favorites]
         /\ Config(Listed(c, n, identity))
<1> DEFINE more == With(c.receivers, n, identity)
<1>1. c = [current |-> c.current, receivers |-> c.receivers, favorites |-> c.favorites]
  BY Parts
<1>2. Listed(c, n, identity) =
        [current |-> c.current, receivers |-> more, favorites |-> c.favorites]
  BY <1>1 DEF Listed
<1>3. more = [k \in DOMAIN more |-> more[k]]
  BY DEF With
<1>4. Config([current |-> c.current, receivers |-> more, favorites |-> c.favorites])
  <2> HIDE DEF more
  <2> QED  BY <1>3, Made DEF Config
<1>5. QED
  BY <1>2, <1>4

\* What a client sends back carries finite lists.
LEMMA Sent ==
  ASSUME NEW c, Config(c), NEW d \in Edits(c)
  PROVE  /\ \A n \in DOMAIN ConfigDto(d).sound_mode_favorites :
               IsFiniteSet(DOMAIN ConfigDto(d).sound_mode_favorites[n])
         /\ ConfigDto(d).receivers = [n \in DOMAIN ConfigDto(d).receivers |-> ConfigDto(d).receivers[n]]
<1>1. Config(d)
  <2> DEFINE clicks == {toggle_current_sound_mode_favorite(c, m) : m \in Modes}
  <2>1. d \in UNION clicks \/ \E n \in Names, h \in Hosts : d = Listed(c, n, Identity(h))
    BY DEF Edits
  <2>2. QED
    BY <2>1, Toggled, Added
<1>2. /\ ConfigDto(d).receivers = d.receivers
      /\ ConfigDto(d).sound_mode_favorites = [n \in DOMAIN d.favorites |-> SetToSeq(d.favorites[n])]
  BY DEF ConfigDto
<1>3. QED
  BY <1>1, <1>2, ListOfSet DEF Config

\* A list of texts that is read is a finite set without a blank one.
LEMMA ReadList ==
  ASSUME NEW list, IsFiniteSet(DOMAIN list), NEW S \in favorites_of(list)
  PROVE  IsFiniteSet(S) /\ "" \notin S
<1> DEFINE read == [i \in DOMAIN list |-> checked(list[i])]
           texts == [i \in DOMAIN list |-> list[i]]
<1>1. collect(read) # None => /\ \A i \in DOMAIN list : read[i] # None
                              /\ collect(read) = Some([i \in DOMAIN list |-> The(read[i])])
  BY DEF collect
<1>2. S = Range([i \in DOMAIN list |-> The(read[i])]) /\ \A i \in DOMAIN list : read[i] # None
  <2> HIDE DEF read
  <2>1. collect(read) # None
    BY DEF favorites_of, None, read
  <2>2. QED
    BY <1>1, <2>1 DEF favorites_of, Some, read
<1>3. \A i \in DOMAIN list : list[i] # "" /\ The(read[i]) = list[i]
  BY <1>2, TheValue DEF checked
<1>4. [i \in DOMAIN list |-> The(read[i])] = texts
  <2> HIDE DEF read
  <2> QED  BY <1>3
<1>5. S = Range(texts)
  BY <1>2, <1>4
<1>6. texts \in Surjection(DOMAIN list, S)
  BY <1>5 DEF Surjection, Range
<1>7. IsFiniteSet(S)
  <2> HIDE DEF texts
  <2> QED  BY <1>6, FS_Surjection
<1>8. QED
  <2> HIDE DEF read
  <2> QED  BY <1>3, <1>5, <1>7 DEF Range

\* A request with finite lists is read as a configuration.
LEMMA ReadRequest ==
  ASSUME NEW dto, NEW c \in config_of(dto),
         \A n \in DOMAIN dto.sound_mode_favorites :
            IsFiniteSet(DOMAIN dto.sound_mode_favorites[n]),
         dto.receivers = [n \in DOMAIN dto.receivers |-> dto.receivers[n]]
  PROVE  Config(c)
<1> DEFINE lists == dto.sound_mode_favorites
           read == [n \in DOMAIN lists |-> favorites_of(lists[n])]
           f == [n \in DOMAIN lists |-> The(read[n])]
<1>1. c \in {[current |-> dto.current, receivers |-> dto.receivers, favorites |-> g]
               : g \in collect(read)}
  BY DEF config_of
<1>2. \A g \in collect(read) : g = f /\ \A n \in DOMAIN lists : read[n] # None
  <2> HIDE DEF lists
  <2> QED  BY DEF collect, Some, None
<1>3. c = [current |-> dto.current, receivers |-> dto.receivers, favorites |-> f]
  <2> HIDE DEF f, read
  <2> QED  BY <1>1, <1>2
<1>4. ASSUME NEW n \in DOMAIN lists
      PROVE  IsFiniteSet(f[n]) /\ "" \notin f[n]
  <2>1. read[n] # None /\ read[n] = favorites_of(lists[n])
    <3>1. read[n] # None
      <4> HIDE DEF f, read
      <4> QED  BY <1>1, <1>2
    <3>2. QED
      BY <3>1
  <2>2. The(read[n]) \in favorites_of(lists[n])
    <3> HIDE DEF read
    <3> QED  BY <2>1 DEF The, None
  <2>3. IsFiniteSet(DOMAIN lists[n])
    OBVIOUS
  <2>4. f[n] = The(read[n])
    <3> HIDE DEF read
    <3> QED  OBVIOUS
  <2>5. QED
    <3> HIDE DEF f, read, lists
    <3> QED  BY <2>2, <2>3, <2>4, ReadList
<1>5. DOMAIN f = DOMAIN lists /\ f = [n \in DOMAIN f |-> f[n]]
  OBVIOUS
<1>6. QED
  <2> HIDE DEF f, lists
  <2> QED  BY <1>3, <1>4, <1>5 DEF Config

-----------------------------------------------------------------------------
(***************************************************************************)
(* What a step does to the saves under way: it moves one writer, or none.  *)
(***************************************************************************)

Resting == {"load", "asked", "save"}
Moves(t) ==
    /\ DOMAIN task' = Tasks
    /\ \A u \in Tasks : u # t => task'[u] = task[u]
    /\ \/ (task'[t] = Idle \/ task'[t].at \in Resting) /\ UNCHANGED <<file, writer, backups>>
       \/ ReadExisting(t)
       \/ write_backup(t)
       \/ install_config(t)

\* One writer's entry is set, the others' stay.
LEMMA Update ==
  ASSUME DOMAIN task = Tasks, NEW t \in Tasks, NEW v, task' = [task EXCEPT ![t] = v]
  PROVE  /\ DOMAIN task' = Tasks /\ task'[t] = v
         /\ \A u \in Tasks : u # t => task'[u] = task[u]
OBVIOUS

LEMMA Writers ==
  /\ Puts \subseteq Tasks
  /\ {"receiver", "favorites", "cli"} \subseteq Tasks /\ {"receiver", "favorites", "cli"} \cap Puts = {}
  /\ \A t \in Tasks : t \in Puts \/ t \in {"receiver", "favorites", "cli"}
BY DEF Tasks, Puts

\* To give up, to begin a save or to refuse one is a move of that writer.
LEMMA PlainMoves ==
  ASSUME DOMAIN task = Tasks, NEW t \in Tasks, UNCHANGED <<file, writer, backups>>,
         \/ Fail(t)
         \/ task' = [task EXCEPT ![t] = Idle]
         \/ \E v : task' = [task EXCEPT ![t] = v] /\ v.at \in Resting
         \/ \E want : save_configuration(t, want)
  PROVE  Moves(t)
<1>1. ASSUME NEW v, task' = [task EXCEPT ![t] = v], v = Idle \/ v.at \in Resting
      PROVE  Moves(t)
  BY <1>1, Update DEF Moves
<1>2. CASE \E want : save_configuration(t, want)
  <2>1. PICK want : save_configuration(t, want)
    BY <1>2
  <2>2. CASE validate(want)
    <3> DEFINE v == [at |-> "save", base |-> task[t].base, want |-> want]
    <3>1. task' = [task EXCEPT ![t] = v]
      BY <2>1, <2>2 DEF save_configuration, Begin
    <3>2. v.at \in Resting
      BY DEF Resting
    <3>3. QED
      <4> HIDE DEF v
      <4> QED  BY <1>1, <3>1, <3>2
  <2>3. CASE ~ validate(want)
    BY <1>1, <2>1, <2>3 DEF save_configuration, Fail
  <2>4. QED
    BY <2>2, <2>3
<1>3. QED
  BY <1>1, <1>2 DEF Fail

\* A PUT is dropped, or what it left behind ends.
LeftAlone(p) == DropPut(p) \/ KeepingEnds(p) \/ RenamingEnds(p)

\* Every step moves one writer, or is a hand's or a click's that waits.
LEMMA OneWriterMoves ==
  ASSUME DOMAIN task = Tasks, [Next]_vars
  PROVE  \/ \E t \in Tasks : Moves(t)
         \/ \E p \in Puts : LeftAlone(p)
         \/ UNCHANGED <<task, backups>>
            /\ (UNCHANGED <<file, writer>> \/ HandEdit)
<1> USE Writers
<1>1. ASSUME NEW h, NEW n, SaveReceiver(h, n)
      PROVE  Moves("receiver")
  <2>1. PICK e : Begin("receiver", [at |-> "load", base |-> Default, entry |-> e])
    BY <1>1 DEF SaveReceiver
  <2> DEFINE v == [at |-> "load", base |-> Default, entry |-> e]
  <2>2. v.at \in Resting
    BY DEF Resting
  <2>3. task' = [task EXCEPT !["receiver"] = v]
    BY <2>1 DEF Begin
  <2>4. UNCHANGED <<file, writer, backups>>
    BY <1>1 DEF SaveReceiver
  <2>5. QED
    <3> HIDE DEF v
    <3> QED  BY <2>2, <2>3, <2>4, PlainMoves
<1>2. ASSUME NEW c, StartFavorites(c), UNCHANGED <<file, writer, backups>>
      PROVE  Moves("favorites")
  <2> DEFINE v == [at |-> "load", base |-> Default, saving |-> c]
  <2>1. v.at \in Resting
    BY DEF Resting
  <2>2. task' = [task EXCEPT !["favorites"] = v]
    BY <1>2 DEF Begin, StartFavorites
  <2>3. QED
    <3> HIDE DEF v
    <3> QED  BY <1>2, <2>1, <2>2, PlainMoves
<1>3. ASSUME NEW m, toggle_sound_mode_favorite(m)
      PROVE  Moves("favorites") \/ UNCHANGED <<task, file, writer, backups>>
  BY <1>2, <1>3 DEF toggle_sound_mode_favorite
<1>4. ASSUME save_receiver
      PROVE  Moves("receiver")
  BY <1>4, PlainMoves DEF save_receiver
<1>5. ASSUME ReceiverSaved
      PROVE  Moves("receiver")
  BY <1>5, PlainMoves DEF ReceiverSaved
<1>6. ASSUME save_favorites
      PROVE  Moves("favorites")
  <2>1. ASSUME NEW b, NEW want, Begin("favorites", [at |-> "save", base |-> b, want |-> want])
        PROVE  Moves("favorites")
    <3> DEFINE v == [at |-> "save", base |-> b, want |-> want]
    <3>1. v.at \in Resting
      BY DEF Resting
    <3>2. task' = [task EXCEPT !["favorites"] = v]
      BY <2>1 DEF Begin
    <3>3. UNCHANGED <<file, writer, backups>>
      BY <1>6 DEF save_favorites
    <3>4. QED
      <4> HIDE DEF v
      <4> QED  BY <3>1, <3>2, <3>3, PlainMoves
  <2>2. CASE Fail("favorites")
    BY <1>6, <2>2, PlainMoves DEF save_favorites
  <2>3. QED
    BY <1>6, <2>1, <2>2 DEF save_favorites
<1>7. ASSUME sound_mode_favorites_saved
      PROVE  Moves("favorites")
  BY <1>2, <1>7, PlainMoves DEF sound_mode_favorites_saved
<1>8. ASSUME resolve_target
      PROVE  Moves("cli")
  <2>1. PICK s, i : Begin("cli", [at |-> "load", base |-> Default, saved_name |-> s,
                                  identity |-> i])
    BY <1>8 DEF resolve_target
  <2> DEFINE v == [at |-> "load", base |-> Default, saved_name |-> s, identity |-> i]
  <2>2. v.at \in Resting
    BY DEF Resting
  <2>3. task' = [task EXCEPT !["cli"] = v]
    BY <2>1 DEF Begin
  <2>4. UNCHANGED <<file, writer, backups>>
    BY <1>8 DEF resolve_target
  <2>5. QED
    <3> HIDE DEF v
    <3> QED  BY <2>2, <2>3, <2>4, PlainMoves
<1>9. ASSUME remember
      PROVE  Moves("cli")
  <2>1. UNCHANGED <<file, writer, backups>>
    BY <1>9 DEF remember
  <2>2. \/ Fail("cli") \/ task' = [task EXCEPT !["cli"] = Idle]
        \/ \E want : save_configuration("cli", want)
    BY <1>9 DEF remember
  <2>3. QED
    BY <2>1, <2>2, PlainMoves
<1>10. ASSUME Remembered
       PROVE  Moves("cli")
  BY <1>10, PlainMoves DEF Remembered
<1>11. ASSUME NEW p \in Puts, config_get(p)
       PROVE  Moves(p)
  <2>1. PICK b, r : Begin(p, [at |-> "asked", base |-> b, request |-> r])
    BY <1>11 DEF config_get
  <2> DEFINE v == [at |-> "asked", base |-> b, request |-> r]
  <2>2. v.at \in Resting
    BY DEF Resting
  <2>3. task' = [task EXCEPT ![p] = v]
    BY <2>1 DEF Begin
  <2>4. UNCHANGED <<file, writer, backups>>
    BY <1>11 DEF config_get
  <2>5. QED
    <3> HIDE DEF v
    <3> QED  BY <2>2, <2>3, <2>4, PlainMoves
<1>12. ASSUME NEW p \in Puts, config_put(p)
       PROVE  Moves(p)
  <2>1. UNCHANGED <<file, writer, backups>>
    BY <1>12 DEF config_put
  <2>2. CASE Accepted(p)
    <3> DEFINE v == [at |-> "save", base |-> task[p].base, want |-> The(Replacement(p))]
    <3>1. v.at \in Resting
      BY DEF Resting
    <3>2. task' = [task EXCEPT ![p] = v]
      BY <2>2 DEF Accepted, Begin
    <3>3. QED
      <4> HIDE DEF v
      <4> QED  BY <2>1, <3>1, <3>2, PlainMoves
  <2>3. Fail(p) \/ task' = [task EXCEPT ![p] = Idle] \/ Accepted(p)
    BY <1>12 DEF config_put, Refused
  <2>4. QED
    BY <2>1, <2>2, <2>3, PlainMoves
<1>13. ASSUME NEW p \in Puts, Answered(p)
       PROVE  Moves(p)
  BY <1>13, PlainMoves DEF Answered
<1>14. ASSUME NEW t \in Tasks, SaveFails(t)
       PROVE  Moves(t)
  BY <1>14, PlainMoves DEF SaveFails
<1>15. ASSUME NEW t \in Tasks, ReadExisting(t) \/ write_backup(t) \/ install_config(t)
       PROVE  Moves(t)
  <2>1. ASSUME NEW v, task' = [task EXCEPT ![t] = v] PROVE Moves(t)
    BY <1>15, <2>1, Update DEF Moves
  <2>2. CASE ReadExisting(t)
    BY <2>1, <2>2 DEF ReadExisting, Begin
  <2>3. CASE write_backup(t) /\ ~ Fail(t)
    <3>1. task' = [task EXCEPT ![t].at = "install"]
      BY <2>3 DEF write_backup
    <3>2. task' = [task EXCEPT ![t] = [task[t] EXCEPT !.at = "install"]]
      BY <3>1
    <3>3. QED
      BY <2>1, <3>2
  <2>4. CASE Fail(t)
    BY <2>1, <2>4 DEF Fail
  <2>5. CASE install_config(t)
    <3>1. task' = [task EXCEPT ![t].at = "saved"]
      BY <2>5 DEF install_config
    <3>2. task' = [task EXCEPT ![t] = [task[t] EXCEPT !.at = "saved"]]
      BY <3>1
    <3>3. QED
      BY <2>1, <3>2
  <2>6. QED
    BY <1>15, <2>2, <2>3, <2>4, <2>5
<1>16. CASE UNCHANGED vars
  BY <1>16 DEF vars
<1>17. CASE HandEdit
  BY <1>17 DEF HandEdit
<1>18. QED
  BY <1>1, <1>3, <1>4, <1>5, <1>6, <1>7, <1>8, <1>9, <1>10, <1>11, <1>12, <1>13, <1>14,
     <1>15, <1>16, <1>17 DEF Next, LeftAlone

-----------------------------------------------------------------------------
(***************************************************************************)
(* What a save has seen to before it replaces the file.                    *)
(***************************************************************************)

Kept(old) == old.blank \/ is_readable_current_schema(old) \/ old \in Range(backups)

(* The file is an Option, the backups are numbered from 0 without a gap, and *)
(* a save is about to keep a text, or has kept what it has to.               *)
Places == {"idle", "load", "asked", "save", "backup", "install", "saved", "keeping", "renaming"}
PlaceInv(t) ==
    /\ task[t].at \in Places
    /\ task[t].at = "idle" => task[t] = Idle
    /\ task[t].at \in {"backup", "install", "keeping", "renaming"} =>
          DOMAIN task[t] = {"at", "base", "want", "existing"}
    /\ task[t].at = "backup" => \E old \in task[t].existing : task[t].existing = {old}
    /\ task[t].at \in {"install", "renaming"} => \A old \in task[t].existing : Kept(old)
SaveInv ==
    /\ DOMAIN task = Tasks
    /\ file = None \/ file = Some(The(file))
    /\ \E k \in 0 .. MaxBackups : DOMAIN backups = 0 .. k - 1
    /\ \A t \in Tasks : PlaceInv(t)

\* The number a backup is given is the next one.
LEMMA NextAttempt ==
  ASSUME NEW k \in 0 .. MaxBackups, DOMAIN backups = 0 .. k - 1
  PROVE  Attempt = k
<1> USE ConfigurationAssumption
<1> DEFINE P(n) == n \notin DOMAIN backups /\ \A j \in 0 .. n - 1 : j \in DOMAIN backups
<1>1. P(k)
  OBVIOUS
<1>2. \A n \in 0 .. MaxBackups : P(n) => n = k
  <2> SUFFICES ASSUME NEW n \in 0 .. MaxBackups, P(n), n # k PROVE FALSE
    OBVIOUS
  <2>1. CASE n < k
    BY <2>1
  <2>2. CASE k < n
    <3>1. k \in 0 .. n - 1
      BY <2>2
    <3>2. QED
      BY <3>1
  <2>3. QED
    BY <2>1, <2>2
<1>3. Attempt = CHOOSE n \in 0 .. MaxBackups : P(n)
  BY DEF Attempt
<1>4. QED
  <2> HIDE DEF P
  <2> QED  BY <1>1, <1>2, <1>3

\* A backup takes the next number and touches no other.
LEMMA BackupMade ==
  ASSUME SaveInv, NEW x, Attempt < MaxBackups, backups' = With(backups, Attempt, x)
  PROVE  /\ \E k \in 0 .. MaxBackups : DOMAIN backups' = 0 .. k - 1
         /\ \A n \in DOMAIN backups : n \in DOMAIN backups' /\ backups'[n] = backups[n]
         /\ x \in Range(backups')
<1> USE ConfigurationAssumption
<1>1. PICK k \in 0 .. MaxBackups : DOMAIN backups = 0 .. k - 1
  BY DEF SaveInv
<1>2. Attempt = k
  BY <1>1, NextAttempt
<1>3. DOMAIN backups' = DOMAIN backups \cup {k} /\ backups'[k] = x
      /\ \A n \in DOMAIN backups : n # k => backups'[n] = backups[n]
  BY <1>2 DEF With
<1>4. k \notin DOMAIN backups
  BY <1>1
<1>5. x \in Range(backups')
  BY <1>3 DEF Range
<1>6. DOMAIN backups' = 0 .. (k + 1) - 1 /\ k + 1 \in 0 .. MaxBackups
  BY <1>1, <1>2, <1>3
<1>7. QED
  BY <1>3, <1>4, <1>5, <1>6

\* No step changes or drops a backup, and none leaves a gap.
LEMMA BackupsGrow ==
  ASSUME SaveInv, NEW t \in Tasks, write_backup(t)
  PROVE  /\ \E k \in 0 .. MaxBackups : DOMAIN backups' = 0 .. k - 1
         /\ \A n \in DOMAIN backups : n \in DOMAIN backups' /\ backups'[n] = backups[n]
         /\ task'[t].at = "install" => The(task[t].existing) \in Range(backups')
<1>1. Fail(t) => task'[t].at = "idle"
  BY DEF Fail, SaveInv, Idle
<1>2. CASE Fail(t) /\ UNCHANGED backups
  BY <1>1, <1>2 DEF SaveInv
<1>3. CASE Attempt < MaxBackups /\ backups' = With(backups, Attempt, The(task[t].existing))
  BY <1>3, BackupMade
<1>4. CASE Attempt < MaxBackups /\ backups' = With(backups, Attempt, Cut) /\ Fail(t)
  BY <1>1, <1>4, BackupMade
<1>5. QED
  BY <1>2, <1>3, <1>4 DEF write_backup

LEMMA LeftBackups ==
  ASSUME SaveInv, NEW p \in Puts, LeftAlone(p)
  PROVE  /\ \E k \in 0 .. MaxBackups : DOMAIN backups' = 0 .. k - 1
         /\ \A n \in DOMAIN backups : n \in DOMAIN backups' /\ backups'[n] = backups[n]
<1>1. UNCHANGED backups \/ \E x : Attempt < MaxBackups /\ backups' = With(backups, Attempt, x)
  BY DEF LeftAlone, DropPut, KeepingEnds, RenamingEnds
<1>2. CASE UNCHANGED backups
  BY <1>2 DEF SaveInv
<1>3. QED
  BY <1>1, <1>2, BackupMade

\* A move keeps the invariant of the saves.
LEMMA SaveMoves ==
  ASSUME SaveInv, NEW t \in Tasks, Moves(t)
  PROVE  SaveInv'
<1>1. \A n \in DOMAIN backups : n \in DOMAIN backups' /\ backups'[n] = backups[n]
  BY BackupsGrow DEF Moves, ReadExisting, install_config
<1>2. \E k \in 0 .. MaxBackups : DOMAIN backups' = 0 .. k - 1
  BY BackupsGrow DEF SaveInv, Moves, ReadExisting, install_config
<1>3. file' = None \/ file' = Some(The(file'))
  <2>1. file' = file \/ file' = Some(encode_text(task[t].want))
    BY DEF Moves, ReadExisting, write_backup, install_config
  <2>2. QED
    BY <2>1, TheValue DEF SaveInv
<1>4. ASSUME NEW old, Kept(old)
      PROVE  Kept(old)'
  BY <1>1, <1>4 DEF Kept, Range
<1>5. ASSUME NEW u \in Tasks, u # t
      PROVE  PlaceInv(u)'
  <2>1. task'[u] = task[u] /\ PlaceInv(u)
    BY <1>5 DEF Moves, SaveInv
  <2>2. QED
    BY <1>4, <2>1 DEF PlaceInv
<1>6. PlaceInv(t)'
  <2>1. CASE task'[t] = Idle \/ task'[t].at \in Resting
    BY <2>1 DEF PlaceInv, Idle, Resting, Places
  <2>2. CASE ReadExisting(t)
    <3> DEFINE place == IF plan_save(file) = None THEN "install" ELSE "backup"
               v == [at |-> place, base |-> task[t].base, want |-> task[t].want,
                     existing |-> file]
    <3>1. task' = [task EXCEPT ![t] = v]
      BY <2>2 DEF ReadExisting, Begin
    <3>2. task'[t] = v
      BY <3>1 DEF SaveInv
    <3>3. v.at = place /\ v.existing = file /\ DOMAIN v = {"at", "base", "want", "existing"}
      OBVIOUS
    <3>4. place = "install" => \A old \in file : Kept(old)'
      BY <2>2 DEF plan_save, None, Kept, ReadExisting
    <3>5. place = "backup" => \E old : file = {old}
      BY DEF plan_save, None, Some, SaveInv
    <3>6. place \in {"install", "backup"}
      OBVIOUS
    <3>7. QED
      <4> HIDE DEF v, place
      <4> QED  BY <3>2, <3>3, <3>4, <3>5, <3>6 DEF PlaceInv, Places
  <2>3. CASE write_backup(t)
    <3>1. CASE Fail(t)
      BY <3>1 DEF Fail, SaveInv, PlaceInv, Idle, Places
    <3>2. CASE task' = [task EXCEPT ![t].at = "install"]
      <4>1. task[t].at = "backup" /\ PlaceInv(t)
        BY <2>3 DEF write_backup, At, SaveInv
      <4>2. DOMAIN task[t] = {"at", "base", "want", "existing"}
        BY <4>1 DEF PlaceInv
      <4>3. /\ task'[t].at = "install" /\ task'[t].existing = task[t].existing
            /\ DOMAIN task'[t] = {"at", "base", "want", "existing"}
        BY <3>2, <4>2 DEF SaveInv
      <4>4. The(task[t].existing) \in Range(backups')
        BY <2>3, <4>3, BackupsGrow
      <4>5. PICK old : task[t].existing = {old}
        BY <4>1 DEF PlaceInv
      <4>6. The(task[t].existing) = old
        BY <4>5, TheValue DEF Some
      <4>7. QED
        BY <4>3, <4>4, <4>5, <4>6 DEF PlaceInv, Kept, Places
    <3>3. QED
      BY <2>3, <3>1, <3>2 DEF write_backup
  <2>4. CASE install_config(t)
    <3>1. task[t].at = "install" /\ PlaceInv(t)
      BY <2>4 DEF install_config, At, SaveInv
    <3>2. DOMAIN task[t] = {"at", "base", "want", "existing"}
      BY <3>1 DEF PlaceInv
    <3>3. task'[t].at = "saved"
      BY <2>4, <3>2 DEF install_config, SaveInv
    <3>4. QED
      BY <3>3 DEF PlaceInv, Places
  <2>5. QED
    BY <2>1, <2>2, <2>3, <2>4 DEF Moves
<1>7. QED
  BY <1>2, <1>3, <1>5, <1>6 DEF SaveInv, Moves

\* What a PUT that is dropped becomes: nothing, or a backup or a rename that
\* goes on alone.
LEMMA LeftPlaces ==
  ASSUME SaveInv, NEW p \in Puts, LeftAlone(p)
  PROVE  /\ DOMAIN task' = Tasks /\ \A u \in Tasks : u # p => task'[u] = task[u]
         /\ \/ task' = [task EXCEPT ![p] = Idle]
            \/ \E v : /\ task' = [task EXCEPT ![p] = v]
                     /\ DOMAIN v = {"at", "base", "want", "existing"}
                     /\ v.want = task[p].want /\ v.existing = task[p].existing
                     /\ \/ v.at = "keeping" /\ task[p].at = "backup"
                        \/ v.at = "renaming" /\ task[p].at = "install"
<1>1. DOMAIN task = Tasks /\ p \in Tasks /\ PlaceInv(p)
  BY Writers DEF SaveInv
<1>2. CASE task' = [task EXCEPT ![p] = Idle]
  BY <1>1, <1>2
<1>3. ASSUME NEW from, NEW to, task[p].at = from, task' = [task EXCEPT ![p].at = to],
             \/ from = "backup" /\ to = "keeping"
             \/ from = "install" /\ to = "renaming"
      PROVE  \E v : /\ task' = [task EXCEPT ![p] = v]
                   /\ DOMAIN v = {"at", "base", "want", "existing"}
                   /\ v.want = task[p].want /\ v.existing = task[p].existing
                   /\ \/ v.at = "keeping" /\ task[p].at = "backup"
                      \/ v.at = "renaming" /\ task[p].at = "install"
  <2> DEFINE v == [task[p] EXCEPT !.at = to]
  <2>1. DOMAIN task[p] = {"at", "base", "want", "existing"}
    BY <1>1, <1>3 DEF PlaceInv
  <2>2. task' = [task EXCEPT ![p] = v]
    BY <1>3
  <2>3. /\ DOMAIN v = {"at", "base", "want", "existing"} /\ v.at = to
        /\ v.want = task[p].want /\ v.existing = task[p].existing
    BY <2>1
  <2>4. QED
    <3> HIDE DEF v
    <3> QED  BY <1>3, <2>2, <2>3
<1>4. \/ task' = [task EXCEPT ![p] = Idle]
      \/ task[p].at = "backup" /\ task' = [task EXCEPT ![p].at = "keeping"]
      \/ task[p].at = "install" /\ task' = [task EXCEPT ![p].at = "renaming"]
  BY DEF LeftAlone, DropPut, KeepingEnds, RenamingEnds, At
<1>5. QED
  BY <1>1, <1>2, <1>3, <1>4

LEMMA LeftMoves ==
  ASSUME SaveInv, NEW p \in Puts, LeftAlone(p)
  PROVE  SaveInv'
<1>1. \A n \in DOMAIN backups : n \in DOMAIN backups' /\ backups'[n] = backups[n]
  BY LeftBackups
<1>2. ASSUME NEW old, Kept(old)
      PROVE  Kept(old)'
  BY <1>1, <1>2 DEF Kept, Range
<1>3. file' = None \/ file' = Some(The(file'))
  <2>1. file' = file \/ file' = Some(encode_text(task[p].want))
    BY DEF LeftAlone, DropPut, KeepingEnds, RenamingEnds
  <2>2. QED
    BY <2>1, TheValue DEF SaveInv
<1>4. ASSUME NEW u \in Tasks, u # p
      PROVE  PlaceInv(u)'
  <2>1. task'[u] = task[u] /\ PlaceInv(u)
    BY <1>4, LeftPlaces DEF SaveInv
  <2>2. QED
    BY <1>2, <2>1 DEF PlaceInv
<1>5. PlaceInv(p)'
  <2>1. DOMAIN task = Tasks /\ p \in Tasks /\ PlaceInv(p)
    BY Writers DEF SaveInv
  <2>2. CASE task' = [task EXCEPT ![p] = Idle]
    BY <2>1, <2>2 DEF PlaceInv, Idle, Places
  <2>3. CASE ~ (task' = [task EXCEPT ![p] = Idle])
    <3>1. PICK v : /\ task' = [task EXCEPT ![p] = v]
                   /\ DOMAIN v = {"at", "base", "want", "existing"}
                   /\ v.existing = task[p].existing
                   /\ \/ v.at = "keeping"
                      \/ v.at = "renaming" /\ task[p].at = "install"
      BY <2>3, LeftPlaces
    <3>2. task'[p] = v
      BY <2>1, <3>1
    <3>3. QED
      BY <1>2, <2>1, <3>1, <3>2 DEF PlaceInv, Places
  <2>4. QED
    BY <2>2, <2>3
<1>6. QED
  BY <1>3, <1>4, <1>5, LeftBackups, LeftPlaces DEF SaveInv

\* What a save has kept stays kept, whoever else is saving (files.rs).
THEOREM SavesAreReady == Spec => []SaveInv
<1>1. Init => SaveInv
  <2>1. Init => file = None \/ file = Some(The(file))
    BY ConfigurationAssumption DEF Init
  <2>2. Init => DOMAIN backups = 0 .. 0 - 1
    BY DEF Init
  <2>3. Init => \A t \in Tasks : PlaceInv(t)
    BY DEF Init, PlaceInv, Idle, Places
  <2>4. QED
    BY <2>1, <2>2, <2>3, ConfigurationAssumption DEF Init, SaveInv
<1>2. SaveInv /\ [Next]_vars => SaveInv'
  <2> SUFFICES ASSUME SaveInv, [Next]_vars
               PROVE  SaveInv'
    OBVIOUS
  <2>1. CASE \E t \in Tasks : Moves(t)
    BY <2>1, SaveMoves
  <2>2. CASE \E p \in Puts : LeftAlone(p)
    BY <2>2, LeftMoves
  <2>3. CASE UNCHANGED <<task, backups>> /\ (UNCHANGED <<file, writer>> \/ HandEdit)
    <3>1. file' = None \/ file' = Some(The(file'))
      BY <2>3, TheValue DEF SaveInv, HandEdit
    <3>2. QED
      BY <2>3, <3>1 DEF SaveInv, PlaceInv, Kept
  <2>4. QED
    BY <2>1, <2>2, <2>3, OneWriterMoves DEF SaveInv
<1>3. QED
  BY <1>1, <1>2, PTL DEF Spec

\* KeptBeforeReplaced: no save replaces a text this release cannot read
\* before it stands in a backup, and no backup is ever changed (plan_save).
THEOREM BackupsComeFirst == Spec => KeptBeforeReplaced
<1> DEFINE Step == /\ \A n \in DOMAIN backups : n \in DOMAIN backups' /\ backups'[n] = backups[n]
                   /\ \A t \in Tasks :
                         (Replaces(t) /\ file = task[t].existing)
                            => \A old \in file :
                                  \/ old.blank
                                  \/ schema_of(old) = Some("MultiReceiver") /\ decode_text(old) # None
                                  \/ old \in Range(backups)
<1>1. SaveInv /\ [Next]_vars => [Step]_vars
  <2> SUFFICES ASSUME SaveInv, [Next]_vars
               PROVE  Step
    OBVIOUS
  <2>1. \A n \in DOMAIN backups : n \in DOMAIN backups' /\ backups'[n] = backups[n]
    <3>1. CASE \E t \in Tasks : Moves(t)
      BY <3>1, BackupsGrow DEF Moves, ReadExisting, install_config
    <3>2. CASE \E p \in Puts : LeftAlone(p)
      BY <3>2, LeftBackups
    <3>3. QED
      BY <3>1, <3>2, OneWriterMoves DEF SaveInv
  <2>2. ASSUME NEW t \in Tasks, Replaces(t), file = task[t].existing, NEW old \in file
        PROVE  \/ old.blank
               \/ schema_of(old) = Some("MultiReceiver") /\ decode_text(old) # None
               \/ old \in Range(backups)
    BY <2>2 DEF SaveInv, PlaceInv, Replaces, Kept, is_readable_current_schema
  <2>3. QED
    BY <2>1, <2>2
<1>2. QED
  BY <1>1, SavesAreReady, PTL DEF Spec, KeptBeforeReplaced

-----------------------------------------------------------------------------
(***************************************************************************)
(* Every configuration anybody holds is one.                               *)
(***************************************************************************)

Saving == {"save", "backup", "install", "saved"}
Sendable(dto) ==
    /\ \A n \in DOMAIN dto.sound_mode_favorites :
          IsFiniteSet(DOMAIN dto.sound_mode_favorites[n])
    /\ dto.receivers = [n \in DOMAIN dto.receivers |-> dto.receivers[n]]
HeldInv(t) ==
    /\ task[t].at \in Saving \cup {"renaming"} => Config(task[t].want)
    /\ t = "favorites" /\ task[t].at = "load" => Config(task[t].saving)
    /\ t = "favorites" /\ task[t].at \in Saving => Config(task[t].base)
    /\ t \in Puts /\ task[t].at = "asked" => Config(task[t].base) /\ Sendable(task[t].request)
Reads(text) == \A c \in decode_text(text) : Config(c)
ConfigInv ==
    /\ \A text \in file : Reads(text)
    /\ Config(configured) /\ \A c \in pending : Config(c)
    /\ \A t \in Tasks : HeldInv(t)

LEMMA DefaultIsOne == Config(Default)
<1>1. /\ << >> = [n \in DOMAIN << >> |-> << >>[n]]
      /\ \A n \in DOMAIN << >> : FALSE
  OBVIOUS
<1>2. QED
  BY <1>1, Made DEF Default

\* What is loaded is a configuration.
LEMMA LoadedIsOne ==
  ASSUME SaveInv, ConfigInv
  PROVE  /\ \A c \in load(file) : Config(c)
         /\ load(file) # None => load(file) = Some(The(load(file))) /\ Config(The(load(file)))
<1>1. \A c \in load(file) : Config(c)
  <2>1. CASE file = None
    BY <2>1, DefaultIsOne DEF load, Some
  <2>2. CASE file # None
    <3>1. The(file) \in file
      BY <2>2 DEF The, None
    <3>2. QED
      BY <2>2, <3>1 DEF load, ConfigInv, Reads
  <2>3. QED
    BY <2>1, <2>2
<1>2. \A text : \A c, d \in decode_text(text) : c = d
  BY DEF decode_text, Some, None
<1>3. \A c, d \in load(file) : c = d
  BY <1>2 DEF load, Some
<1>4. load(file) # None => The(load(file)) \in load(file)
  BY DEF The, None
<1>5. QED
  BY <1>1, <1>3, <1>4 DEF Some

\* The steps of a save carry what is to be written.
LEMMA SaveCarries ==
  ASSUME SaveInv, NEW t \in Tasks,
         ReadExisting(t) \/ write_backup(t) \/ install_config(t)
  PROVE  \/ task'[t] = Idle
         \/ /\ task[t].at \in Saving \ {"saved"} /\ task'[t].at \in Saving
            /\ task'[t].want = task[t].want /\ task'[t].base = task[t].base
<1>1. DOMAIN task = Tasks /\ PlaceInv(t)
  BY DEF SaveInv
<1>2. CASE ReadExisting(t)
  <2> DEFINE place == IF plan_save(file) = None THEN "install" ELSE "backup"
             v == [at |-> place, base |-> task[t].base, want |-> task[t].want, existing |-> file]
  <2>1. task' = [task EXCEPT ![t] = v] /\ task[t].at = "save"
    BY <1>2 DEF ReadExisting, Begin, At
  <2>2. v.at = place /\ v.want = task[t].want /\ v.base = task[t].base
        /\ place \in {"install", "backup"}
    OBVIOUS
  <2>3. QED
    <3> HIDE DEF v, place
    <3> QED  BY <1>1, <2>1, <2>2 DEF Saving
<1>3. ASSUME NEW place \in {"install", "saved"}, task' = [task EXCEPT ![t].at = place],
             task[t].at \in {"backup", "install"}
      PROVE  /\ task[t].at \in Saving \ {"saved"} /\ task'[t].at \in Saving
             /\ task'[t].want = task[t].want /\ task'[t].base = task[t].base
  BY <1>1, <1>3 DEF PlaceInv, Saving
<1>4. CASE write_backup(t)
  BY <1>1, <1>3, <1>4 DEF write_backup, Fail, At
<1>5. CASE install_config(t)
  BY <1>3, <1>5 DEF install_config, At
<1>6. QED
  BY <1>2, <1>4, <1>5

\* Setting one writer's entry aright keeps everybody's.
LEMMA HeldUpdate ==
  ASSUME DOMAIN task = Tasks, \A u \in Tasks : HeldInv(u), NEW t \in Tasks, NEW v,
         task' = [task EXCEPT ![t] = v],
         v.at \in Saving \cup {"renaming"} => Config(v.want),
         t = "favorites" /\ v.at = "load" => Config(v.saving),
         t = "favorites" /\ v.at \in Saving => Config(v.base),
         t \in Puts /\ v.at = "asked" => Config(v.base) /\ Sendable(v.request)
  PROVE  \A u \in Tasks : HeldInv(u)'
BY DEF HeldInv

LEMMA HeldIdle ==
  ASSUME DOMAIN task = Tasks, \A u \in Tasks : HeldInv(u), NEW t \in Tasks,
         Fail(t) \/ task' = [task EXCEPT ![t] = Idle]
  PROVE  \A u \in Tasks : HeldInv(u)'
<1>1. Idle.at \notin Saving \cup {"load", "asked", "renaming"}
  BY DEF Idle, Saving
<1>2. task' = [task EXCEPT ![t] = Idle]
  BY DEF Fail
<1>3. QED
  BY <1>1, <1>2, HeldUpdate

LEMMA HeldSave ==
  ASSUME DOMAIN task = Tasks, \A u \in Tasks : HeldInv(u), NEW t \in Tasks, NEW want,
         Config(want),
         \/ save_configuration(t, want) /\ t # "favorites"
         \/ \E b : /\ Begin(t, [at |-> "save", base |-> b, want |-> want])
                   /\ t = "favorites" => Config(b)
  PROVE  \A u \in Tasks : HeldInv(u)'
<1>1. ASSUME NEW b, Begin(t, [at |-> "save", base |-> b, want |-> want]),
             t = "favorites" => Config(b)
      PROVE  \A u \in Tasks : HeldInv(u)'
  <2> DEFINE v == [at |-> "save", base |-> b, want |-> want]
  <2>1. v.at = "save" /\ v.want = want /\ v.base = b
    OBVIOUS
  <2>2. task' = [task EXCEPT ![t] = v]
    BY <1>1 DEF Begin
  <2>3. QED
    <3> HIDE DEF v
    <3> QED  BY <1>1, <2>1, <2>2, HeldUpdate
<1>2. QED
  BY <1>1, HeldIdle DEF save_configuration

\* A step keeps whatever anybody holds a configuration.
LEMMA HeldNext ==
  ASSUME SaveInv, ConfigInv, [Next]_vars
  PROVE  \A t \in Tasks : HeldInv(t)'
<1> DEFINE Goal == \A t \in Tasks : HeldInv(t)'
<1> USE Writers
<1>a. DOMAIN task = Tasks /\ \A t \in Tasks : HeldInv(t)
  BY DEF SaveInv, ConfigInv
<1>u. ASSUME task' = task PROVE Goal
  BY <1>a, <1>u DEF HeldInv
<1>1. ASSUME NEW h, NEW n, SaveReceiver(h, n)
      PROVE  Goal
  <2>1. PICK e : Begin("receiver", [at |-> "load", base |-> Default, entry |-> e])
    BY <1>1 DEF SaveReceiver
  <2> DEFINE v == [at |-> "load", base |-> Default, entry |-> e]
  <2>2. v.at = "load" /\ v.at \notin Saving
    BY DEF Saving
  <2>3. task' = [task EXCEPT !["receiver"] = v]
    BY <2>1 DEF Begin
  <2>4. QED
    <3> HIDE DEF v
    <3> QED  BY <1>a, <2>2, <2>3, HeldUpdate
<1>2. ASSUME NEW c, StartFavorites(c), Config(c)
      PROVE  Goal
  <2> DEFINE v == [at |-> "load", base |-> Default, saving |-> c]
  <2>1. v.at = "load" /\ v.at \notin Saving /\ v.saving = c
    BY DEF Saving
  <2>2. task' = [task EXCEPT !["favorites"] = v]
    BY <1>2 DEF Begin, StartFavorites
  <2>3. QED
    <3> HIDE DEF v
    <3> QED  BY <1>a, <1>2, <2>1, <2>2, HeldUpdate
<1>3. ASSUME NEW m, toggle_sound_mode_favorite(m)
      PROVE  Goal
  <2>1. PICK c \in toggle_current_sound_mode_favorite(configured, m) :
           task' = task \/ StartFavorites(c)
    BY <1>3 DEF toggle_sound_mode_favorite
  <2>2. Config(c)
    BY Toggled DEF ConfigInv
  <2>3. QED
    BY <1>2, <1>u, <2>1, <2>2
<1>4. ASSUME save_receiver
      PROVE  Goal
  <2>1. CASE load(file) = None
    BY <1>4, <1>a, <2>1, HeldIdle DEF save_receiver
  <2>2. CASE load(file) # None
    <3> DEFINE c == The(load(file))
               e == task["receiver"].entry
               want == [Listed(c, e.name, e.identity) EXCEPT !.current = Some(e.name)]
    <3>1. save_configuration("receiver", want)
      BY <1>4, <2>2 DEF save_receiver
    <3>2. Config(c)
      BY <2>2, LoadedIsOne
    <3>3. Listed(c, e.name, e.identity) =
             [current |-> c.current, receivers |-> With(c.receivers, e.name, e.identity),
              favorites |-> c.favorites] /\ Config(Listed(c, e.name, e.identity))
      <4> HIDE DEF c, e
      <4> QED  BY <3>2, Added
    <3> DEFINE l == Listed(c, e.name, e.identity)
    <3>4. want = [current |-> Some(e.name), receivers |-> l.receivers, favorites |-> l.favorites]
      <4>1. l = [current |-> l.current, receivers |-> l.receivers, favorites |-> l.favorites]
        BY <3>3, Parts
      <4>2. want = [l EXCEPT !.current = Some(e.name)]
        OBVIOUS
      <4>3. QED
        <5> HIDE DEF l, e, want
        <5> QED  BY <4>1, <4>2
    <3>5. Config(want)
      <4>1. Config([current |-> Some(e.name), receivers |-> l.receivers, favorites |-> l.favorites])
        <5>1. Config(l)
          BY <3>3
        <5>2. QED
          <6> HIDE DEF l, e
          <6> QED  BY <5>1, Made DEF Config
      <4>2. QED
        <5> HIDE DEF l, e, want
        <5> QED  BY <3>4, <4>1
    <3>6. QED
      <4> HIDE DEF want, e
      <4> QED  BY <1>a, <3>1, <3>5, HeldSave
  <2>3. QED
    BY <2>1, <2>2
<1>5. ASSUME ReceiverSaved
      PROVE  Goal
  BY <1>5, <1>a, HeldIdle DEF ReceiverSaved
<1>6. ASSUME save_favorites
      PROVE  Goal
  <2> DEFINE saving == task["favorites"].saving
             d == The(load(file))
             want == [d EXCEPT !.favorites = saving.favorites]
  <2>1. CASE Fail("favorites")
    BY <1>a, <2>1, HeldIdle
  <2>2. CASE load(file) # None /\ Begin("favorites", [at |-> "save", base |-> saving, want |-> want])
    <3>1. Config(d) /\ Config(saving)
      BY <1>6, <1>a, <2>2, LoadedIsOne DEF save_favorites, HeldInv, At
    <3>2. want = [current |-> d.current, receivers |-> d.receivers, favorites |-> saving.favorites]
      <4> HIDE DEF d, saving
      <4> QED  BY <3>1, Parts
    <3>3. Config(want)
      <4>1. Config([current |-> d.current, receivers |-> d.receivers, favorites |-> saving.favorites])
        <5> HIDE DEF d, saving
        <5> QED  BY <3>1, Made DEF Config
      <4>2. QED
        BY <3>2, <4>1
    <3>4. QED
      <4> HIDE DEF want, saving
      <4> QED  BY <1>a, <2>2, <3>1, <3>3, HeldSave
  <2>3. QED
    BY <1>6, <2>1, <2>2 DEF save_favorites
<1>7. ASSUME sound_mode_favorites_saved
      PROVE  Goal
  <2>1. CASE pending = None
    BY <1>7, <1>a, <2>1, HeldIdle DEF sound_mode_favorites_saved
  <2>2. CASE pending # None
    <3>1. Config(The(pending))
      BY <2>2 DEF ConfigInv, The, None
    <3>2. QED
      BY <1>7, <1>2, <2>2, <3>1 DEF sound_mode_favorites_saved
  <2>3. QED
    BY <2>1, <2>2
<1>8. ASSUME resolve_target
      PROVE  Goal
  <2>1. PICK s, i : Begin("cli", [at |-> "load", base |-> Default, saved_name |-> s,
                                  identity |-> i])
    BY <1>8 DEF resolve_target
  <2> DEFINE v == [at |-> "load", base |-> Default, saved_name |-> s, identity |-> i]
  <2>2. v.at = "load" /\ v.at \notin Saving
    BY DEF Saving
  <2>3. task' = [task EXCEPT !["cli"] = v]
    BY <2>1 DEF Begin
  <2>4. QED
    <3> HIDE DEF v
    <3> QED  BY <1>a, <2>2, <2>3, HeldUpdate
<1>9. ASSUME remember
      PROVE  Goal
  <2> DEFINE kept == The(load(file)).favorites
             f(n) == [k \in DOMAIN kept \cap {n} |-> kept[k]]
             made(n, i) == [current |-> Some(n), receivers |-> Only(n, i), favorites |-> f(n)]
  <2>1. \/ Fail("cli") \/ task' = [task EXCEPT !["cli"] = Idle]
        \/ load(file) # None /\ \E n, i : save_configuration("cli", made(n, i))
    BY <1>9 DEF remember
  <2>2. CASE load(file) # None /\ \E n, i : save_configuration("cli", made(n, i))
    <3>1. PICK n, i : save_configuration("cli", made(n, i))
      BY <2>2
    <3>2. Config(The(load(file)))
      BY <2>2, LoadedIsOne
    <3>3. f(n) = [k \in DOMAIN f(n) |-> f(n)[k]]
          /\ \A k \in DOMAIN f(n) : IsFiniteSet(f(n)[k]) /\ "" \notin f(n)[k]
      BY <3>2 DEF Config
    <3>4. Only(n, i) = [k \in DOMAIN Only(n, i) |-> Only(n, i)[k]]
      BY DEF Only
    <3>5. Config(made(n, i))
      <4> HIDE DEF f
      <4> QED  BY <3>3, <3>4, Made
    <3>6. QED
      <4> HIDE DEF made
      <4> QED  BY <1>a, <3>1, <3>5, HeldSave
  <2>3. QED
    <3> HIDE DEF made
    <3> QED  BY <1>a, <2>1, <2>2, HeldIdle
<1>10. ASSUME Remembered
       PROVE  Goal
  BY <1>10, <1>a, HeldIdle DEF Remembered
<1>11. ASSUME NEW p \in Puts, config_get(p)
       PROVE  Goal
  <2>0. PICK c \in load(file) : \E edited \in Edits(c) :
           Begin(p, [at |-> "asked", base |-> c, request |-> ConfigDto(edited)])
    BY <1>11 DEF config_get
  <2>1. PICK edited \in Edits(c) :
           Begin(p, [at |-> "asked", base |-> c, request |-> ConfigDto(edited)])
    BY <2>0
  <2> DEFINE v == [at |-> "asked", base |-> c, request |-> ConfigDto(edited)]
  <2>2. Config(c) /\ Sendable(ConfigDto(edited))
    BY LoadedIsOne, Sent DEF Sendable
  <2>3. v.at = "asked" /\ v.at \notin Saving /\ v.base = c /\ v.request = ConfigDto(edited)
    BY DEF Saving
  <2>4. task' = [task EXCEPT ![p] = v]
    BY <2>1 DEF Begin
  <2>5. QED
    <3> HIDE DEF v
    <3> QED  BY <1>a, <2>2, <2>3, <2>4, HeldUpdate
<1>12. ASSUME NEW p \in Puts, config_put(p)
       PROVE  Goal
  <2>1. CASE Accepted(p) /\ Replacement(p) # None
    <3>1. The(Replacement(p)) \in config_of(task[p].request)
      BY <2>1 DEF Replacement, The, None
    <3>2. Sendable(task[p].request)
      BY <1>a, <1>12 DEF HeldInv, config_put, At
    <3>3. Config(The(Replacement(p)))
      BY <3>1, <3>2, ReadRequest DEF Sendable
    <3>4. QED
      BY <1>a, <2>1, <3>3, HeldSave DEF Accepted
  <2>2. QED
    BY <1>12, <1>a, <2>1, HeldIdle DEF config_put, Refused
<1>13. ASSUME NEW p \in Puts, Answered(p)
       PROVE  Goal
  BY <1>13, <1>a, HeldIdle DEF Answered
<1>14. ASSUME NEW t \in Tasks, SaveFails(t)
       PROVE  Goal
  BY <1>14, <1>a, HeldIdle DEF SaveFails
<1>15. ASSUME NEW t \in Tasks, ReadExisting(t) \/ write_backup(t) \/ install_config(t)
       PROVE  Goal
  <2>1. \A u \in Tasks : u # t => task'[u] = task[u]
    BY <1>15, <1>a DEF ReadExisting, write_backup, install_config, Begin, Fail
  <2>2. HeldInv(t)'
    BY <1>15, <1>a, SaveCarries DEF HeldInv, Idle, Saving
  <2>3. QED
    BY <1>a, <2>1, <2>2 DEF HeldInv
<1>16. ASSUME NEW p \in Puts, LeftAlone(p)
       PROVE  Goal
  <2>1. CASE task' = [task EXCEPT ![p] = Idle]
    BY <1>a, <2>1, HeldIdle
  <2>2. CASE ~ (task' = [task EXCEPT ![p] = Idle])
    <3>1. PICK v : /\ task' = [task EXCEPT ![p] = v]
                   /\ DOMAIN v = {"at", "base", "want", "existing"}
                   /\ v.want = task[p].want /\ v.existing = task[p].existing
                   /\ \/ v.at = "keeping" /\ task[p].at = "backup"
                      \/ v.at = "renaming" /\ task[p].at = "install"
      BY <1>16, <2>2, LeftPlaces
    <3>2. task[p].at = "install" => Config(task[p].want)
      BY <1>a DEF HeldInv, Saving
    <3>3. v.at \notin Saving \cup {"load", "asked"}
      BY <3>1 DEF Saving
    <3>4. QED
      BY <1>a, <3>1, <3>2, <3>3, HeldUpdate
  <2>3. QED
    BY <2>1, <2>2
<1>17. CASE UNCHANGED vars \/ HandEdit
  BY <1>17, <1>u DEF vars, HandEdit
<1>18. QED
  BY <1>1, <1>3, <1>4, <1>5, <1>6, <1>7, <1>8, <1>9, <1>10, <1>11, <1>12, <1>13, <1>14,
     <1>15, <1>16, <1>17 DEF Next, LeftAlone

\* Who changes the file, and who the window's own copy.
LEMMA FileChanges ==
  ASSUME [Next]_vars
  PROVE  \/ UNCHANGED file \/ HandEdit
         \/ (\E t \in Tasks : install_config(t)) \/ (\E p \in Puts : RenamingEnds(p))
BY DEF Next, vars, SaveReceiver, toggle_sound_mode_favorite, save_receiver, ReceiverSaved,
   save_favorites, sound_mode_favorites_saved, resolve_target, remember, Remembered,
   config_get, config_put, Answered, DropPut, KeepingEnds, ReadExisting, write_backup, SaveFails

LEMMA WindowChanges ==
  ASSUME [Next]_vars
  PROVE  \/ UNCHANGED window
         \/ (\E t \in Tasks : Fail(t))
         \/ (\E m \in Modes : toggle_sound_mode_favorite(m))
         \/ ReceiverSaved \/ sound_mode_favorites_saved
<1> USE Writers
<1>1. ASSUME NEW t \in Tasks, NEW want, save_configuration(t, want)
      PROVE  UNCHANGED window \/ Fail(t)
  BY <1>1 DEF save_configuration
<1>2. ASSUME save_receiver \/ remember
      PROVE  UNCHANGED window \/ \E t \in Tasks : Fail(t)
  <2>1. CASE save_receiver
    BY <1>1, <2>1 DEF save_receiver
  <2>2. CASE remember
    BY <1>1, <2>2 DEF remember
  <2>3. QED
    BY <1>2, <2>1, <2>2
<1>3. QED
  BY <1>2 DEF Next, vars, SaveReceiver, save_favorites, resolve_target, Remembered,
     config_get, config_put, Refused, Accepted, Answered, DropPut, KeepingEnds, RenamingEnds,
     ReadExisting, write_backup, SaveFails, install_config, HandEdit

\* The invariant of what is held.
THEOREM ConfigurationsAreHeld == Spec => []ConfigInv
<1>1. Init => ConfigInv
  <2> SUFFICES ASSUME Init
               PROVE  ConfigInv
    OBVIOUS
  <2>1. \A text \in file : Reads(text)
    BY ConfigurationAssumption, DecodedShape DEF Init, Reads
  <2>2. \A t \in Tasks : HeldInv(t)
    BY DEF Init, HeldInv, Idle, Saving
  <2>3. Config(configured)
    <3>1. CASE load(file) = None
      BY <3>1, DefaultIsOne DEF Init
    <3>2. CASE file = None
      BY <3>2, DefaultIsOne, TheValue DEF Init, load, None, Some
    <3>3. CASE load(file) # None /\ file # None
      <4>1. The(file) \in file
        BY <3>3 DEF The, None
      <4>2. The(load(file)) \in decode_text(The(file))
        BY <3>3 DEF The, None, load
      <4>3. QED
        BY <3>3, <2>1, <4>1, <4>2 DEF Init, Reads
    <3>4. QED
      BY <3>1, <3>2, <3>3
  <2>4. QED
    BY <2>1, <2>2, <2>3 DEF ConfigInv, Init, None
<1>2. SaveInv /\ ConfigInv /\ [Next]_vars => ConfigInv'
  <2> SUFFICES ASSUME SaveInv, ConfigInv, [Next]_vars
               PROVE  ConfigInv'
    OBVIOUS
  <2>1. \A text \in file' : Reads(text)
    <3>1. CASE UNCHANGED file
      BY <3>1 DEF ConfigInv
    <3>2. CASE HandEdit
      BY <3>2, ConfigurationAssumption, DecodedShape DEF HandEdit, Some, Reads
    <3>3. ASSUME NEW t \in Tasks, install_config(t)
          PROVE  \A text \in file' : Reads(text)
      <4>1. Config(task[t].want)
        BY <3>3 DEF ConfigInv, HeldInv, install_config, At, Saving
      <4>2. file' = Some(encode_text(task[t].want))
        BY <3>3 DEF install_config
      <4>3. QED
        BY <4>1, <4>2, Tidied, WrittenReadsBack DEF Some, Reads
    <3>4. ASSUME NEW p \in Puts, RenamingEnds(p), file' # file
          PROVE  \A text \in file' : Reads(text)
      <4>1. Config(task[p].want)
        BY <3>4, Writers DEF ConfigInv, HeldInv, RenamingEnds, At
      <4>2. file' = Some(encode_text(task[p].want))
        BY <3>4 DEF RenamingEnds
      <4>3. QED
        BY <4>1, <4>2, Tidied, WrittenReadsBack DEF Some, Reads
    <3>5. QED
      BY <3>1, <3>2, <3>3, <3>4, FileChanges
  <2>2. Config(configured') /\ \A c \in pending' : Config(c)
    <3>1. CASE UNCHANGED window
      BY <3>1 DEF ConfigInv, window
    <3>2. CASE \E t \in Tasks : Fail(t)
      BY <3>2 DEF ConfigInv, Fail, None
    <3>3. ASSUME NEW m, toggle_sound_mode_favorite(m)
          PROVE  Config(configured') /\ \A c \in pending' : Config(c)
      BY <3>3, Toggled DEF ConfigInv, toggle_sound_mode_favorite, Some
    <3>4. CASE ReceiverSaved
      BY <3>4, Writers DEF ConfigInv, ReceiverSaved, HeldInv, At, Saving
    <3>5. CASE sound_mode_favorites_saved
      <4>1. Config(task["favorites"].base)
        BY <3>5, Writers DEF ConfigInv, sound_mode_favorites_saved, HeldInv, At, Saving
      <4>2. pending # None => Config(The(pending))
        BY DEF ConfigInv, The, None
      <4>3. QED
        BY <3>5, <4>1, <4>2 DEF sound_mode_favorites_saved, None
    <3>6. QED
      BY <3>1, <3>2, <3>3, <3>4, <3>5, WindowChanges
  <2>3. QED
    BY <2>1, <2>2, HeldNext DEF ConfigInv
<1>3. QED
  BY <1>1, <1>2, SavesAreReady, PTL DEF Spec

-----------------------------------------------------------------------------
(***************************************************************************)
(* The API's clients.                                                      *)
(***************************************************************************)

(* Who saves for the server holds its lock, and unless somebody outside it  *)
(* wrote since, the file still says what its client read.                   *)
ServerInv(p) ==
    /\ task[p].at \in Saving => lock = {p}
    /\ task[p].at \in Saving \ {"saved"} /\ writer = "server" => load(file) = Some(task[p].base)
LockInv == \A p \in Puts : ServerInv(p)

\* What others do leaves a client's save as it is.
LEMMA Aside ==
  ASSUME NEW p \in Puts, ServerInv(p), task'[p] = task[p],
         lock' = lock \/ \E t \in Tasks \ {p} : lock' = lock \ {t},
         UNCHANGED <<file, writer>> \/ writer' # "server"
  PROVE  ServerInv(p)'
<1>1. load(file)' = load(file) \/ writer' # "server"
  BY DEF load
<1>2. QED
  BY <1>1 DEF ServerInv

LEMMA GivenUp ==
  ASSUME DOMAIN task = Tasks, NEW p \in Puts, ServerInv(p), NEW t \in Tasks,
         UNCHANGED <<file, writer>>, 
         \/ Fail(t)
         \/ task' = [task EXCEPT ![t] = Idle] /\ lock' \in {lock, lock \ {t}}
  PROVE  ServerInv(p)'
<1>1. task' = [task EXCEPT ![t] = Idle] /\ lock' \in {lock, lock \ {t}}
  BY DEF Fail
<1>2. CASE t = p
  BY <1>1, <1>2, Writers DEF ServerInv, Idle, Saving
<1>3. CASE t # p
  BY <1>1, <1>3, Aside, Writers
<1>4. QED
  BY <1>2, <1>3

\* A dropped client's lock is free, and what it left behind is not the server's.
LEMMA DropsAside ==
  ASSUME SaveInv, NEW p \in Puts, ServerInv(p), NEW q \in Puts, LeftAlone(q)
  PROVE  ServerInv(p)'
<1>1. DOMAIN task = Tasks /\ p \in Tasks /\ q \in Tasks
  BY Writers DEF SaveInv
<1>2. CASE p = q
  <2>1. task'[p].at \notin Saving
    <3>1. CASE task' = [task EXCEPT ![p] = Idle]
      BY <1>1, <3>1 DEF Idle, Saving
    <3>2. CASE ~ (task' = [task EXCEPT ![p] = Idle])
      <4>1. PICK v : task' = [task EXCEPT ![p] = v] /\ v.at \in {"keeping", "renaming"}
        BY <1>2, <3>2, LeftPlaces
      <4>2. QED
        BY <1>1, <4>1 DEF Saving
    <3>3. QED
      BY <3>1, <3>2
  <2>2. QED
    BY <2>1 DEF ServerInv
<1>3. CASE p # q
  <2>1. task'[p] = task[p]
    BY <1>1, <1>3, LeftPlaces
  <2>2. /\ lock' = lock \/ lock' = lock \ {q}
        /\ UNCHANGED <<file, writer>> \/ writer' # "server"
    BY DEF LeftAlone, DropPut, KeepingEnds, RenamingEnds
  <2>3. QED
    BY <1>1, <1>3, <2>1, <2>2, Aside
<1>4. QED
  BY <1>2, <1>3

\* Steps of anyone but the API's clients.
LEMMA OthersAside ==
  ASSUME DOMAIN task = Tasks, NEW p \in Puts, ServerInv(p),
         \/ \E h, n : SaveReceiver(h, n)
         \/ \E m : toggle_sound_mode_favorite(m)
         \/ save_receiver \/ ReceiverSaved \/ save_favorites \/ sound_mode_favorites_saved
         \/ resolve_target \/ remember \/ Remembered
         \/ HandEdit \/ UNCHANGED vars
  PROVE  ServerInv(p)'
<1> USE Writers
<1> DEFINE Own == {"receiver", "favorites", "cli"}
<1>1. ASSUME NEW t \in Own, NEW fields, Begin(t, fields), UNCHANGED <<lock, file, writer>>
      PROVE  ServerInv(p)'
  <2>1. task'[p] = task[p]
    BY <1>1 DEF Begin
  <2>2. QED
    BY <1>1, <2>1, Aside
<1>2. ASSUME UNCHANGED task, UNCHANGED lock, UNCHANGED <<file, writer>> \/ HandEdit
      PROVE  ServerInv(p)'
  BY <1>2, Aside DEF HandEdit
<1>3. ASSUME NEW t \in Own, NEW want, save_configuration(t, want), UNCHANGED <<file, writer>>
      PROVE  ServerInv(p)'
  BY <1>1, <1>3, GivenUp DEF save_configuration
<1>4. ASSUME NEW h, NEW n, SaveReceiver(h, n)
      PROVE  ServerInv(p)'
  BY <1>1, <1>4 DEF SaveReceiver
<1>5. ASSUME NEW m, toggle_sound_mode_favorite(m)
      PROVE  ServerInv(p)'
  BY <1>1, <1>2, <1>5 DEF toggle_sound_mode_favorite, StartFavorites
<1>6. CASE save_receiver
  BY <1>3, <1>6, GivenUp DEF save_receiver
<1>7. CASE ReceiverSaved
  BY <1>7, GivenUp DEF ReceiverSaved
<1>8. CASE save_favorites
  <2>1. UNCHANGED <<file, writer>>
    BY <1>8 DEF save_favorites
  <2>2. Fail("favorites") \/ \E v : Begin("favorites", v) /\ UNCHANGED lock
    BY <1>8 DEF save_favorites
  <2>3. QED
    BY <1>1, <2>1, <2>2, GivenUp
<1>9. CASE sound_mode_favorites_saved
  BY <1>1, <1>9, GivenUp DEF sound_mode_favorites_saved, StartFavorites
<1>10. CASE resolve_target
  <2>1. \E v : Begin("cli", v)
    BY <1>10 DEF resolve_target
  <2>2. QED
    BY <1>1, <1>10, <2>1 DEF resolve_target
<1>11. CASE remember
  <2>1. UNCHANGED <<file, writer>>
    BY <1>11 DEF remember
  <2>2. \/ Fail("cli")
        \/ /\ task' = [task EXCEPT !["cli"] = Idle]
           /\ UNCHANGED <<failed, lock, window, overlapped>>
        \/ \E want : save_configuration("cli", want)
    BY <1>11 DEF remember
  <2>3. QED
    BY <1>3, <2>1, <2>2, GivenUp
<1>12. CASE Remembered
  BY <1>12, GivenUp DEF Remembered
<1>13. CASE HandEdit \/ UNCHANGED vars
  BY <1>2, <1>13 DEF HandEdit, vars
<1>14. QED
  BY <1>4, <1>5, <1>6, <1>7, <1>8, <1>9, <1>10, <1>11, <1>12, <1>13

\* A client takes the lock when its tag is the file's.
LEMMA LockTaken ==
  ASSUME SaveInv, ConfigInv, NEW p \in Puts, ServerInv(p), NEW q \in Puts, config_put(q)
  PROVE  ServerInv(p)'
<1> USE Writers
<1>1. DOMAIN task = Tasks /\ UNCHANGED <<file, writer>> /\ lock = None
  BY DEF SaveInv, config_put
<1>2. CASE Fail(q) \/ Refused(q)
  BY <1>1, <1>2, GivenUp DEF Refused
<1>3. CASE Accepted(q) /\ lock' = Some(q) /\ load(file) # None
           /\ etag_of(The(load(file))) = etag_of(task[q].base)
  <2> DEFINE v == [at |-> "save", base |-> task[q].base, want |-> The(Replacement(q))]
  <2>1. task' = [task EXCEPT ![q] = v]
    BY <1>3 DEF Accepted, Begin
  <2>2. v.at = "save" /\ v.base = task[q].base
    OBVIOUS
  <2>3. CASE p = q
    <3>1. task'[p].at = "save" /\ task'[p].base = task[p].base
      <4> HIDE DEF v
      <4> QED  BY <1>1, <2>1, <2>2, <2>3
    <3>2. Config(task[p].base)
      BY <2>3 DEF ConfigInv, HeldInv, config_put, At
    <3>3. load(file) = Some(task[p].base)
      BY <1>3, <2>3, <3>2, LoadedIsOne, SameTag
    <3>4. load(file)' = load(file)
      BY <1>1 DEF load
    <3>5. lock' = {p}
      BY <1>3, <2>3 DEF Some
    <3>6. QED
      BY <3>1, <3>3, <3>4, <3>5 DEF ServerInv
  <2>4. CASE p # q
    <3>1. task'[p] = task[p]
      <4> HIDE DEF v
      <4> QED  BY <1>1, <2>1, <2>4
    <3>2. task[p].at \notin Saving
      BY <1>1 DEF ServerInv, None
    <3>3. QED
      BY <3>1, <3>2 DEF ServerInv
  <2>5. QED
    BY <2>3, <2>4
<1>4. QED
  BY <1>2, <1>3 DEF config_put

\* The steps of a save, a client's own or another's.
LEMMA SaveKeepsLock ==
  ASSUME SaveInv, LockInv, NEW p \in Puts, NEW t \in Tasks,
         ReadExisting(t) \/ write_backup(t) \/ install_config(t)
  PROVE  ServerInv(p)'
<1> USE Writers
<1>1. DOMAIN task = Tasks /\ ServerInv(p) /\ (t \in Puts => ServerInv(t))
  BY DEF SaveInv, LockInv
<1>2. CASE Fail(t)
  <2>1. UNCHANGED <<file, writer>>
    <3>1. CASE install_config(t)
      <4>1. task[t].at = "install" /\ DOMAIN task[t] = {"at", "base", "want", "existing"}
        BY <3>1 DEF SaveInv, PlaceInv, install_config, At
      <4>2. task'[t].at = "saved"
        BY <1>1, <3>1, <4>1 DEF install_config
      <4>3. QED
        BY <1>1, <1>2, <4>2 DEF Fail, Idle
    <3>2. QED
      BY <3>1 DEF ReadExisting, write_backup
  <2>2. QED
    BY <1>1, <1>2, <2>1, GivenUp
<1>3. CASE ~ Fail(t)
  <2>1. UNCHANGED lock /\ \A u \in Tasks : u # t => task'[u] = task[u]
    BY <1>1, <1>3 DEF ReadExisting, write_backup, install_config, Begin
  <2>2. CASE t # p
    <3>1. CASE install_config(t) /\ t \in Puts
      <4>1. task[t].at \in Saving
        BY <3>1 DEF install_config, At, Saving
      <4>2. lock = {t}
        BY <1>1, <3>1, <4>1 DEF ServerInv
      <4>3. task[p].at \notin Saving
        BY <1>1, <2>2, <4>2 DEF ServerInv
      <4>4. QED
        BY <2>1, <2>2, <4>3 DEF ServerInv
    <3>2. CASE install_config(t) /\ t \notin Puts
      <4>1. writer' # "server"
        BY <3>2 DEF install_config, Process
      <4>2. QED
        BY <1>1, <2>1, <2>2, <4>1, Aside
    <3>3. CASE ReadExisting(t) \/ write_backup(t)
      BY <1>1, <2>1, <2>2, <3>3, Aside DEF ReadExisting, write_backup
    <3>4. QED
      BY <3>1, <3>2, <3>3
  <2>3. CASE t = p
    <3>1. \/ task'[p] = Idle
          \/ /\ task[p].at \in Saving \ {"saved"} /\ task'[p].at \in Saving
             /\ task'[p].base = task[p].base
      BY <2>3, SaveCarries
    <3>2. CASE install_config(p)
      <4>1. task'[p].at = "saved" \/ task'[p] = Idle
        <5>1. DOMAIN task[p] = {"at", "base", "want", "existing"}
          BY <3>2 DEF SaveInv, PlaceInv, install_config, At
        <5>2. QED
          BY <1>1, <3>2, <5>1 DEF install_config
      <4>2. QED
        BY <1>1, <2>1, <3>1, <4>1 DEF ServerInv, Idle, Saving
    <3>3. CASE ReadExisting(p) \/ write_backup(p)
      <4>1. UNCHANGED <<file, writer>>
        BY <3>3 DEF ReadExisting, write_backup
      <4>2. load(file)' = load(file)
        BY <4>1 DEF load
      <4>3. QED
        BY <1>1, <2>1, <3>1, <4>1, <4>2 DEF ServerInv, Idle, Saving
    <3>4. QED
      BY <2>3, <3>2, <3>3
  <2>4. QED
    BY <2>2, <2>3
<1>4. QED
  BY <1>2, <1>3

\* The invariant of the API's clients.
THEOREM ClientsSaveInTurn == Spec => []LockInv
<1> USE Writers
<1>1. Init => LockInv
  BY DEF Init, LockInv, ServerInv, Idle, Saving
<1>2. SaveInv /\ ConfigInv /\ LockInv /\ [Next]_vars => LockInv'
  <2> SUFFICES ASSUME SaveInv, ConfigInv, LockInv, [Next]_vars, NEW p \in Puts
               PROVE  ServerInv(p)'
    BY DEF LockInv
  <2>1. DOMAIN task = Tasks /\ ServerInv(p)
    BY DEF SaveInv, LockInv
  <2>2. ASSUME NEW q \in Puts, config_get(q)
        PROVE  ServerInv(p)'
    <3>1. PICK b, r : Begin(q, [at |-> "asked", base |-> b, request |-> r])
      BY <2>2 DEF config_get
    <3> DEFINE v == [at |-> "asked", base |-> b, request |-> r]
    <3>2. task' = [task EXCEPT ![q] = v] /\ v.at \notin Saving
      BY <3>1 DEF Begin, Saving
    <3>3. UNCHANGED <<file, writer, lock>>
      BY <2>2 DEF config_get
    <3> HIDE DEF v
    <3>4. CASE p = q
      BY <2>1, <3>2, <3>4 DEF ServerInv
    <3>5. CASE p # q
      BY <2>1, <3>2, <3>3, <3>5, Aside
    <3>6. QED
      BY <3>4, <3>5
  <2>3. ASSUME NEW q \in Puts, Answered(q)
        PROVE  ServerInv(p)'
    BY <2>1, <2>3, GivenUp DEF Answered
  <2>4. ASSUME NEW t \in Tasks, SaveFails(t)
        PROVE  ServerInv(p)'
    BY <2>1, <2>4, GivenUp DEF SaveFails
  <2>5. QED
    BY <2>1, <2>2, <2>3, <2>4, LockTaken, SaveKeepsLock, OthersAside, DropsAside
       DEF Next, LeftAlone
<1>3. QED
  BY <1>1, <1>2, SavesAreReady, ConfigurationsAreHeld, PTL DEF Spec

\* NoEditLost: a PUT whose client still waits replaces what that client read,
\* unless somebody outside the server, or a PUT that was dropped, wrote the
\* file in between (config_put).
THEOREM EditsAreNotLost == Spec => NoEditLost
<1> USE Writers
<1> DEFINE Step == \A p \in Puts :
                      (At(p, "install") /\ task'[p].at = "saved"
                          /\ load(file) # Some(task[p].base)) => writer # "server"
<1>1. LockInv => [Step]_vars
  BY DEF LockInv, ServerInv, Saving, At
<1>2. QED
  BY <1>1, ClientsSaveInTurn, PTL DEF Spec, NoEditLost

-----------------------------------------------------------------------------
(***************************************************************************)
(* The window's two savers and its queue of one.                           *)
(***************************************************************************)

Quiet == ~outside /\ ~failed /\ ~overlapped

(* What is being saved has the receivers the window shows; and, unless a    *)
(* click waits, everything it shows.                                        *)
Carries(c) ==
    /\ c.current = configured.current /\ c.receivers = configured.receivers
    /\ pending = None => c = configured

ReceiverInv ==
    LET w == task["receiver"] IN
    /\ w.at \in {"idle", "load"} /\ task["favorites"] = Idle => load(file) \subseteq {Tidy(configured)}
    /\ w.at \in Saving => w.want.favorites = configured.favorites
    /\ w.at = "saved" => load(file) \subseteq {Tidy(w.want)}
FavoritesInv ==
    LET w == task["favorites"] IN
    /\ w.at = "load" => /\ Carries(w.saving)
                        /\ \A c \in load(file) : /\ c.current = configured.current
                                                 /\ c.receivers = Tidy(configured).receivers
    /\ w.at \in Saving => Carries(w.base)
    /\ w.at \in Saving \ {"saved"} => /\ w.want.favorites = w.base.favorites
                                      /\ w.want.current = configured.current
                                      /\ w.want.receivers = Tidy(configured).receivers
    /\ w.at = "saved" => load(file) \subseteq {Tidy(w.base)}

(* One save of favourites at a time, with a click waiting only behind it; and *)
(* left alone, each saver is on its way to what the window shows.             *)
WindowInv ==
    /\ save_in_flight <=> task["favorites"] # Idle
    /\ pending # None => save_in_flight
    /\ ~overlapped => task["receiver"] = Idle \/ task["favorites"] = Idle
    /\ Quiet => /\ configured.favorites = clicked
                /\ pending # None => The(pending) = configured
                /\ ReceiverInv /\ FavoritesInv

\* What others do leaves the window's savers as they are.
LEMMA WindowAside ==
  ASSUME WindowInv, UNCHANGED <<window, clicked, overlapped>>,
         task'["receiver"] = task["receiver"], task'["favorites"] = task["favorites"],
         failed => failed', outside => outside', outside' \/ UNCHANGED file
  PROVE  WindowInv'
<1> USE DEF window
<1>1. outside' \/ load(file)' = load(file)
  BY DEF load
<1>2. Quiet' => Quiet /\ load(file)' = load(file)
  BY <1>1 DEF Quiet
<1>3. Quiet' => ReceiverInv'
  BY <1>2 DEF WindowInv, ReceiverInv
<1>4. Quiet' => FavoritesInv'
  BY <1>2 DEF WindowInv, FavoritesInv, Carries
<1>5. QED
  BY <1>2, <1>3, <1>4 DEF WindowInv

\* A save of the window given up is a failure.
LEMMA WindowFails ==
  ASSUME WindowInv, DOMAIN task = Tasks, NEW t \in Tasks, Fail(t), UNCHANGED <<clicked, outside, file>>
  PROVE  WindowInv'
<1> USE Writers
<1>1. CASE t \in {"receiver", "favorites"}
  <2>1. failed' /\ UNCHANGED overlapped
    BY <1>1 DEF Fail, Process
  <2>2. /\ task'[t] = Idle
        /\ \A u \in Tasks : u # t => task'[u] = task[u]
    BY DEF Fail
  <2>3. CASE t = "receiver"
    <3>1. UNCHANGED <<save_in_flight, pending>>
      BY <2>3 DEF Fail
    <3>2. QED
      BY <2>1, <2>2, <2>3, <3>1 DEF WindowInv, Quiet
  <2>4. CASE t = "favorites"
    <3>1. ~ save_in_flight' /\ pending' = None
      BY <2>4 DEF Fail
    <3>2. QED
      BY <2>1, <2>2, <2>4, <3>1 DEF WindowInv, Quiet
  <2>5. QED
    BY <1>1, <2>3, <2>4
<1>2. CASE t \notin {"receiver", "favorites"}
  <2>1. UNCHANGED <<window, overlapped>>
    BY <1>2 DEF Fail, window
  <2>2. failed => failed'
    BY DEF Fail
  <2>3. task'["receiver"] = task["receiver"] /\ task'["favorites"] = task["favorites"]
    BY <1>2 DEF Fail
  <2>4. QED
    BY <2>1, <2>2, <2>3, WindowAside
<1>3. QED
  BY <1>1, <1>2

\* Only an installed save is "saved".
LEMMA SavePlaces ==
  ASSUME SaveInv, NEW t \in Tasks,
         ReadExisting(t) \/ write_backup(t) \/ install_config(t)
  PROVE  \/ Fail(t) /\ write_backup(t)
         \/ /\ task[t].at \in Saving \ {"saved"} /\ task'[t].at \in Saving
            /\ task'[t].want = task[t].want /\ task'[t].base = task[t].base
            /\ IF install_config(t) THEN task'[t].at = "saved"
               ELSE task'[t].at # "saved" /\ UNCHANGED <<file, outside>>
            /\ UNCHANGED <<window, failed, overlapped, clicked>>
<1>1. DOMAIN task = Tasks /\ PlaceInv(t)
  BY DEF SaveInv
<1>2. CASE ReadExisting(t)
  <2> DEFINE place == IF plan_save(file) = None THEN "install" ELSE "backup"
             v == [at |-> place, base |-> task[t].base, want |-> task[t].want, existing |-> file]
  <2>1. task' = [task EXCEPT ![t] = v] /\ task[t].at = "save"
    BY <1>2 DEF ReadExisting, Begin, At
  <2>2. v.at = place /\ place \in {"install", "backup"}
    OBVIOUS
  <2>3. task'[t].at \in {"install", "backup"}
    <3> HIDE DEF v, place
    <3> QED  BY <1>1, <2>1, <2>2
  <2>4. task'[t] # Idle /\ ~ install_config(t)
    BY <2>1, <2>3 DEF Idle, install_config, At
  <2>5. QED
    BY <1>2, <2>3, <2>4, SaveCarries DEF ReadExisting
<1>3. CASE write_backup(t) /\ ~ Fail(t)
  <2>1. task[t].at = "backup" /\ task' = [task EXCEPT ![t].at = "install"]
    BY <1>3 DEF write_backup, At
  <2>2. task'[t].at = "install"
    BY <1>1, <2>1 DEF PlaceInv
  <2>3. task'[t] # Idle /\ ~ install_config(t)
    BY <2>1, <2>2 DEF Idle, install_config, At
  <2>4. QED
    BY <1>3, <2>2, <2>3, SaveCarries DEF write_backup
<1>4. CASE install_config(t)
  <2>1. task[t].at = "install" /\ task' = [task EXCEPT ![t].at = "saved"]
    BY <1>4 DEF install_config, At
  <2>2. task'[t].at = "saved"
    BY <1>1, <2>1 DEF PlaceInv
  <2>3. task'[t] # Idle
    BY <2>2 DEF Idle
  <2>4. QED
    BY <1>4, <2>2, <2>3, SaveCarries DEF install_config
<1>5. QED
  BY <1>2, <1>3, <1>4

\* Tidying twice is tidying once.
LEMMA TidyTwice ==
  ASSUME NEW c, Config(c), NEW d, Config(d), c.receivers = Tidy(d).receivers
  PROVE  Tidy(c).receivers = Tidy(d).receivers
<1> DEFINE m == [n \in DOMAIN d.receivers |-> identity_of(d.receivers[n])]
<1>1. Tidy(d).receivers = m
  BY Tidied
<1>2. Tidy(c).receivers = [n \in DOMAIN m |-> identity_of(m[n])]
  <2>1. Tidy(c).receivers = [n \in DOMAIN c.receivers |-> identity_of(c.receivers[n])]
    BY Tidied
  <2>2. QED
    <3> HIDE DEF m
    <3> QED  BY <1>1, <2>1
<1>3. [n \in DOMAIN m |-> identity_of(m[n])] = m
  BY IdentityTwice
<1>4. QED
  <2> HIDE DEF m
  <2> QED  BY <1>1, <1>2, <1>3

\* Two configurations alike in their parts are the same, tidied.
LEMMA TidyAlike ==
  ASSUME NEW c, Config(c), NEW d, Config(d), c.current = d.current,
         Tidy(c).receivers = Tidy(d).receivers, c.favorites = d.favorites
  PROVE  Tidy(c) = Tidy(d)
<1>1. /\ Tidy(c) = [current |-> c.current, receivers |-> Tidy(c).receivers, favorites |-> c.favorites]
      /\ Tidy(d) = [current |-> d.current, receivers |-> Tidy(d).receivers, favorites |-> d.favorites]
  <2>1. ASSUME NEW x, Config(x)
        PROVE  Tidy(x) = [current |-> x.current, receivers |-> Tidy(x).receivers,
                          favorites |-> x.favorites]
    <3> DEFINE m == [n \in DOMAIN x.receivers |-> identity_of(x.receivers[n])]
    <3>1. Tidy(x) = [current |-> x.current, receivers |-> m, favorites |-> x.favorites]
      BY <2>1, Tidied
    <3>2. QED
      <4> HIDE DEF m
      <4> QED  BY <3>1
  <2>2. QED
    BY <2>1
<1>2. QED
  BY <1>1

\* Once a save is installed, the file reads as what it wanted.
LEMMA Installed ==
  ASSUME ConfigInv, NEW t \in Tasks, install_config(t)
  PROVE  load(file)' \subseteq {Tidy(task[t].want)}
<1>1. Config(task[t].want)
  BY DEF ConfigInv, HeldInv, install_config, At, Saving
<1>2. file' = Some(encode_text(task[t].want)) /\ file' # None
  BY DEF install_config, Some, None
<1>3. load(file)' = decode_text(encode_text(task[t].want))
  BY <1>2, TheValue DEF load
<1>4. QED
  BY <1>1, <1>3, WrittenReadsBack

\* The steps of a save, the window's or another's.
LEMMA SaveKeepsWindow ==
  ASSUME SaveInv, ConfigInv, WindowInv, NEW t \in Tasks,
         ReadExisting(t) \/ write_backup(t) \/ install_config(t)
  PROVE  WindowInv'
<1> USE Writers
<1>1. DOMAIN task = Tasks
  BY DEF SaveInv
<1>2. CASE Fail(t) /\ write_backup(t)
  BY <1>1, <1>2, WindowFails DEF write_backup
<1>3. CASE /\ task[t].at \in Saving \ {"saved"} /\ task'[t].at \in Saving
           /\ task'[t].want = task[t].want /\ task'[t].base = task[t].base
           /\ IF install_config(t) THEN task'[t].at = "saved"
              ELSE task'[t].at # "saved" /\ UNCHANGED <<file, outside>>
           /\ UNCHANGED <<window, failed, overlapped, clicked>>
           /\ ~ Fail(t)
  <2> USE DEF window
  <2>1. \A u \in Tasks : u # t => task'[u] = task[u]
    BY <1>1, <1>3 DEF ReadExisting, write_backup, install_config, Begin
  <2>2. task[t] # Idle /\ task'[t] # Idle
    BY <1>3 DEF Idle, Saving
  <2>3. /\ outside => outside'
        /\ t \notin {"receiver", "favorites"} => outside' \/ UNCHANGED file
    BY <1>3 DEF install_config, Process, Puts, Tasks
  <2>4. CASE t \notin {"receiver", "favorites"}
    BY <1>3, <2>1, <2>3, <2>4, WindowAside
  <2>5. CASE t = "receiver"
    <3>1. Quiet' => Quiet /\ task["favorites"] = Idle /\ task'["favorites"] = Idle
      BY <1>3, <2>1, <2>2, <2>3, <2>5 DEF Quiet, WindowInv
    <3>2. Quiet' => FavoritesInv'
      BY <3>1 DEF FavoritesInv, Idle, Saving
    <3>3. Quiet' => ReceiverInv'
      <4>1. task'["receiver"].at \notin {"idle", "load"}
        BY <1>3, <2>5 DEF Saving
      <4>2. Quiet' => task'["receiver"].want.favorites = configured'.favorites
        BY <1>3, <2>5, <3>1 DEF WindowInv, ReceiverInv
      <4>3. task'["receiver"].at = "saved" => load(file)' \subseteq {Tidy(task'["receiver"].want)}
        BY <1>3, <2>5, Installed
      <4>4. QED
        BY <4>1, <4>2, <4>3 DEF ReceiverInv
    <3>4. QED
      BY <1>3, <2>1, <2>2, <2>5, <3>1, <3>2, <3>3 DEF WindowInv
  <2>6. CASE t = "favorites"
    <3>1. Quiet' => Quiet /\ task["receiver"] = Idle /\ task'["receiver"] = Idle
      BY <1>3, <2>1, <2>2, <2>3, <2>6 DEF Quiet, WindowInv
    <3>2. Quiet' => ReceiverInv'
      BY <2>2, <2>6, <3>1 DEF ReceiverInv, Idle, Saving
    <3>3. Quiet' => FavoritesInv'
      <4> SUFFICES ASSUME Quiet'
                   PROVE  FavoritesInv'
        OBVIOUS
      <4> DEFINE w == task["favorites"]
      <4>1. Carries(w.base) /\ w.want.favorites = w.base.favorites
            /\ w.want.current = configured.current
            /\ w.want.receivers = Tidy(configured).receivers
        BY <1>3, <2>6, <3>1 DEF WindowInv, FavoritesInv
      <4>2. task'["favorites"].at # "load"
        BY <1>3, <2>6 DEF Saving
      <4>3. Carries(w.base)'
        BY <1>3, <2>6, <4>1 DEF Carries
      <4>4. task'["favorites"].at = "saved" => load(file)' \subseteq {Tidy(w.base)}
        <5> SUFFICES ASSUME task'["favorites"].at = "saved"
                     PROVE  load(file)' \subseteq {Tidy(w.base)}
          OBVIOUS
        <5>1. load(file)' \subseteq {Tidy(w.want)}
          BY <1>3, <2>6, Installed
        <5>2. Config(w.want) /\ Config(w.base) /\ Config(configured)
          BY <1>3, <2>6 DEF ConfigInv, HeldInv
        <5>3. Tidy(w.want).receivers = Tidy(configured).receivers
          <6> HIDE DEF w
          <6> QED  BY <4>1, <5>2, TidyTwice
        <5>4. Tidy(w.base).receivers = Tidy(configured).receivers
          <6>1. /\ Tidy(w.base).receivers = [n \in DOMAIN w.base.receivers |->
                                                identity_of(w.base.receivers[n])]
                /\ Tidy(configured).receivers = [n \in DOMAIN configured.receivers |->
                                                    identity_of(configured.receivers[n])]
            BY <5>2, Tidied
          <6>2. QED
            BY <4>1, <6>1 DEF Carries
        <5>5. Tidy(w.want) = Tidy(w.base)
          <6> HIDE DEF w
          <6> QED  BY <4>1, <5>2, <5>3, <5>4, TidyAlike DEF Carries
        <5>6. QED
          BY <5>1, <5>5
      <4>5. QED
        BY <1>3, <2>6, <4>1, <4>2, <4>3, <4>4 DEF FavoritesInv
    <3>4. QED
      BY <1>3, <2>1, <2>2, <2>6, <3>1, <3>2, <3>3 DEF WindowInv
  <2>7. QED
    BY <2>4, <2>5, <2>6
<1>4. CASE Fail(t) /\ ~ write_backup(t)
  BY <1>4, SavePlaces, <1>1 DEF Fail, Idle, Saving
<1>5. QED
  BY <1>2, <1>3, <1>4, SavePlaces

\* A save begun by the window keeps its invariant.
LEMMA ReceiverBegins ==
  ASSUME SaveInv, ConfigInv, WindowInv, NEW h, NEW n, SaveReceiver(h, n)
  PROVE  WindowInv'
<1> USE Writers
<1>1. PICK e : Begin("receiver", [at |-> "load", base |-> Default, entry |-> e])
  BY DEF SaveReceiver
<1> DEFINE v == [at |-> "load", base |-> Default, entry |-> e]
<1>2. v.at = "load" /\ v # Idle
  BY DEF Idle
<1>3. task' = [task EXCEPT !["receiver"] = v]
  BY <1>1 DEF Begin
<1>4. task'["receiver"] = v /\ task'["favorites"] = task["favorites"]
  <2> HIDE DEF v
  <2> QED  BY <1>3 DEF SaveInv
<1>5. task["receiver"].at = "idle" /\ task["receiver"] = Idle
  BY DEF SaveReceiver, At, SaveInv, PlaceInv
<1>6. /\ UNCHANGED <<configured, save_in_flight, pending, clicked, file, outside, failed>>
      /\ overlapped' = (overlapped \/ (task'["receiver"] # Idle /\ task'["favorites"] # Idle))
  BY DEF SaveReceiver, window, Overlaps
<1> HIDE DEF v
<1>7. Quiet' => Quiet /\ task["favorites"] = Idle
  BY <1>2, <1>4, <1>6 DEF Quiet
<1>8. load(file)' = load(file)
  BY <1>6 DEF load
<1>9. Quiet' => ReceiverInv'
  BY <1>2, <1>4, <1>5, <1>6, <1>7, <1>8 DEF WindowInv, ReceiverInv, Saving
<1>10. Quiet' => FavoritesInv'
  BY <1>4, <1>7 DEF FavoritesInv, Idle, Saving
<1>11. QED
  BY <1>2, <1>4, <1>6, <1>7, <1>9, <1>10 DEF WindowInv, Quiet

\* The receiver saver works from the file as it finds it.
LEMMA ReceiverLoads ==
  ASSUME SaveInv, ConfigInv, WindowInv, save_receiver
  PROVE  WindowInv'
<1> USE Writers
<1>1. DOMAIN task = Tasks /\ UNCHANGED <<file, outside, clicked>> /\ task["receiver"].at = "load"
  BY DEF SaveInv, save_receiver, At
<1>2. CASE Fail("receiver")
  BY <1>1, <1>2, WindowFails
<1>3. CASE ~ Fail("receiver")
  <2> DEFINE c == The(load(file))
             e == task["receiver"].entry
             l == Listed(c, e.name, e.identity)
             want == [l EXCEPT !.current = Some(e.name)]
             v == [at |-> "save", base |-> task["receiver"].base, want |-> want]
  <2>1. load(file) # None /\ task' = [task EXCEPT !["receiver"] = v]
        /\ UNCHANGED <<failed, lock, window, overlapped>>
    BY <1>3 DEF save_receiver, save_configuration, Begin
  <2>2. v.at = "save" /\ v.want = want
    OBVIOUS
  <2>3. want.favorites = c.favorites
    <3>1. Config(c)
      BY <2>1, LoadedIsOne
    <3>2. l = [current |-> c.current, receivers |-> With(c.receivers, e.name, e.identity),
               favorites |-> c.favorites]
      <4> HIDE DEF c, e
      <4> QED  BY <3>1, Added
    <3>3. QED
      <4> HIDE DEF c, e, l
      <4> QED  BY <3>2
  <2>4. c \in load(file)
    BY <2>1 DEF The, None
  <2>5. Tidy(configured).favorites = configured.favorites
    BY Tidied DEF ConfigInv
  <2> HIDE DEF c, want, v, l
  <2>6. task'["receiver"] = v /\ task'["favorites"] = task["favorites"]
    BY <1>1, <2>1
  <2>7. task["receiver"] # Idle
    BY <1>1 DEF Idle
  <2>8. Quiet' => Quiet /\ task["favorites"] = Idle
    BY <1>1, <2>1, <2>7 DEF Quiet, WindowInv
  <2>9. Quiet => load(file) \subseteq {Tidy(configured)} \/ task["favorites"] # Idle
    BY <1>1 DEF WindowInv, ReceiverInv
  <2>10. Quiet' => want.favorites = configured.favorites
    BY <2>3, <2>4, <2>5, <2>8, <2>9
  <2>11. Quiet' => ReceiverInv'
    BY <2>1, <2>2, <2>6, <2>10 DEF ReceiverInv, Saving, window
  <2>12. Quiet' => FavoritesInv'
    BY <2>6, <2>8 DEF FavoritesInv, Idle, Saving
  <2>13. QED
    BY <1>1, <2>1, <2>6, <2>7, <2>8, <2>11, <2>12 DEF WindowInv, window
<1>4. QED
  BY <1>2, <1>3

\* A receiver saved is shown.
LEMMA ReceiverShown ==
  ASSUME SaveInv, WindowInv, ReceiverSaved
  PROVE  WindowInv'
<1> USE Writers
<1> DEFINE w == task["receiver"]
<1>1. /\ w.at = "saved" /\ configured' = w.want
      /\ UNCHANGED <<file, save_in_flight, pending, outside, failed, overlapped, clicked>>
      /\ task' = [task EXCEPT !["receiver"] = Idle]
  BY DEF ReceiverSaved, At
<1>2. task'["receiver"] = Idle /\ task'["favorites"] = task["favorites"]
  BY <1>1 DEF SaveInv
<1>3. w # Idle
  BY <1>1 DEF Idle
<1>4. Quiet' => Quiet /\ task["favorites"] = Idle /\ pending = None
  BY <1>1, <1>3 DEF Quiet, WindowInv
<1>5. Quiet => load(file) \subseteq {Tidy(w.want)} /\ w.want.favorites = configured.favorites
  BY <1>1 DEF WindowInv, ReceiverInv, Saving
<1>6. load(file)' = load(file)
  BY <1>1 DEF load
<1>7. Quiet' => ReceiverInv'
  BY <1>1, <1>2, <1>4, <1>5, <1>6 DEF ReceiverInv, Idle, Saving
<1>8. Quiet' => FavoritesInv'
  BY <1>2, <1>4 DEF FavoritesInv, Idle, Saving
<1>9. QED
  BY <1>1, <1>2, <1>4, <1>5, <1>7, <1>8 DEF WindowInv

\* A click is saved at once or waits its turn.
LEMMA ClickKept ==
  ASSUME SaveInv, ConfigInv, WindowInv, NEW m, toggle_sound_mode_favorite(m)
  PROVE  WindowInv'
<1> USE Writers
<1>1. PICK c \in toggle_current_sound_mode_favorite(configured, m) :
         /\ configured' = c /\ clicked' = c.favorites
         /\ IF save_in_flight
            THEN pending' = Some(c) /\ UNCHANGED <<save_in_flight, task, overlapped>>
            ELSE save_in_flight' = TRUE /\ StartFavorites(c) /\ UNCHANGED pending
  BY DEF toggle_sound_mode_favorite
<1>2. UNCHANGED <<file, outside, failed>> /\ load(file)' = load(file)
  BY DEF toggle_sound_mode_favorite, load
<1>3. /\ Config(c) /\ Config(configured)
      /\ c.current = configured.current /\ c.receivers = configured.receivers
  BY Toggled DEF ConfigInv
<1>4. Tidy(c).receivers = Tidy(configured).receivers
  <2>1. ASSUME NEW x, Config(x)
        PROVE  Tidy(x).receivers = [n \in DOMAIN x.receivers |-> identity_of(x.receivers[n])]
    BY <2>1, Tidied
  <2>2. QED
    BY <1>3, <2>1
<1>5. CASE save_in_flight
  <2>1. Quiet' => Quiet /\ task["receiver"] = Idle /\ task["favorites"] # Idle
    BY <1>1, <1>2, <1>5 DEF Quiet, WindowInv
  <2>2. Quiet' => ReceiverInv'
    BY <1>1, <1>5, <2>1 DEF ReceiverInv, Idle, Saving
  <2>3. pending' = Some(c) /\ pending' # None /\ The(pending') = c
    BY <1>1, <1>5, TheValue DEF Some, None
  <2>4. \A x : Carries(x) => Carries(x)'
    BY <1>1, <1>3, <2>3 DEF Carries
  <2>5. Quiet' => FavoritesInv'
    BY <1>1, <1>2, <1>3, <1>4, <1>5, <2>1, <2>4 DEF WindowInv, FavoritesInv
  <2>6. QED
    BY <1>1, <1>5, <2>1, <2>2, <2>3, <2>5 DEF WindowInv
<1>6. CASE ~ save_in_flight
  <2> DEFINE v == [at |-> "load", base |-> Default, saving |-> c]
  <2>1. v.at = "load" /\ v.saving = c /\ v # Idle
    BY DEF Idle
  <2>2. /\ task' = [task EXCEPT !["favorites"] = v]
        /\ overlapped' = (overlapped \/ (task'["receiver"] # Idle /\ task'["favorites"] # Idle))
        /\ save_in_flight' = TRUE /\ pending' = pending
    BY <1>1, <1>6 DEF StartFavorites, Begin, Overlaps
  <2> HIDE DEF v
  <2>3. task'["favorites"] = v /\ task'["receiver"] = task["receiver"]
    BY <2>2 DEF SaveInv
  <2>4. task["favorites"] = Idle /\ pending = None
    BY <1>6 DEF WindowInv
  <2>5. Quiet' => Quiet /\ task["receiver"] = Idle
    BY <1>2, <2>1, <2>2, <2>3 DEF Quiet
  <2>6. Quiet' => ReceiverInv'
    BY <2>1, <2>3, <2>5 DEF ReceiverInv, Idle, Saving
  <2>7. Quiet => load(file) \subseteq {Tidy(configured)} \/ task["receiver"] # Idle
    BY <2>4 DEF WindowInv, ReceiverInv, Idle
  <2>8. Tidy(configured).current = configured.current
    BY <1>3, Tidied
  <2>9. Quiet' => FavoritesInv'
    <3>1. Carries(c)'
      BY <1>1 DEF Carries
    <3>2. Quiet' => \A x \in load(file)' : x.current = c.current /\ x.receivers = Tidy(c).receivers
      BY <1>2, <1>3, <1>4, <2>5, <2>7, <2>8
    <3>3. QED
      BY <1>1, <2>1, <2>3, <3>1, <3>2 DEF FavoritesInv, Saving
  <2>10. QED
    BY <1>1, <2>1, <2>2, <2>3, <2>4, <2>5, <2>6, <2>9 DEF WindowInv, Quiet
<1>7. QED
  BY <1>5, <1>6

\* The favourites' saver takes the receivers from the file.
LEMMA FavoritesLoad ==
  ASSUME SaveInv, ConfigInv, WindowInv, save_favorites
  PROVE  WindowInv'
<1> USE Writers
<1>1. DOMAIN task = Tasks /\ UNCHANGED <<file, outside, clicked>> /\ task["favorites"].at = "load"
  BY DEF SaveInv, save_favorites, At
<1>2. CASE Fail("favorites")
  BY <1>1, <1>2, WindowFails
<1>3. CASE ~ Fail("favorites")
  <2> DEFINE d == The(load(file))
             saving == task["favorites"].saving
             want == [d EXCEPT !.favorites = saving.favorites]
             v == [at |-> "save", base |-> saving, want |-> want]
  <2>1. load(file) # None /\ task' = [task EXCEPT !["favorites"] = v]
        /\ UNCHANGED <<failed, lock, window, overlapped>>
    BY <1>3 DEF save_favorites, Begin
  <2>2. v.at = "save" /\ v.want = want /\ v.base = saving /\ v # Idle
    BY DEF Idle
  <2>3. want.favorites = saving.favorites /\ want.current = d.current /\ want.receivers = d.receivers
    <3>1. Config(d)
      BY <2>1, LoadedIsOne
    <3>2. want = [current |-> d.current, receivers |-> d.receivers, favorites |-> saving.favorites]
      <4> HIDE DEF d, saving
      <4> QED  BY <3>1, Parts
    <3>3. QED
      <4> HIDE DEF d, saving, want
      <4> QED  BY <3>2
  <2>4. d \in load(file)
    BY <2>1 DEF The, None
  <2> HIDE DEF d, want, v
  <2>5. task'["favorites"] = v /\ task'["receiver"] = task["receiver"]
    BY <1>1, <2>1
  <2>6. task["favorites"] # Idle
    BY <1>1 DEF Idle
  <2>7. Quiet' => Quiet /\ task["receiver"] = Idle
    BY <1>1, <2>1, <2>6 DEF Quiet, WindowInv
  <2>8. Quiet' => /\ Carries(saving) /\ d.current = configured.current
                  /\ d.receivers = Tidy(configured).receivers
    BY <1>1, <2>4, <2>7 DEF WindowInv, FavoritesInv
  <2>9. Quiet' => ReceiverInv'
    BY <2>2, <2>5, <2>7 DEF ReceiverInv, Idle, Saving
  <2>10. Carries(saving) => /\ saving.current = configured'.current
                            /\ saving.receivers = configured'.receivers
                            /\ pending' = None => saving = configured'
    BY <2>1 DEF Carries, window
  <2>11. Quiet' => FavoritesInv'
    <3> HIDE DEF saving
    <3> QED  BY <2>1, <2>2, <2>3, <2>5, <2>8, <2>10 DEF FavoritesInv, Saving, window, Carries
  <2>12. QED
    BY <1>1, <2>1, <2>2, <2>5, <2>6, <2>7, <2>9, <2>11 DEF WindowInv, window
<1>4. QED
  BY <1>2, <1>3

\* A click that waited is saved next.
LEMMA FavoritesShown ==
  ASSUME SaveInv, ConfigInv, WindowInv, sound_mode_favorites_saved
  PROVE  WindowInv'
<1> USE Writers
<1> DEFINE w == task["favorites"]
<1>1. w.at = "saved" /\ w # Idle /\ UNCHANGED <<file, outside, failed, clicked>> /\ pending' = None
  BY DEF sound_mode_favorites_saved, At, Idle
<1>2. load(file)' = load(file)
  BY <1>1 DEF load
<1>3. Quiet => Carries(w.base) /\ load(file) \subseteq {Tidy(w.base)}
  BY <1>1 DEF WindowInv, FavoritesInv, Saving
<1>4. CASE pending = None
  <2>1. /\ configured' = w.base /\ ~ save_in_flight' /\ UNCHANGED overlapped
        /\ task' = [task EXCEPT !["favorites"] = Idle]
    BY <1>4 DEF sound_mode_favorites_saved
  <2>2. task'["favorites"] = Idle /\ task'["receiver"] = task["receiver"]
    BY <2>1 DEF SaveInv
  <2>3. Quiet' => Quiet /\ task["receiver"] = Idle
    BY <1>1, <2>1 DEF Quiet, WindowInv
  <2>4. Quiet' => configured' = configured
    BY <1>3, <1>4, <2>1, <2>3 DEF Carries
  <2>5. Quiet' => ReceiverInv'
    BY <1>2, <1>3, <2>1, <2>2, <2>3 DEF ReceiverInv, Idle, Saving
  <2>6. Quiet' => FavoritesInv'
    BY <2>2 DEF FavoritesInv, Idle, Saving
  <2>7. QED
    BY <1>1, <1>4, <2>1, <2>2, <2>3, <2>4, <2>5, <2>6 DEF WindowInv
<1>5. CASE pending # None
  <2> DEFINE c == The(pending)
             v == [at |-> "load", base |-> Default, saving |-> c]
  <2>1. v.at = "load" /\ v.saving = c /\ v # Idle
    BY DEF Idle
  <2>2. /\ configured' = c /\ UNCHANGED save_in_flight
        /\ task' = [task EXCEPT !["favorites"] = v]
        /\ overlapped' = (overlapped \/ (task'["receiver"] # Idle /\ task'["favorites"] # Idle))
    BY <1>5 DEF sound_mode_favorites_saved, StartFavorites, Begin, Overlaps
  <2>3. c \in pending
    BY <1>5 DEF The, None
  <2> HIDE DEF v
  <2>4. task'["favorites"] = v /\ task'["receiver"] = task["receiver"]
    BY <2>2 DEF SaveInv
  <2>5. Quiet' => Quiet /\ task["receiver"] = Idle
    BY <1>1, <2>1, <2>2, <2>4 DEF Quiet, WindowInv
  <2>6. Quiet' => c = configured
    BY <1>5, <2>5 DEF WindowInv
  <2>7. Quiet' => ReceiverInv'
    BY <2>1, <2>4, <2>5 DEF ReceiverInv, Idle, Saving
  <2>8. Quiet' => FavoritesInv'
    <3>1. c = configured'
      BY <2>2
    <3>2. Config(w.base) /\ Config(configured)
      BY <1>1 DEF ConfigInv, HeldInv, Saving
    <3>3. ASSUME NEW x, Config(x)
          PROVE  /\ Tidy(x).current = x.current
                 /\ Tidy(x).receivers = [n \in DOMAIN x.receivers |-> identity_of(x.receivers[n])]
      BY <3>3, Tidied
    <3>4. Quiet' => /\ Tidy(w.base).current = configured.current
                    /\ Tidy(w.base).receivers = Tidy(configured).receivers
      <4>1. Quiet' => w.base.current = configured.current /\ w.base.receivers = configured.receivers
        BY <1>3, <2>5 DEF Carries
      <4>2. /\ Tidy(w.base).current = w.base.current
            /\ Tidy(w.base).receivers = [n \in DOMAIN w.base.receivers |->
                                             identity_of(w.base.receivers[n])]
            /\ Tidy(configured).receivers = [n \in DOMAIN configured.receivers |->
                                                 identity_of(configured.receivers[n])]
        BY <3>2, <3>3
      <4>3. QED
        <5> HIDE DEF w
        <5> QED  BY <4>1, <4>2
    <3>5. Quiet' => \A x \in load(file)' : /\ x.current = configured.current
                                           /\ x.receivers = Tidy(configured).receivers
      BY <1>2, <1>3, <2>5, <3>4
    <3>6. QED
      <4> HIDE DEF c
      <4> QED  BY <2>1, <2>4, <2>6, <3>1, <3>5 DEF FavoritesInv, Saving, Carries
  <2>9. QED
    <3> HIDE DEF c
    <3> QED  BY <1>1, <1>5, <2>1, <2>2, <2>4, <2>5, <2>6, <2>7, <2>8 DEF WindowInv, Quiet
<1>6. QED
  BY <1>4, <1>5

\* Steps of everybody else.
LEMMA OthersKeepWindow ==
  ASSUME SaveInv, WindowInv,
         \/ resolve_target \/ remember \/ Remembered
         \/ \E p \in Puts : config_get(p) \/ config_put(p) \/ Answered(p) \/ LeftAlone(p)
         \/ \E t \in Tasks : SaveFails(t)
         \/ HandEdit \/ UNCHANGED vars
  PROVE  WindowInv'
<1> USE Writers
<1>1. DOMAIN task = Tasks
  BY DEF SaveInv
<1>2. ASSUME NEW t \in Puts \cup {"cli"}, NEW v, task' = [task EXCEPT ![t] = v],
             UNCHANGED <<window, clicked, overlapped, failed, outside, file>>
      PROVE  WindowInv'
  <2>1. task'["receiver"] = task["receiver"] /\ task'["favorites"] = task["favorites"]
    BY <1>2
  <2>2. QED
    BY <1>2, <2>1, WindowAside
<1>3. CASE resolve_target
  <2>1. \E v : task' = [task EXCEPT !["cli"] = v]
    BY <1>3 DEF resolve_target, Begin
  <2>2. QED
    BY <1>2, <1>3, <2>1 DEF resolve_target
<1>4. CASE remember
  <2>1. UNCHANGED <<file, outside, clicked>>
    BY <1>4 DEF remember
  <2>2. \/ Fail("cli")
        \/ /\ task' = [task EXCEPT !["cli"] = Idle]
           /\ UNCHANGED <<failed, lock, window, overlapped>>
        \/ \E want : save_configuration("cli", want)
    BY <1>4 DEF remember
  <2>3. ASSUME NEW want, save_configuration("cli", want), ~ Fail("cli")
        PROVE  WindowInv'
    <3>1. \E v : task' = [task EXCEPT !["cli"] = v]
      BY <2>3 DEF save_configuration, Begin
    <3>2. QED
      BY <1>2, <2>1, <2>3, <3>1 DEF save_configuration
  <2>4. QED
    BY <1>1, <1>2, <2>1, <2>2, <2>3, WindowFails
<1>5. CASE Remembered
  BY <1>2, <1>5 DEF Remembered
<1>6. ASSUME NEW p \in Puts, config_get(p)
      PROVE  WindowInv'
  <2>1. \E v : task' = [task EXCEPT ![p] = v]
    BY <1>6 DEF config_get, Begin
  <2>2. QED
    BY <1>2, <1>6, <2>1 DEF config_get
<1>7. ASSUME NEW p \in Puts, config_put(p)
      PROVE  WindowInv'
  <2>1. UNCHANGED <<file, outside, clicked>>
    BY <1>7 DEF config_put
  <2>2. Fail(p) \/ /\ \E v : task' = [task EXCEPT ![p] = v]
                   /\ UNCHANGED <<window, failed, overlapped>>
    BY <1>7 DEF config_put, Refused, Accepted, Begin
  <2>3. QED
    BY <1>1, <1>2, <2>1, <2>2, WindowFails
<1>8. ASSUME NEW p \in Puts, Answered(p)
      PROVE  WindowInv'
  BY <1>2, <1>8 DEF Answered
<1>9. ASSUME NEW t \in Tasks, SaveFails(t)
      PROVE  WindowInv'
  BY <1>1, <1>9, WindowFails DEF SaveFails
<1>10. ASSUME NEW p \in Puts, LeftAlone(p)
       PROVE  WindowInv'
  <2>1. task'["receiver"] = task["receiver"] /\ task'["favorites"] = task["favorites"]
    BY <1>10, LeftPlaces
  <2>2. /\ UNCHANGED <<window, clicked, overlapped, failed>>
        /\ outside' \/ UNCHANGED <<outside, file>>
    BY <1>10 DEF LeftAlone, DropPut, KeepingEnds, RenamingEnds
  <2>3. QED
    BY <2>1, <2>2, WindowAside
<1>11. CASE HandEdit
  BY <1>11, WindowAside DEF HandEdit
<1>12. CASE UNCHANGED vars
  BY <1>12, WindowAside DEF vars
<1>13. QED
  BY <1>3, <1>4, <1>5, <1>6, <1>7, <1>8, <1>9, <1>10, <1>11, <1>12

\* The invariant of the window.
THEOREM SaversAgree == Spec => []WindowInv
<1> USE Writers
<1>1. Init => WindowInv
  <2> SUFFICES ASSUME Init
               PROVE  WindowInv
    OBVIOUS
  <2>1. /\ task["receiver"] = Idle /\ task["favorites"] = Idle
        /\ ~ save_in_flight /\ pending = None /\ configured.favorites = clicked
    BY DEF Init
  <2>2. load(file) \subseteq {Tidy(configured)}
    <3>1. Tidy(Default) = Default
      <4>1. Tidy(Default) = [current |-> Default.current,
               receivers |-> [n \in DOMAIN Default.receivers |-> identity_of(Default.receivers[n])],
               favorites |-> Default.favorites]
        BY DefaultIsOne, Tidied
      <4>2. [n \in DOMAIN Default.receivers |-> identity_of(Default.receivers[n])] = << >>
        BY DEF Default
      <4>3. QED
        BY <4>1, <4>2 DEF Default
    <3>2. CASE file = None
      <4>1. load(file) = Some(Default)
        BY <3>2 DEF load
      <4>2. configured = Default
        BY <4>1, TheValue DEF Init
      <4>3. QED
        BY <3>1, <4>1, <4>2 DEF Some
    <3>3. CASE file # None
      <4>1. The(file) \in file /\ load(file) = decode_text(The(file))
        BY <3>3 DEF The, None, load
      <4>2. \A c \in load(file) : Tidy(c) = c
        BY <4>1, ConfigurationAssumption, DecodedShape DEF Init
      <4>3. \A c, d \in load(file) : c = d
        BY <4>1 DEF decode_text, Some, None
      <4>4. load(file) # None => configured \in load(file)
        BY DEF Init, The, None
      <4>5. QED
        BY <4>2, <4>3, <4>4 DEF None
    <3>4. QED
      BY <3>2, <3>3
  <2>3. ReceiverInv /\ FavoritesInv
    BY <2>1, <2>2 DEF ReceiverInv, FavoritesInv, Idle, Saving
  <2>4. QED
    BY <2>1, <2>3 DEF WindowInv
<1>2. SaveInv /\ ConfigInv /\ WindowInv /\ [Next]_vars => WindowInv'
  <2> SUFFICES ASSUME SaveInv, ConfigInv, WindowInv, [Next]_vars
               PROVE  WindowInv'
    OBVIOUS
  <2>1. QED
    BY ReceiverBegins, ReceiverLoads, ReceiverShown, ClickKept, FavoritesLoad, FavoritesShown,
       SaveKeepsWindow, OthersKeepWindow DEF Next, LeftAlone
<1>3. QED
  BY <1>1, <1>2, SavesAreReady, ConfigurationsAreHeld, PTL DEF Spec

\* WindowMatchesFile: alone on the file, the window's saves over and never two
\* at once, the file holds what the window shows and the user last clicked.
THEOREM WindowIsSaved == Spec => []WindowMatchesFile
<1>1. WindowInv => WindowMatchesFile
  <2> SUFFICES ASSUME WindowInv, Settled, ~ overlapped
               PROVE  Shown
    BY DEF WindowMatchesFile
  <2>1. /\ load(file) \subseteq {Tidy(configured)} /\ configured.favorites = clicked
    BY DEF WindowInv, Settled, Quiet, ReceiverInv, Idle
  <2>2. load(file) \in {None, Some(Tidy(configured))}
    BY <2>1 DEF None, Some
  <2>3. QED
    BY <2>1, <2>2 DEF Shown
<1>2. QED
  BY <1>1, SaversAgree, PTL

-----------------------------------------------------------------------------
(***************************************************************************)
(* The other side of the contract: a call of the port over a socket        *)
(* (RemotePort).  Its constants and variables are declared here under the  *)
(* names they have there, but for the bytes that are still unread.         *)
(***************************************************************************)
CONSTANTS Receivers, OkValues(_), Faults, Submissions, Frames, LineEnds, EndReasons,
          MaxRevision, MaxEvents
VARIABLES audience, credential, call, served, state, sent, unread, parser, queue, taken,
          latest, ended

Port == INSTANCE RemotePort WITH pending <- unread

CallFields == {"port", "id", "body", "ask", "request", "limit", "method", "path", "answer",
               "line_end", "recorded", "at", "result"}

IsCall(c) == c = [f \in CallFields |-> c[f]]

(* The service did not do what `port` was called for, if it was called. *)
NotDone(port, answers) == \A s \in answers : s.port = port => "err" \in DOMAIN s.outcome

(* A result that says so. *)
SaysRefused(result) ==
    /\ "err" \in DOMAIN result
    /\ result.err.kind \in {"forbidden", "not_found", "invalid_request", "rate_limited"}

(* An answer that a client does not read as a refusal. *)
Unsettled(a) == ~SaysRefused([err |-> Port!into_control_error(a.status, a.error)])

(* A save of the configuration that asks for its tag has not asked to save. *)
AsksForTag(c) == c.port = "save_configuration" /\ c.method = "GET"

(* What a call that changes something knows at each place it is in: the      *)
(* client gives up before the server does, so a 408 never reaches it; while  *)
(* its request is on its way the service has not been asked; and an answer   *)
(* that reads as a refusal came from the pipeline or from a refusal.         *)
ChangeInv(c, answers) ==
    /\ c.limit \in Nat /\ c.limit <= Port!request_timeout
    /\ c.at \in {"sent", "answered", "lost", "done"}
    /\ c.at = "sent" => NotDone(c.port, answers)
    /\ c.at = "answered" /\ AsksForTag(c) => NotDone(c.port, answers)
    /\ c.at = "answered" =>
          \A a \in c.answer : a.status = 200 \/ Unsettled(a) \/ NotDone(c.port, answers)
    /\ c.at = "done" /\ SaysRefused(c.result) => NotDone(c.port, answers)

CallInv ==
    \/ call = Port!Idle /\ served = {}
    \/ IsCall(call) /\ (call.port \in Port!Changing => ChangeInv(call, served))

(* A call goes on to place `at`; the rest of it that matters stays. *)
MovesTo(at) ==
    /\ IsCall(call') /\ call'.at = at
    /\ call'.port = call.port /\ call'.limit = call.limit /\ call'.method = call.method

LEMMA CallBegan ==
  ASSUME CallInv, call.at # "idle"
  PROVE  IsCall(call) /\ (call.port \in Port!Changing => ChangeInv(call, served))
BY DEF CallInv, Port!Idle

(* An answer is written. *)
LEMMA CallAnswered ==
  ASSUME IsCall(call), NEW answer, call' = [call EXCEPT !.at = "answered", !.answer = answer]
  PROVE  MovesTo("answered") /\ call'.answer = answer
BY DEF MovesTo, IsCall, CallFields

LEMMA FailedIsAnError ==
  ASSUME NEW kind
  PROVE  "err" \in DOMAIN Port!Failed(kind) /\ Port!Failed(kind).err.kind = kind
BY DEF Port!Failed, Port!Fault

(* A body that is not what the contract describes is Unavailable, which does *)
(* not say that nothing was done.                                            *)
LEMMA SuccessIsNoRefusal ==
  ASSUME NEW port, NEW body
  PROVE  ~SaysRefused(Port!json(port, body))
<1>1. CASE Port!Reading(port, body) = Port!None
  <2>1. Port!json(port, body) = Port!Failed("unavailable")
    BY <1>1 DEF Port!json
  <2>2. QED
    BY <2>1, FailedIsAnError DEF SaysRefused
<1>2. CASE Port!Reading(port, body) # Port!None
  <2>1. PICK v : Port!json(port, body) = [ok |-> v]
    BY <1>2 DEF Port!json
  <2>2. QED
    BY <2>1 DEF SaysRefused
<1>3. QED
  BY <1>1, <1>2

(* What the service returns is a value or an error. *)
LEMMA OutcomesAre ==
  ASSUME NEW port, NEW outcome \in Port!Outcomes(port)
  PROVE  ("ok" \notin DOMAIN outcome) => "err" \in DOMAIN outcome
BY DEF Port!Outcomes

(* A value of the service is a success, and the receiver's own error reads   *)
(* as that error.                                                            *)
LEMMA ValuesSucceed ==
  ASSUME NEW port, NEW outcome, "ok" \in DOMAIN outcome
  PROVE  Port!Answer(port, outcome).status = 200
BY DEF Port!Answer

LEMMA ReceiverErrorsAreUnsettled ==
  ASSUME NEW port, NEW outcome \in Port!Outcomes("configuration"), "ok" \notin DOMAIN outcome
  PROVE  Unsettled(Port!Answer(port, outcome))
<1>1. PICK e : outcome = [err |-> e] /\ e.kind = "receiver"
  BY DEF Port!Outcomes, Port!FaultsOf
<1>2. Port!Answer(port, outcome) = Port!ApiError(e)
  BY <1>1 DEF Port!Answer
<1>3. Port!ApiError(e)
        = [status |-> 502,
           error |-> [Port!ErrorDetail("receiver_error") EXCEPT !.kind = Port!Some(e.error)]]
  BY <1>1 DEF Port!ApiError
<1>4. Port!ApiError(e).error.code = "receiver_error"
  BY <1>3 DEF Port!ErrorDetail
<1>5. Port!into_control_error(Port!ApiError(e).status, Port!ApiError(e).error).kind = "receiver"
  BY <1>4 DEF Port!into_control_error
<1>6. QED
  BY <1>2, <1>5 DEF Unsettled, SaysRefused

(* What a handler did and what it answers agree: not a success, nor an error *)
(* of the receiver, means not done; and asking for a tag saves nothing.      *)
LEMMA PutsAnswerTruly ==
  ASSUME NEW run \in Port!PutRuns
  PROVE  \/ run.answer.status = 200 \/ Unsettled(run.answer)
         \/ NotDone("save_configuration", run.did)
<1>1. CASE run \in Port!NotCompared
  <2>1. PICK o \in Port!Outcomes("configuration") : run = Port!Run("configuration", o)
    BY <1>1 DEF Port!NotCompared
  <2>2. QED
    BY <2>1 DEF Port!Run, Port!Reached, NotDone
<1>2. CASE run \in Port!NotTaken
  BY <1>2 DEF Port!NotTaken, NotDone
<1>3. CASE run \in Port!NotSaved
  <2>1. PICK e : run = Port!Run("save_configuration", [err |-> e])
    BY <1>3 DEF Port!NotSaved
  <2>2. QED
    BY <2>1 DEF Port!Run, Port!Reached, NotDone
<1>4. CASE \E v, o : o \in Port!Outcomes("configuration") /\ run = Port!ReadAgain(v, o)
  <2>1. PICK o \in Port!Outcomes("configuration") : run.answer = Port!Answer("configuration", o)
    BY <1>4 DEF Port!ReadAgain
  <2>2. QED
    BY <2>1, ValuesSucceed, ReceiverErrorsAreUnsettled
<1>5. QED
  BY <1>1, <1>2, <1>3, <1>4 DEF Port!PutRuns

LEMMA RunsAnswerTruly ==
  ASSUME NEW run \in Port!Runs
  PROVE  /\ \/ run.answer.status = 200 \/ Unsettled(run.answer)
            \/ NotDone(call.port, run.did)
         /\ AsksForTag(call) => NotDone(call.port, run.did)
<1>1. CASE call.port # "save_configuration"
  <2>1. PICK outcome \in Port!Outcomes(call.port) : run = Port!Run(call.port, outcome)
    BY <1>1 DEF Port!Runs
  <2>2. run.answer = Port!Answer(call.port, outcome) /\ \A s \in run.did : s.outcome = outcome
    BY <2>1 DEF Port!Run, Port!Reached
  <2>3. QED
    BY <1>1, <2>2, ValuesSucceed, OutcomesAre DEF NotDone, AsksForTag
<1>2. CASE AsksForTag(call)
  <2>1. PICK outcome : run = Port!Run("configuration", outcome)
    BY <1>2 DEF Port!Runs, AsksForTag
  <2>2. QED
    BY <1>2, <2>1 DEF Port!Run, Port!Reached, NotDone, AsksForTag
<1>3. CASE call.port = "save_configuration" /\ call.method # "GET"
  BY <1>3, PutsAnswerTruly DEF Port!Runs, AsksForTag
<1>4. QED
  BY <1>1, <1>2, <1>3 DEF AsksForTag

(* The call as the client makes it. *)
Asked(port, id, body, ask, request, limit, method, path) ==
    [port |-> port, id |-> id, body |-> body, ask |-> ask, request |-> request,
     limit |-> limit, method |-> method, path |-> path, answer |-> Port!None,
     line_end |-> <<>>, recorded |-> Port!None, at |-> "sent", result |-> [none |-> TRUE]]

LEMMA CallAsked ==
  ASSUME CallInv, NEW port \in Port!Ports, Port!Ask(port)
  PROVE  CallInv'
<1>1. call = Port!Idle /\ served = {} /\ served' = served
  <2>1. call = Port!Idle /\ served' = served
    BY DEF Port!Ask
  <2>2. ~IsCall(call)
    BY <2>1 DEF IsCall, Port!Idle, CallFields
  <2>3. QED
    BY <2>1, <2>2 DEF CallInv
<1>2. PICK wait \in Port!Waits(port) :
         /\ IsCall(call') /\ call'.port = port /\ call'.limit = Port!REQUEST_TIMEOUT + wait
         /\ call'.at \in {"sent", "done"}
  <2>1. PICK id \in Port!Ids(port), wait \in Port!Waits(port), body \in Port!Bodies(port),
              ask \in Port!Asks(port) :
          LET asked == Asked(port, id, body, ask,
                             {Port!SubmitRequest(s.intent, s.idempotency_key) : s \in ask},
                             Port!REQUEST_TIMEOUT + wait,
                             Port!TABLE[Port!FirstRoute(port)].method,
                             Port!request_path(Port!PortRoute[port], id))
          IN call' = IF Port!require_operator(port) THEN asked
                     ELSE [asked EXCEPT !.at = "done", !.result = Port!Failed("forbidden")]
    BY DEF Port!Ask, Asked
  <2>2. PICK request, method, path, asked, refused :
          /\ asked = Asked(port, id, body, ask, request, Port!REQUEST_TIMEOUT + wait,
                           method, path)
          /\ refused = [asked EXCEPT !.at = "done", !.result = Port!Failed("forbidden")]
          /\ call' = asked \/ call' = refused
    BY <2>1, Zenon
  <2>3. /\ IsCall(asked) /\ asked.port = port /\ asked.at = "sent"
        /\ asked.limit = Port!REQUEST_TIMEOUT + wait
        /\ IsCall(refused) /\ refused.port = port /\ refused.at = "done"
        /\ refused.limit = Port!REQUEST_TIMEOUT + wait
    BY <2>2 DEF Asked, IsCall, CallFields
  <2>4. QED
    BY <2>2, <2>3
<1>3. port \in Port!Changing => call'.limit \in Nat /\ call'.limit <= Port!request_timeout
  BY <1>2 DEF Port!Changing, Port!Waits, Port!REQUEST_TIMEOUT, Port!request_timeout
<1>4. QED
  BY <1>1, <1>2, <1>3 DEF CallInv, ChangeInv, NotDone

LEMMA CallServed ==
  ASSUME CallInv, Port!Serve
  PROVE  CallInv'
<1>1. IsCall(call) /\ (call.port \in Port!Changing => ChangeInv(call, served))
  BY CallBegan DEF Port!Serve, Port!Abandoned
<1>2. PICK run \in Port!Runs :
         /\ served' = served \cup run.did
         /\ IF call.port \in Port!Streaming THEN Port!ServeStream(run.answer)
            ELSE Port!ServeOnly(run.answer)
  BY DEF Port!Serve
<1>3. CASE call.port \notin Port!Changing
  <2>1. Port!ServeStream(run.answer) \/ Port!ServeOnly(run.answer)
    BY <1>2
  <2>2. IsCall(call') /\ call'.port = call.port
    <3>1. \/ Port!ServeOnly(run.answer)
          \/ \E nl \in LineEnds :
                call' = [call EXCEPT !.at = IF call.port = "state" THEN "opening" ELSE "open",
                                     !.line_end = nl,
                                     !.result = IF call.port = "state" THEN call.result
                                                ELSE [ok |-> "events"]]
      BY <2>1 DEF Port!ServeStream
    <3>2. CASE Port!ServeOnly(run.answer)
      BY <1>1, <3>2 DEF Port!ServeOnly, IsCall, CallFields
    <3>3. CASE ~Port!ServeOnly(run.answer)
      BY <1>1, <3>1, <3>3 DEF IsCall, CallFields
    <3>4. QED
      BY <3>2, <3>3
  <2>3. QED
    BY <1>3, <2>2 DEF CallInv
<1>4. CASE call.port \in Port!Changing
  <2>1. Port!ServeOnly(run.answer)
    BY <1>2, <1>4 DEF Port!Changing, Port!Streaming
  <2>2. CASE Port!Abandoned
    BY <1>1, <1>4, <2>1, <2>2 DEF Port!ServeOnly, Port!Abandoned, CallInv, ChangeInv
  <2>3. CASE ~Port!Abandoned
    <3>1. MovesTo("answered") /\ call'.answer = {run.answer}
      BY <1>1, <2>1, <2>3, CallAnswered DEF Port!ServeOnly, Port!Some
    <3>2. NotDone(call.port, served)
      BY <1>1, <1>4, <2>3 DEF Port!Serve, ChangeInv
    <3>3. NotDone(call.port, run.did) => NotDone(call.port, served')
      BY <1>2, <3>2 DEF NotDone
    <3>4. /\ \/ run.answer.status = 200 \/ Unsettled(run.answer)
             \/ NotDone(call.port, served')
          /\ AsksForTag(call) => NotDone(call.port, served')
      BY <3>3, RunsAnswerTruly
    <3>5. QED
      BY <1>1, <1>4, <3>1, <3>4 DEF CallInv, ChangeInv, MovesTo, AsksForTag
  <2>4. QED
    BY <2>2, <2>3
<1>5. QED
  BY <1>3, <1>4

(* The tag is known: the save itself is sent, and nothing was saved yet. *)
LEMMA PutSent ==
  ASSUME CallInv, Port!SendPut
  PROVE  CallInv'
<1>1. call.at = "answered" /\ AsksForTag(call) /\ served' = served
  BY DEF Port!SendPut, Port!TagRead, AsksForTag
<1>2. IsCall(call) /\ ChangeInv(call, served)
  BY <1>1, CallBegan DEF AsksForTag, Port!Changing
<1>3. /\ IsCall(call') /\ call'.at = "sent"
      /\ call'.port = call.port /\ call'.limit = call.limit
  BY <1>2 DEF Port!SendPut, IsCall, CallFields
<1>4. QED
  BY <1>1, <1>2, <1>3 DEF CallInv, ChangeInv

LEMMA CallReceived ==
  ASSUME CallInv, Port!Receive
  PROVE  CallInv'
<1>1. IsCall(call) /\ (call.port \in Port!Changing => ChangeInv(call, served))
  BY CallBegan DEF Port!Receive
<1>2. PICK a \in call.answer :
        /\ call.at = "answered" /\ served' = served
        /\ Port!Done(IF a.status = 200 THEN Port!json(call.port, a.body)
                     ELSE [err |-> Port!into_control_error(a.status, a.error)])
  BY DEF Port!Receive
<1>3. /\ MovesTo("done")
      /\ a.status = 200 => call'.result = Port!json(call.port, a.body)
      /\ a.status # 200 =>
            call'.result = [err |-> Port!into_control_error(a.status, a.error)]
  BY <1>1, <1>2 DEF Port!Done, MovesTo, IsCall, CallFields
<1>4. ASSUME call.port \in Port!Changing, SaysRefused(call'.result)
      PROVE  NotDone(call.port, served')
  <2>1. a.status # 200
    BY <1>3, <1>4, SuccessIsNoRefusal
  <2>2. ~Unsettled(a)
    BY <1>3, <1>4, <2>1 DEF Unsettled
  <2>3. QED
    BY <1>1, <1>2, <1>4, <2>1, <2>2 DEF ChangeInv
<1>5. QED
  BY <1>1, <1>3, <1>4 DEF CallInv, ChangeInv, MovesTo

(* A call that changes something has no stream. *)
LEMMA CallTaken ==
  ASSUME CallInv, Port!Take \/ Port!Break
  PROVE  CallInv'
<1>1. call.at \in {"opening", "open"} /\ served' = served
  BY DEF Port!Take, Port!Break, Port!Attached
<1>2. IsCall(call) /\ call.port \notin Port!Changing
  BY <1>1, CallBegan DEF ChangeInv
<1>3. UNCHANGED call \/ (IsCall(call') /\ call'.port = call.port)
  BY <1>2 DEF Port!Take, Port!Break, Port!TakeFirst, Port!Pump, Port!NextOperation, Port!Done,
              IsCall, CallFields
<1>4. QED
  BY <1>2, <1>3 DEF CallInv

LEMMA CallGoesOn ==
  ASSUME CallInv, [Port!Next]_(Port!vars)
  PROVE  CallInv'
<1>1. CASE \E port \in Port!Ports : Port!Ask(port)
  BY <1>1, CallAsked
<1>2. CASE Port!Refuse
  <2>1. call.at = "sent" /\ served' = served
    BY <1>2 DEF Port!Refuse
  <2>2. IsCall(call) /\ (call.port \in Port!Changing => ChangeInv(call, served))
    BY <2>1, CallBegan
  <2>3. MovesTo("answered")
    BY <1>2, <2>2 DEF Port!Refuse, MovesTo, IsCall, CallFields
  <2>4. QED
    BY <2>1, <2>2, <2>3 DEF CallInv, ChangeInv, MovesTo, NotDone
<1>3. CASE Port!Serve
  BY <1>3, CallServed
<1>4. CASE Port!ServerTimesOut
  <2>1. call.at = "sent" /\ call.limit > Port!request_timeout
    BY <1>4 DEF Port!ServerTimesOut
  <2>2. IsCall(call) /\ (call.port \in Port!Changing => ChangeInv(call, served))
    BY <2>1, CallBegan
  <2>3. MovesTo("answered")
    BY <1>4, <2>2, CallAnswered DEF Port!ServerTimesOut
  <2>4. call.port \notin Port!Changing
    BY <2>1, <2>2 DEF ChangeInv, Port!request_timeout
  <2>5. QED
    BY <2>3, <2>4 DEF CallInv, MovesTo
<1>5. CASE Port!Unreachable
  <2>1. call.at \in {"sent", "answered", "opening"} /\ served' = served
    BY <1>5 DEF Port!Unreachable
  <2>2. IsCall(call) /\ (call.port \in Port!Changing => ChangeInv(call, served))
    BY <2>1, CallBegan
  <2>3. MovesTo("lost")
    BY <1>5, <2>2 DEF Port!Unreachable, MovesTo, IsCall, CallFields
  <2>4. QED
    BY <2>1, <2>2, <2>3 DEF CallInv, ChangeInv, MovesTo
<1>6. CASE Port!Receive
  BY <1>6, CallReceived
<1>7. CASE Port!Take \/ Port!Break
  BY <1>7, CallTaken
<1>8. CASE Port!SendPut
  BY <1>8, PutSent
<1>9. CASE Port!NoPlace \/ Port!WaitRevoked
  <2>1. /\ call.at = "sent" /\ call.port \in Port!Streaming \cup {"operation"}
        /\ call' = call \/ \E answer : call' = [call EXCEPT !.at = "answered", !.answer = answer]
    BY <1>9 DEF Port!NoPlace, Port!WaitRevoked, Port!ServeOnly
  <2>2. IsCall(call) /\ call.port \notin Port!Changing
    BY <2>1, CallBegan DEF Port!Streaming, Port!Changing
  <2>3. IsCall(call') /\ call'.port = call.port
    BY <2>1, <2>2, CallAnswered DEF MovesTo
  <2>4. QED
    BY <2>2, <2>3 DEF CallInv
<1>10. CASE UNCHANGED <<call, served>>
  BY <1>10 DEF CallInv
<1>11. QED
  BY <1>1, <1>2, <1>3, <1>4, <1>5, <1>6, <1>7, <1>8, <1>9, <1>10
     DEF Port!Next, Port!vars, Port!SendState, Port!SendOperation, Port!SendEnd, Port!KeepAlive,
         Port!ReceiverMoves, Port!Arrive, Port!OnStream

(* lib.rs of the client, pipeline.rs and routes.rs: when a call that changes *)
(* something comes back as forbidden, not found, not valid or rate limited,  *)
(* the service did not do it and never will, for any receivers, values,      *)
(* errors and submissions; so too for a save of the configuration, which is  *)
(* two requests and may fail to read back what it saved.  A 408 of the       *)
(* server reads as not valid although the handler may have finished: that no *)
(* such call can be told one rests on the client's limit, the shorter one.   *)
THEOREM RefusalsAreTrue == Port!Spec => []Port!RefusedMeansNotDone
<1>1. Port!Init => CallInv
  BY DEF Port!Init, CallInv, Port!None
<1>2. CallInv => Port!RefusedMeansNotDone
  BY DEF CallInv, ChangeInv, SaysRefused, NotDone, Port!RefusedMeansNotDone, Port!Idle
<1>3. QED
  BY <1>1, <1>2, CallGoesOn, PTL DEF Port!Spec
=============================================================================
