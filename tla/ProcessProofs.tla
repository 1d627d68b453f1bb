---------------------------- MODULE ProcessProofs ----------------------------
(***************************************************************************)
(* Proofs about what a process does besides serving.                       *)
(*                                                                         *)
(* Its profile (Profiles), for any fields, sources, file names, number of  *)
(* reloads and of changes of the directory: what a reload resolves follows *)
(* the precedence of its sources whatever the file says, and the mutex,    *)
(* held from the first look to the replacement, keeps what was read from   *)
(* being older than what is active.                                        *)
(*                                                                         *)
(* Its start and end (ServerLifecycle), for any requests: the clients that *)
(* were opened and not closed are those main still has a closer for.       *)
(***************************************************************************)
EXTENDS Profiles, ServerLifecycle, TLAPS

(* What PrecedenceHolds asks of a profile p of a process started with g,   *)
(* whose file held the document d.                                         *)
Supplied(p, g, d) ==
  \A f \in Fields :
    [value |-> p.config[f], source |-> p.sources[f]] =
      CASE g.arguments[f] # Unset ->
             [value |-> g.arguments[f], source |-> "CLI"]
        [] g.arguments[f] = Unset /\ g.environment[f] # Unset ->
             [value |-> g.environment[f], source |-> "environment"]
        [] g.arguments[f] = Unset /\ g.environment[f] = Unset /\ d[f] # Unset ->
             [value |-> d[f], source |-> "profile"]
        [] OTHER ->
             [value  |-> Defaults[f],
              source |-> IF Defaults[f] = Unset THEN "unset" ELSE "default"]

(* A source that leaves a field out does not touch it; one that has it     *)
(* overwrites it.                                                          *)
LEMMA OverlaidField ==
  ASSUME NEW p, NEW values, NEW source, NEW f \in Fields
  PROVE  LET o == Overlay(p, values, source) IN
           /\ o.config[f] = IF values[f] = Unset THEN p.config[f] ELSE values[f]
           /\ o.sources[f] = IF values[f] = Unset THEN p.sources[f] ELSE source
  BY DEF Overlay

(* Load follows the precedence of its sources, whatever they say.          *)
LEMMA ResolvedIsSupplied ==
  ASSUME NEW g, NEW d
  PROVE  Supplied(Resolve(g, d), g, d)
  <1> SUFFICES ASSUME NEW f \in Fields
               PROVE [value  |-> Resolve(g, d).config[f],
                      source |-> Resolve(g, d).sources[f]] =
                 CASE g.arguments[f] # Unset ->
                        [value |-> g.arguments[f], source |-> "CLI"]
                   [] g.arguments[f] = Unset /\ g.environment[f] # Unset ->
                        [value |-> g.environment[f], source |-> "environment"]
                   [] g.arguments[f] = Unset /\ g.environment[f] = Unset
                      /\ d[f] # Unset ->
                        [value |-> d[f], source |-> "profile"]
                   [] OTHER ->
                        [value  |-> Defaults[f],
                         source |-> IF Defaults[f] = Unset THEN "unset" ELSE "default"]
    BY DEF Supplied
  <1> DEFINE none == [config |-> Nothing, sources |-> [h \in Fields |-> "unset"]]
             withFile == Overlay(FromDefaults, d, "profile")
             withEnvironment == Overlay(withFile, g.environment, "environment")
  <1>1. /\ FromDefaults.config[f] = Defaults[f]
        /\ FromDefaults.sources[f] = IF Defaults[f] = Unset THEN "unset" ELSE "default"
    <2>1. none.config[f] = Unset /\ none.sources[f] = "unset"
      BY DEF Nothing
    <2> HIDE DEF none
    <2>2. FromDefaults = Overlay(none, Defaults, "default")
      BY DEF FromDefaults, none
    <2> QED BY <2>1, <2>2, OverlaidField
  <1>2. /\ withFile.config[f] = IF d[f] = Unset THEN Defaults[f] ELSE d[f]
        /\ withFile.sources[f] = IF d[f] = Unset THEN FromDefaults.sources[f] ELSE "profile"
    BY <1>1, OverlaidField
  <1> HIDE DEF withFile
  <1>3. /\ withEnvironment.config[f] =
             IF g.environment[f] = Unset THEN withFile.config[f] ELSE g.environment[f]
        /\ withEnvironment.sources[f] =
             IF g.environment[f] = Unset THEN withFile.sources[f] ELSE "environment"
    BY OverlaidField
  <1> HIDE DEF withEnvironment
  <1>4. /\ Resolve(g, d).config[f] =
             IF g.arguments[f] = Unset THEN withEnvironment.config[f] ELSE g.arguments[f]
        /\ Resolve(g, d).sources[f] =
             IF g.arguments[f] = Unset THEN withEnvironment.sources[f] ELSE "CLI"
    <2>1. Resolve(g, d) = Overlay(withEnvironment, g.arguments, "CLI")
      BY DEF Resolve, withEnvironment, withFile
    <2> QED BY <2>1, OverlaidField
  <1> QED BY <1>1, <1>2, <1>3, <1>4

------------------------------------------------------------------------------
(* A profile that was loaded from what was seen: accepted, supplied as its *)
(* sources say, and read from one file.                                    *)
OneFile(seen) ==
  /\ \A name, other \in seen.found : name = other
  /\ seen.found # {} => seen.content.kind = "document"
  /\ seen.lasting \subseteq seen.found

Loaded(p, seen, g) ==
  Accepted(p) /\ Supplied(p, g, seen.content.values) /\ OneFile(seen)

(* A reload that has read its file: what it will put into the slot was     *)
(* read after what is there now.                                           *)
ReadWell(reload, g, active, now) ==
  reload.at = "read" =>
    /\ Loaded(reload.profile, reload.seen, g)
    /\ reload.readAt \in Nat
    /\ active <= reload.readAt /\ reload.readAt <= now

(* A reload that looks: of the names it has tried it has found those that  *)
(* are there and have not changed since it began.                          *)
Looking == [at : {"looking"}, tried : 0 .. Len(Extensions), found : SUBSET Names,
            startedAt : Nat]

LooksWell(reload) ==
  reload.at = "looking" =>
    /\ reload \in Looking
    /\ reload.startedAt <= edits
    /\ \A i \in 1 .. reload.tried :
         changedAt[Extensions[i]] <= reload.startedAt /\ files[Extensions[i]] # Absent =>
           Extensions[i] \in reload.found

Loading(reload) == reload.at \in {"looking", "read"}

ProfilesInv ==
  /\ DOMAIN reloads = Reloaders /\ DOMAIN files = Names /\ DOMAIN changedAt = Names
  /\ edits \in Nat /\ loadedAt \in Nat /\ loadedAt <= edits
  /\ Loaded(slot, origin, given)
  /\ \A r \in Reloaders :
       ReadWell(reloads[r], given, loadedAt, edits) /\ LooksWell(reloads[r])
  /\ \A r, other \in Reloaders :
       Loading(reloads[r]) /\ Loading(reloads[other]) => r = other
  /\ ChangesReported

LEMMA ProfilesStart == Init => ProfilesInv
  <1> SUFFICES ASSUME Init PROVE ProfilesInv
    OBVIOUS
  <1>1. PICK g \in Given, d \in Documents, name \in Names, stored \in BOOLEAN :
          LET profile == Resolve(g, origin.content.values)
          IN  /\ given = g /\ Accepted(profile) /\ slot = Active(profile, 1)
              /\ boot = profile.config
              /\ files = [n \in Names |-> IF stored /\ n = name THEN Holds(d) ELSE Absent]
              /\ changedAt = [n \in Names |-> 0]
              /\ origin = Seen(IF stored THEN {name} ELSE {}, 0)
    BY DEF Init
  <1> DEFINE profile == Resolve(g, origin.content.values)
  <1>2. Supplied(profile, g, origin.content.values)
    BY ResolvedIsSupplied
  <1> HIDE DEF profile
  <1>3. slot.config = profile.config /\ slot.sources = profile.sources
    BY <1>1 DEF profile, Active
  <1>4. OneFile(origin)
    <2>1. CASE stored
      <3>1. origin.found = {name} /\ origin.content = files[name]
        BY <1>1, <2>1 DEF Seen
      <3>2. origin.lasting \subseteq {name}
        BY <1>1, <2>1 DEF Seen
      <3> QED BY <1>1, <2>1, <3>1, <3>2 DEF OneFile, Holds
    <2>2. CASE ~stored
      BY <1>1, <2>2 DEF Seen, OneFile
    <2> QED BY <2>1, <2>2
  <1>5. Loaded(slot, origin, given)
    BY <1>1, <1>2, <1>3, <1>4 DEF Loaded, Accepted, Supplied, profile
  <1>6. ChangesReported
    BY <1>1, <1>3 DEF ChangesReported, profile
  <1>7. /\ reloads = [r \in Reloaders |-> [at |-> "idle"]] /\ edits = 0 /\ loadedAt = 0
        /\ DOMAIN files = Names /\ DOMAIN changedAt = Names
    BY <1>1 DEF Init, Idle
  <1> QED BY <1>5, <1>6, <1>7 DEF ProfilesInv, ReadWell, LooksWell, Loading

(* The directory changes: what was read stays as it was read, and the name *)
(* that changes is none that a look answers for any more.                  *)
LEMMA DirectoryHolds ==
  ASSUME ProfilesInv, Untouched \/ \E name, content : Change(name, content),
         UNCHANGED <<given, reloads, slot, origin, loadedAt, boot, reported>>
  PROVE  ProfilesInv'
  <1>1. edits' \in Nat /\ edits <= edits' /\ loadedAt' <= edits'
    BY DEF ProfilesInv, Change, Untouched
  <1>2. ASSUME NEW r \in Reloaders PROVE ReadWell(reloads'[r], given', loadedAt', edits')
    <2>1. ReadWell(reloads[r], given, loadedAt, edits)
      BY DEF ProfilesInv
    <2> QED BY <1>1, <2>1 DEF ProfilesInv, ReadWell
  <1>3. ASSUME NEW r \in Reloaders PROVE LooksWell(reloads[r])'
    <2>1. LooksWell(reloads[r])
      BY DEF ProfilesInv
    <2>2. CASE Untouched
      BY <2>1, <2>2 DEF LooksWell, Untouched
    <2>3. ASSUME NEW name, NEW content, Change(name, content)
          PROVE  LooksWell(reloads[r])'
      <3>1. /\ edits' = edits + 1 /\ (name \in Names => changedAt'[name] = edits + 1)
            /\ \A n \in Names : n # name =>
                 changedAt'[n] = changedAt[n] /\ files'[n] = files[n]
        BY <2>3 DEF Change, ProfilesInv
      <3>2. ASSUME reloads[r].at = "looking", NEW i \in 1 .. reloads[r].tried,
                   changedAt'[Extensions[i]] <= reloads[r].startedAt
            PROVE  Extensions[i] # name /\ Extensions[i] \in Names
        BY <2>1, <3>1, <3>2 DEF LooksWell, Looking, ProfilesInv, Names
      <3> QED BY <1>1, <2>1, <3>1, <3>2 DEF LooksWell, Looking, ProfilesInv
    <2> QED BY <2>2, <2>3
  <1>4. DOMAIN files' = Names /\ DOMAIN changedAt' = Names
    BY DEF ProfilesInv, Change, Untouched
  <1> QED BY <1>1, <1>2, <1>3, <1>4 DEF ProfilesInv, ChangesReported

(* A reload moves, without replacing the slot.                             *)
LEMMA ReloadMoves ==
  ASSUME ProfilesInv, NEW r \in Reloaders, NEW s,
         reloads' = [reloads EXCEPT ![r] = s],
         ReadWell(s, given, loadedAt, edits), LooksWell(s),
         Loading(s) => \A other \in Reloaders : other # r => ~Loading(reloads[other]),
         Untouched, UNCHANGED <<given, slot, origin, loadedAt, boot, reported>>
  PROVE  ProfilesInv'
  <1>1. /\ DOMAIN reloads' = Reloaders /\ reloads'[r] = s
        /\ \A other \in Reloaders : other # r => reloads'[other] = reloads[other]
        /\ UNCHANGED <<files, edits, changedAt>>
    BY DEF ProfilesInv, Untouched
  <1>2. \A other \in Reloaders : ReadWell(reloads'[other], given, loadedAt, edits)
    BY <1>1 DEF ProfilesInv
  <1>3. \A other \in Reloaders : LooksWell(reloads[other])'
    <2>1. \A other \in Reloaders : LooksWell(reloads'[other])
      BY <1>1 DEF ProfilesInv
    <2> QED BY <1>1, <2>1 DEF LooksWell
  <1>4. \A one, other \in Reloaders :
          Loading(reloads'[one]) /\ Loading(reloads'[other]) => one = other
    BY <1>1 DEF ProfilesInv
  <1> QED BY <1>1, <1>2, <1>3, <1>4 DEF ProfilesInv, ChangesReported

LEMMA LookedFurther ==
  ASSUME NEW reload \in Looking, NEW i \in 1 .. Len(Extensions),
         NEW found \in SUBSET Names
  PROVE  [reload EXCEPT !.tried = i, !.found = found] \in Looking
  <1>1. 1 .. Len(Extensions) \subseteq 0 .. Len(Extensions)
    BY SchemaAssumption
  <1> QED BY <1>1 DEF Looking

(* One more name is looked for.                                            *)
LEMMA LookHolds ==
  ASSUME ProfilesInv, NEW r \in Reloaders, LookNext(r)
  PROVE  ProfilesInv'
  <1> DEFINE reload == reloads[r]
             i == reload.tried + 1
             name == Extensions[i]
             found == IF files[name] = Absent THEN reload.found ELSE reload.found \cup {name}
             s == [reload EXCEPT !.tried = i, !.found = found]
  <1>1. /\ reload.at = "looking" /\ reload.tried < Len(Extensions)
        /\ reloads' = [reloads EXCEPT ![r] = s]
        /\ Untouched /\ UNCHANGED <<given, slot, origin, loadedAt, boot, reported>>
    BY DEF LookNext, SetReload, Untouched
  <1>2. LooksWell(reload)
    BY DEF ProfilesInv
  <1>3. LooksWell(s)
    <2>1. reload \in Looking /\ Len(Extensions) \in Nat /\ i \in 1 .. Len(Extensions)
      BY <1>1, <1>2, SchemaAssumption DEF LooksWell, Looking
    <2>2. s \in Looking
      <3>1. found \in SUBSET Names
        BY <2>1 DEF Looking, Names
      <3> HIDE DEF found, i, reload
      <3> QED BY <2>1, <3>1, LookedFurther
    <2>3. s.startedAt = reload.startedAt /\ s.tried = i /\ s.found = found
      BY <2>1 DEF Looking
    <2>4. ASSUME NEW j \in 1 .. i, changedAt[Extensions[j]] <= reload.startedAt,
                 files[Extensions[j]] # Absent
          PROVE  Extensions[j] \in found
      BY <1>1, <1>2, <2>1, <2>4 DEF LooksWell, Looking
    <2> HIDE DEF s, found, i, name
    <2> QED BY <1>1, <1>2, <2>2, <2>3, <2>4 DEF LooksWell
  <1> HIDE DEF s
  <1>4. s.at = "looking"
    BY <1>1 DEF s
  <1>5. ReadWell(s, given, loadedAt, edits)
    BY <1>4 DEF ReadWell
  <1>6. \A other \in Reloaders : other # r => ~Loading(reloads[other])
    BY <1>1 DEF ProfilesInv, Loading
  <1> QED BY <1>1, <1>3, <1>5, <1>6, ReloadMoves

LEMMA LockHolds ==
  ASSUME ProfilesInv, NEW r \in Reloaders, Lock(r) \/ Again(r)
  PROVE  ProfilesInv'
  <1>1. CASE Lock(r)
    <2> DEFINE s == [at |-> "looking", tried |-> 0, found |-> {}, startedAt |-> edits]
    <2>1. s \in Looking /\ s.at = "looking" /\ s.tried = 0 /\ s.startedAt = edits
      BY SchemaAssumption DEF Looking, ProfilesInv
    <2>2. /\ reloads' = [reloads EXCEPT ![r] = s]
          /\ Untouched /\ UNCHANGED <<given, slot, origin, loadedAt, boot, reported>>
      BY <1>1 DEF Lock, SetReload, Untouched
    <2> HIDE DEF s
    <2>3. ReadWell(s, given, loadedAt, edits) /\ LooksWell(s)
      BY <2>1 DEF ReadWell, LooksWell, ProfilesInv
    <2>4. \A other \in Reloaders : ~Loading(reloads[other])
      BY <1>1 DEF Lock, MutexFree, InLoad, Loading
    <2> QED BY <2>2, <2>3, <2>4, ReloadMoves
  <1>2. CASE Again(r)
    BY <1>2, ReloadMoves
       DEF Again, SetReload, Untouched, Idle, ReadWell, LooksWell, Loading
  <1> QED BY <1>1, <1>2

LEMMA ReadProfileHolds ==
  ASSUME ProfilesInv, NEW r \in Reloaders, ReadProfile(r)
  PROVE  ProfilesInv'
  <1> DEFINE found   == reloads[r].found
             seen    == Seen(found, reloads[r].startedAt)
             profile == Resolve(given, seen.content.values)
             s       == [at |-> "read", profile |-> profile, seen |-> seen, readAt |-> edits]
  <1>0. /\ \A other \in Reloaders : other # r => ~Loading(reloads[other])
        /\ reloads[r] \in Looking /\ reloads[r].tried = Len(Extensions)
        /\ LooksWell(reloads[r]) /\ reloads[r].at = "looking"
    BY DEF ReadProfile, ProfilesInv, Loading, LooksWell
  <1>1. CASE Fail(r)
    BY <1>0, <1>1, ReloadMoves DEF Fail, SetReload, Untouched, ReadWell, LooksWell, Loading
  <1>2. CASE ~Fail(r)
    <2>1. /\ \A name, other \in found : name = other
          /\ found # {} => seen.content.kind = "document"
          /\ Accepted(profile)
          /\ SetReload(r, s) /\ UNCHANGED <<slot, origin, loadedAt, reported>>
      BY <1>2 DEF ReadProfile
    <2>2. seen.found = found /\ seen.lasting \subseteq found
      <3> SUFFICES ASSUME NEW name \in Names, changedAt[name] <= reloads[r].startedAt,
                          files[name] # Absent
                   PROVE  name \in found
        BY DEF Seen
      <3>1. PICK i \in 1 .. Len(Extensions) : name = Extensions[i]
        BY DEF Names
      <3> QED BY <1>0, <3>1 DEF LooksWell
    <2> HIDE DEF found, seen
    <2>3. Loaded(profile, seen, given)
      BY <2>1, <2>2, ResolvedIsSupplied DEF Loaded, OneFile
    <2> HIDE DEF profile
    <2>4. ReadWell(s, given, loadedAt, edits) /\ LooksWell(s)
      BY <2>3 DEF ReadWell, LooksWell, ProfilesInv
    <2>5. /\ reloads' = [reloads EXCEPT ![r] = s]
          /\ Untouched /\ UNCHANGED <<given, slot, origin, loadedAt, boot, reported>>
      BY <2>1 DEF SetReload, Untouched
    <2> HIDE DEF s
    <2> QED BY <1>0, <2>4, <2>5, ReloadMoves
  <1> QED BY <1>1, <1>2

LEMMA ReplaceHolds ==
  ASSUME ProfilesInv, NEW r \in Reloaders, Replace(r)
  PROVE  ProfilesInv' /\ loadedAt <= loadedAt'
  <1> DEFINE candidate == reloads[r].profile
             seen      == reloads[r].seen
  <1>1. /\ reloads[r].at = "read" /\ loadedAt' = reloads[r].readAt
        /\ reloads' = [reloads EXCEPT ![r] = [at |-> "idle"]]
        /\ UNCHANGED <<files, edits, changedAt, given, boot>>
    BY DEF Replace, SetReload, Idle
  <1>2. /\ Loaded(candidate, seen, given) /\ loadedAt' \in Nat
        /\ loadedAt <= loadedAt' /\ loadedAt' <= edits
    BY <1>1 DEF ProfilesInv, ReadWell
  <1>3. \A other \in Reloaders : ~Loading(reloads'[other])
    BY <1>1 DEF ProfilesInv, Loading
  <1>4. \A other \in Reloaders :
          /\ ReadWell(reloads'[other], given', loadedAt', edits')
          /\ LooksWell(reloads[other])'
    BY <1>3 DEF Loading, ReadWell, LooksWell
  <1>5. Loaded(slot', origin', given') /\ ChangesReported'
    <2>1. CASE candidate.config = slot.config
      BY <1>1, <2>1 DEF Replace, ProfilesInv, ChangesReported
    <2>2. CASE candidate.config # slot.config
      <3>1. /\ slot'.config = candidate.config /\ slot'.sources = candidate.sources
            /\ origin' = seen
            /\ reported' = reported
                 \cup (ChangedFields(slot.config, candidate.config) \cap Restart)
        BY <2>2 DEF Replace, Active
      <3>2. Loaded(slot', origin', given')
        BY <1>1, <1>2, <3>1 DEF Loaded, Accepted, Supplied
      <3>3. ChangesReported'
        BY <1>1, <3>1, SchemaAssumption DEF ProfilesInv, ChangesReported, ChangedFields
      <3> QED BY <3>2, <3>3
    <2> QED BY <2>1, <2>2
  <1>6. /\ DOMAIN reloads' = Reloaders /\ DOMAIN files' = Names
        /\ DOMAIN changedAt' = Names /\ edits' \in Nat
    BY <1>1 DEF ProfilesInv
  <1> QED BY <1>1, <1>2, <1>3, <1>4, <1>5, <1>6 DEF ProfilesInv

LEMMA ProfilesStep ==
  ProfilesInv /\ [Next]_vars => ProfilesInv' /\ loadedAt <= loadedAt'
  <1> SUFFICES ASSUME ProfilesInv, [Next]_vars
               PROVE  ProfilesInv' /\ loadedAt <= loadedAt'
    OBVIOUS
  <1>0. loadedAt <= loadedAt
    BY DEF ProfilesInv
  <1>1. CASE UNCHANGED vars
    BY <1>0, <1>1, DirectoryHolds DEF vars, Untouched
  <1>2. ASSUME NEW name \in Names, Edit(name) PROVE ProfilesInv' /\ loadedAt' = loadedAt
    BY <1>2, DirectoryHolds DEF Edit
  <1>3. ASSUME NEW c \in Creators,
               \/ \E name \in Names, d \in Documents : CreateChecks(c, name, d)
               \/ CreateOpens(c) \/ CreateWrites(c)
        PROVE  ProfilesInv' /\ loadedAt' = loadedAt
    <2>1. CASE \E name \in Names, d \in Documents : CreateChecks(c, name, d)
      BY <2>1, DirectoryHolds DEF CreateChecks, SetCreator
    <2>2. CASE CreateOpens(c)
      BY <2>2, DirectoryHolds DEF CreateOpens, SetCreator
    <2>3. CASE CreateWrites(c)
      BY <2>3, DirectoryHolds DEF CreateWrites, Write, SetCreator
    <2> QED BY <1>3, <2>1, <2>2, <2>3
  <1>4. ASSUME NEW r \in Reloaders, ReloadStep(r)
        PROVE  ProfilesInv' /\ loadedAt <= loadedAt'
    <2>1. CASE Replace(r)
      BY <2>1, ReplaceHolds
    <2>2. CASE Lock(r) \/ LookNext(r) \/ Again(r)
      BY <1>0, <2>2, LockHolds, LookHolds DEF Lock, LookNext, Again
    <2>3. CASE ReadProfile(r)
      BY <1>0, <2>3, ReadProfileHolds DEF ReadProfile, Fail
    <2> QED BY <1>4, <2>1, <2>2, <2>3 DEF ReloadStep
  <1> QED BY <1>0, <1>1, <1>2, <1>3, <1>4 DEF Next

LEMMA ProfilesInductive == Spec => []ProfilesInv
  BY ProfilesStart, ProfilesStep, PTL DEF Spec

(* FileStore.Load and Slot.Replace: every field of the active profile      *)
(* comes from the highest source that has it, the document that was read   *)
(* and the defaults among them; only what was accepted becomes active; and *)
(* it was read from one file that decoded, no other having been there all  *)
(* through the load.                                                       *)
THEOREM SourcesKeepPrecedence == Spec => []PrecedenceHolds
  <1>1. ProfilesInv => PrecedenceHolds
    <2> SUFFICES ASSUME ProfilesInv PROVE PrecedenceHolds
      OBVIOUS
    <2>1. Loaded(slot, origin, given)
      BY DEF ProfilesInv
    <2>2. OneFileRead
      BY <2>1 DEF Loaded, OneFile, OneFileRead
    <2> QED BY <2>1, <2>2 DEF Loaded, Supplied, PrecedenceHolds
  <1> QED BY <1>1, ProfilesInductive, PTL

(* Slot.Replace: a field that needs a restart and differs from what the    *)
(* process was started with has been reported.                             *)
THEOREM RestartsAreReported == Spec => []ChangesReported
  BY ProfilesInductive, PTL DEF ProfilesInv

(* Manager.Reload: no reload puts into the slot what was read before what  *)
(* is there, however many overlap.                                         *)
THEOREM ReloadsKeepOrder == Spec => NeverStale
  <1>1. ProfilesInv /\ [Next]_vars => [loadedAt <= loadedAt']_vars
    BY ProfilesStep
  <1> QED BY <1>1, ProfilesInductive, PTL DEF Spec, NeverStale

------------------------------------------------------------------------------
(* The server.  What was opened and not closed has a closer, and the last  *)
(* one opened is closed first.                                             *)
ClosersComplete ==
  /\ closers \in Seq(Clients)
  /\ \/ opened = {} /\ closed = {} /\ Len(closers) = 0
     \/ opened = {"firestore"} /\ closed = {} /\ Len(closers) = 1
     \/ opened = {"firestore"} /\ closed = {"firestore"} /\ Len(closers) = 0
     \/ opened = Clients /\ closed = {} /\ Len(closers) = 2
     \/ opened = Clients /\ closed = {"storage"} /\ Len(closers) = 1
     \/ opened = Clients /\ closed = Clients /\ Len(closers) = 0
  /\ Len(closers) >= 1 => closers[1] = "firestore"
  /\ Len(closers) = 2 => closers[2] = "storage"

(* What compose has opened by the time it comes to a step.                 *)
ComposedSoFar ==
  /\ enabled \in SUBSET Services
  /\ main = "firestore" => opened = {}
  /\ main \in {"auth", "storage"} =>
       opened = IF enabled = {} THEN {} ELSE {"firestore"}

ServerInv ==
  /\ main \in {Steps[i] : i \in DOMAIN Steps} \cup {"returned", "exited"}
  /\ ClosersComplete
  /\ ComposedSoFar
  /\ closed # {} => main \in {"returned", "exited"}
  /\ main = "exited" => Len(closers) = 0
  /\ listening => main = "serving"

(* The order of compose.                                                   *)
LEMMA StepsInOrder ==
  /\ Following("firestore") = "auth" /\ Following("auth") = "storage"
  /\ Following("storage") = "tissues" /\ Following("tissues") = "routes"
  /\ Following("routes") = "listen" /\ Following("listen") = "serving"
  /\ {Steps[i] : i \in 1 .. (Len(Steps) - 1)}
       = {"firestore", "auth", "storage", "tissues", "routes", "listen"}
  /\ {Steps[i] : i \in DOMAIN Steps}
       = {"firestore", "auth", "storage", "tissues", "routes", "listen", "serving"}
  <1>1. /\ DOMAIN Steps = 1 .. 7 /\ Len(Steps) = 7
        /\ Steps[1] = "firestore" /\ Steps[2] = "auth" /\ Steps[3] = "storage"
        /\ Steps[4] = "tissues" /\ Steps[5] = "routes" /\ Steps[6] = "listen"
        /\ Steps[7] = "serving"
    BY DEF Steps
  <1>2. \A j \in 1 .. 6 : Following(Steps[j]) = Steps[j + 1]
    <2> SUFFICES ASSUME NEW j \in 1 .. 6 PROVE Following(Steps[j]) = Steps[j + 1]
      OBVIOUS
    <2>1. j \in DOMAIN Steps /\ \A i \in DOMAIN Steps : Steps[i] = Steps[j] <=> i = j
      BY <1>1
    <2>2. (CHOOSE i \in DOMAIN Steps : Steps[i] = Steps[j]) = j
      BY <2>1
    <2>3. 1 + j = j + 1
      OBVIOUS
    <2> QED BY <2>2, <2>3 DEF Following
  <1> QED BY <1>1, <1>2

LEMMA ServerStart == ServerInit => ServerInv
  BY StepsInOrder DEF ServerInit, ServerInv, ClosersComplete, ComposedSoFar

LEMMA ComposeHolds == ServerInv /\ (Skip \/ Compose) => ServerInv'
  <1> SUFFICES ASSUME ServerInv, Skip \/ Compose PROVE ServerInv'
    OBVIOUS
  <1>1. /\ main \in {"firestore", "auth", "storage", "tissues", "routes", "listen"}
        /\ main' = Following(main) /\ closed' = closed /\ enabled' = enabled
        /\ closed = {} /\ ~listening
    BY StepsInOrder DEF Skip, Compose, IsComposing, ServerInv, dependencies
  <1>2. /\ main' \in {Steps[i] : i \in DOMAIN Steps}
        /\ main' \notin {"firestore", "exited", "returned"}
        /\ main' = "serving" => main = "listen"
        /\ main' \in {"auth", "storage"} => main \in {"firestore", "auth"}
        /\ main = "listen" => main' = "serving"
    BY <1>1, StepsInOrder
  <1>3. listening' => main = "listen"
    BY <1>1 DEF Skip, Compose, serving
  <1>4. CASE main \in Clients /\ Compose
    <2>1. opened' = opened \cup {main} /\ closers' = Append(closers, main)
      BY <1>4 DEF Compose
    <2>2. CASE main = "firestore"
      <3>1. opened = {} /\ Len(closers) = 0 /\ enabled # {} /\ closers \in Seq(Clients)
        BY <1>4, <2>2 DEF ServerInv, ComposedSoFar, ClosersComplete, Compose, Needed, Clients
      <3>2. /\ opened' = {"firestore"} /\ closers' \in Seq(Clients)
            /\ Len(closers') = 1 /\ closers'[1] = "firestore"
        BY <1>4, <2>1, <2>2, <3>1
      <3> QED BY <1>1, <1>2, <1>3, <3>1, <3>2
          DEF ServerInv, ClosersComplete, ComposedSoFar
    <2>3. CASE main = "storage"
      <3>1. enabled # {}
        BY <1>4, <2>3 DEF Compose, Needed
      <3>2. /\ opened = {"firestore"} /\ closers \in Seq(Clients)
            /\ Len(closers) = 1 /\ closers[1] = "firestore"
        <4>1. opened = {"firestore"} /\ opened # Clients
          BY <1>1, <2>3, <3>1 DEF ServerInv, ComposedSoFar, Clients
        <4> QED BY <1>1, <4>1 DEF ServerInv, ClosersComplete
      <3>3. /\ opened' = Clients /\ closers' \in Seq(Clients) /\ Len(closers') = 2
            /\ closers'[1] = "firestore" /\ closers'[2] = "storage"
        <4>1. {"firestore"} \cup {"storage"} = Clients
          BY DEF Clients
        <4>2. closers' = Append(closers, "storage") /\ "storage" \in Clients
          BY <2>1, <2>3 DEF Clients
        <4>3. /\ closers' \in Seq(Clients) /\ Len(closers') = 2
              /\ closers'[1] = "firestore" /\ closers'[2] = "storage"
          BY <3>2, <4>2
        <4> QED BY <2>1, <2>3, <3>2, <4>1, <4>3
      <3>4. main' = "tissues"
        BY <1>1, <2>3, StepsInOrder
      <3> QED BY <1>1, <1>2, <1>3, <3>3, <3>4
          DEF ServerInv, ClosersComplete, ComposedSoFar
    <2> QED BY <1>4, <2>2, <2>3 DEF Clients
  <1>5. CASE ~(main \in Clients /\ Compose)
    <2>1. UNCHANGED <<opened, closers>>
      BY <1>5 DEF Skip, Compose, dependencies
    <2>2. main = "firestore" => enabled = {}
      BY <1>5 DEF Skip, Compose, Needed, Clients
    <2> QED BY <1>1, <1>2, <1>3, <2>1, <2>2
        DEF ServerInv, ClosersComplete, ComposedSoFar
  <1> QED BY <1>4, <1>5

LEMMA CloseHolds == ServerInv /\ Close => ServerInv'
  <1> SUFFICES ASSUME ServerInv, Close PROVE ServerInv'
    OBVIOUS
  <1>1. /\ main = "returned" /\ closers # <<>>
        /\ closed' = closed \cup {closers[Len(closers)]}
        /\ closers' = SubSeq(closers, 1, Len(closers) - 1)
        /\ UNCHANGED <<enabled, main, opened, listening>>
    BY DEF Close, serving
  <1>2. ClosersComplete'
    <2>1. CASE Len(closers) = 1
      <3>1. /\ Len(closers') = 0 /\ closers' \in Seq(Clients)
            /\ closed' = closed \cup {"firestore"}
        BY <1>1, <2>1 DEF ServerInv, ClosersComplete
      <3> QED BY <1>1, <2>1, <3>1 DEF ServerInv, ClosersComplete, Clients
    <2>2. CASE Len(closers) = 2
      <3>1. /\ Len(closers') = 1 /\ closers' \in Seq(Clients)
            /\ closers'[1] = "firestore" /\ closed' = closed \cup {"storage"}
        BY <1>1, <2>2 DEF ServerInv, ClosersComplete
      <3> QED BY <1>1, <2>2, <3>1 DEF ServerInv, ClosersComplete
    <2>3. Len(closers) # 0
      BY <1>1 DEF ServerInv, ClosersComplete
    <2> QED BY <2>1, <2>2, <2>3 DEF ServerInv, ClosersComplete
  <1> QED BY <1>1, <1>2, StepsInOrder DEF ServerInv, ComposedSoFar

LEMMA ServerStepHolds == ServerInv /\ [ServerNext]_serverVars => ServerInv'
  <1> SUFFICES ASSUME ServerInv, [ServerNext]_serverVars PROVE ServerInv'
    OBVIOUS
  <1>1. CASE UNCHANGED <<enabled, main, opened, closed, closers>> /\ (listening' => listening)
    BY <1>1 DEF ServerInv, ClosersComplete, ComposedSoFar
  <1>2. CASE ComposeFails
    BY <1>2, StepsInOrder
       DEF ComposeFails, ClosersOnError, IsComposing, serving,
           ServerInv, ClosersComplete, ComposedSoFar
  <1>3. CASE ServeReturns \/ ListenerFails
    BY <1>3 DEF ServeReturns, ListenerFails, dependencies, serving,
                ServerInv, ClosersComplete, ComposedSoFar
  <1>4. CASE Exit
    BY <1>4, StepsInOrder
       DEF Exit, dependencies, ServerInv, ClosersComplete, ComposedSoFar
  <1>5. CASE UNCHANGED serverVars \/ StopperStep \/ Signal
             \/ \E c \in Calls : Accept(c) \/ Respond(c)
    BY <1>1, <1>5 DEF serverVars, StopperStep, Stop, Drained, DrainTimesOut,
       StopperDismissed, Signal, Accept, Respond, dependencies
  <1> QED BY <1>2, <1>3, <1>4, <1>5, ComposeHolds, CloseHolds
      DEF ServerNext, MainStep

(* run and StartAndWait: whatever fails, every client that was opened is   *)
(* closed when the process ends, and none while requests may come.         *)
THEOREM ClientsAreClosed == ServerSpec => []NothingLeaked
  <1>1. ServerInv => NothingLeaked
    <2> SUFFICES ASSUME ServerInv PROVE NothingLeaked
      OBVIOUS
    <2>1. ASSUME main = "exited" PROVE closed = opened
      <3>1. Len(closers) = 0
        BY <2>1 DEF ServerInv
      <3>2. Len(closers) # 1 /\ Len(closers) # 2
        BY <3>1
      <3>3. ClosersComplete
        BY DEF ServerInv
      <3> QED BY <3>2, <3>3, Zenon DEF ClosersComplete
    <2>2. closed # {} => ~listening
      BY DEF ServerInv
    <2>3. "firestore" \in closed => opened \subseteq closed
      BY DEF ServerInv, ClosersComplete, Clients
    <2> QED BY <2>1, <2>2, <2>3 DEF NothingLeaked
  <1> QED BY <1>1, ServerStart, ServerStepHolds, PTL DEF ServerSpec
==============================================================================
