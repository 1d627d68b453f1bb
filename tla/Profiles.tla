------------------------------ MODULE Profiles ------------------------------
(***************************************************************************)
(* lib/core/config: a named profile in a directory, created by FileStore,  *)
(* edited from outside, and loaded into the Slot of a running process by   *)
(* Manager.Reload.                                                         *)
(*                                                                         *)
(* The directory is shared by processes and nothing in it is locked: a     *)
(* profile is looked for under one file name after the other, then read;   *)
(* creating one is a look, an exclusive open and a write.  Reloads of one  *)
(* Manager hold its mutex from the first look to the replacement.          *)
(***************************************************************************)
EXTENDS Integers, Sequences, FiniteSets

CONSTANTS
  Fields, Values,
  Unset,         \* no value: a field that a source leaves out
  Required,      \* the fields tagged required
  Restart,       \* the fields tagged restart
  Defaults,      \* field -> its default or Unset
  Given,         \* the environments and argument lists processes start with
  ValidConfigs,  \* the configurations that pass validate
  Documents,     \* field -> value or Unset: the documents people write
  Extensions,    \* the file names of a profile, in the order they are tried
  Creators, Reloaders,
  MaxEdits       \* bound on changes of the directory

Settings == [Fields -> Values \cup {Unset}]

ASSUME SchemaAssumption ==
  /\ Unset \notin Values /\ Required \subseteq Fields /\ Restart \subseteq Fields
  /\ Defaults \in Settings /\ \A f \in Required : Defaults[f] = Unset
  /\ Given \subseteq [environment : Settings, arguments : Settings]
  /\ Documents \subseteq Settings /\ ValidConfigs \subseteq Settings
  /\ Extensions \in Seq({"json", "yaml", "yml"})

VARIABLES
  files,     \* file name -> what is in it
  edits,     \* changes of the directory so far
  changedAt, \* file name -> the edit that changed it last
  given,     \* this process's environment and arguments
  creators,  \* call of FileStore.Create -> its progress
  reloads,   \* call of Manager.Reload -> its progress
  slot,      \* the active profile
  origin,    \* what the load that gave it saw of the directory
  loadedAt,  \* the edits the active profile's file had seen when it was read
  boot,      \* the configuration the process started with
  reported   \* the fields that reloads reported as RestartRequired

vars == <<files, edits, changedAt, given, creators, reloads, slot, origin, loadedAt,
          boot, reported>>

Names  == {Extensions[i] : i \in 1..Len(Extensions)}
Nothing == [f \in Fields |-> Unset]

Absent == [kind |-> "absent", values |-> Nothing]
Broken == [kind |-> "broken", values |-> Nothing]
Holds(d) == [kind |-> "document", values |-> d]

------------------------------------------------------------------------------
(* Load: each source overwrites what the sources before it supplied.       *)

Overlay(profile, values, source) ==
  [config  |-> [f \in Fields |-> IF values[f] = Unset THEN profile.config[f] ELSE values[f]],
   sources |-> [f \in Fields |-> IF values[f] = Unset THEN profile.sources[f] ELSE source]]

FromDefaults ==
  Overlay([config |-> Nothing, sources |-> [f \in Fields |-> "unset"]], Defaults, "default")

(* Mutant: the defaults are filled in after the profile, over it.          *)
ResolveDefaultsOver(g, d) ==
  Overlay(Overlay(Overlay(Overlay(FromDefaults, d, "profile"), Defaults, "default"),
                  g.environment, "environment"), g.arguments, "CLI")

(* A profile that is not found is like an empty document.                  *)
Resolve(g, d) ==
  Overlay(Overlay(Overlay(FromDefaults, d, "profile"),
                  g.environment, "environment"), g.arguments, "CLI")

(* The required fields and validate.                                       *)
Accepted(profile) ==
  /\ \A f \in Required : profile.sources[f] # "unset"
  /\ profile.config \in ValidConfigs

Active(profile, revision) ==
  [config |-> profile.config, sources |-> profile.sources, revision |-> revision]

(* What a load sees when it reads the file it found: what is in it, and    *)
(* the names that have been there unchanged since the load began.          *)
Seen(found, startedAt) ==
  [found   |-> found,
   content |-> IF found = {} THEN Absent ELSE files[CHOOSE name \in found : TRUE],
   lasting |-> {name \in Names : changedAt[name] <= startedAt /\ files[name] # Absent}]

Idle == [at |-> "idle"]

(* NewManager has loaded a profile from one file, or from none.            *)
Init ==
  /\ \E g \in Given, d \in Documents, name \in Names, stored \in BOOLEAN :
       /\ given = g
       /\ files = [n \in Names |-> IF stored /\ n = name THEN Holds(d) ELSE Absent]
       /\ changedAt = [n \in Names |-> 0]
       /\ origin = Seen(IF stored THEN {name} ELSE {}, 0)
       /\ LET profile == Resolve(g, origin.content.values)
          IN  Accepted(profile) /\ slot = Active(profile, 1) /\ boot = profile.config
  /\ edits = 0 /\ loadedAt = 0 /\ reported = {}
  /\ creators = [c \in Creators |-> Idle]
  /\ reloads = [r \in Reloaders |-> Idle]

------------------------------------------------------------------------------
(* The directory.                                                          *)

Change(name, content) ==
  /\ edits < MaxEdits /\ edits' = edits + 1
  /\ files' = [files EXCEPT ![name] = content]
  /\ changedAt' = [changedAt EXCEPT ![name] = edits + 1]

Untouched == UNCHANGED <<files, edits, changedAt>>

(* Somebody writes a whole document, spoils one, or removes the file.      *)
Edit(name) ==
  /\ \E content \in {Absent, Broken} \cup {Holds(d) : d \in Documents} :
       files[name] # content /\ Change(name, content)
  /\ UNCHANGED <<given, creators, reloads, slot, origin, loadedAt, boot, reported>>

SetCreator(c, state) ==
  /\ creators' = [creators EXCEPT ![c] = state]
  /\ UNCHANGED <<given, reloads, slot, origin, loadedAt, boot, reported>>

(* FileStore.Create, Clone: no file of the profile is there.  The looks    *)
(* are one after the other too, as in LookNext; the exclusive open below   *)
(* settles what they may have missed, for the one name it concerns.        *)
CreateChecks(c, name, d) ==
  /\ creators[c] = Idle
  /\ IF \E n \in Names : files[n] # Absent
     THEN SetCreator(c, [at |-> "exists"])
     ELSE SetCreator(c, [at |-> "checked", name |-> name, document |-> d])
  /\ Untouched

(* O_EXCL: the file is there from now on, empty.                           *)
CreateOpens(c) ==
  /\ creators[c].at = "checked"
  /\ IF files[creators[c].name] # Absent
     THEN SetCreator(c, [at |-> "exists"]) /\ Untouched
     ELSE /\ SetCreator(c, [creators[c] EXCEPT !.at = "opened"])
          /\ Change(creators[c].name, Broken)

(* A write reaches the file that was opened, unless that was removed or    *)
(* replaced meanwhile.                                                     *)
Write(name, content) ==
  \/ files[name] # Absent /\ Change(name, content)
  \/ files[name] # Broken /\ Untouched

(* What half a document may say: some of its fields, the last cut short.   *)
Halves(d) ==
  {h \in Settings :
     \E cut \in Fields : \A f \in Fields :
       \/ h[f] \in {Unset, d[f]}
       \/ f = cut /\ d[f] # Unset}

(* The write ends, or stops half way: half a JSON document does not        *)
(* decode, while half a YAML document may be a document.                   *)
CreateWrites(c) ==
  /\ creators[c].at = "opened"
  /\ LET name == creators[c].name
         d    == creators[c].document
     IN  \/ Write(name, Holds(d)) /\ SetCreator(c, [at |-> "created"])
         \/ Untouched /\ SetCreator(c, [at |-> "failed"])
         \/ /\ name # "json" /\ SetCreator(c, [at |-> "failed"])
            /\ \E half \in Halves(d) : Write(name, Holds(half))

------------------------------------------------------------------------------
(* Manager.Reload.                                                         *)

SetReload(r, state) ==
  /\ reloads' = [reloads EXCEPT ![r] = state]
  /\ UNCHANGED <<files, edits, changedAt, given, creators, boot>>

InLoad(r) == reloads[r].at \in {"looking", "read"}

(* Mutant: the mutex is taken only for the replacement.                    *)
MutexFreeAlways(r) == TRUE

MutexFree(r) == \A other \in Reloaders : ~InLoad(other)

Lock(r) ==
  /\ reloads[r] = Idle /\ MutexFree(r)
  /\ SetReload(r, [at |-> "looking", tried |-> 0, found |-> {}, startedAt |-> edits])
  /\ UNCHANGED <<slot, origin, loadedAt, reported>>

(* Mutant: the looks end at the first file that is there.                  *)
LookForFirst(r) ==
  /\ reloads[r].at = "looking" /\ reloads[r].tried < Len(Extensions)
  /\ LET i == reloads[r].tried + 1
         name == Extensions[i]
     IN  SetReload(r, IF files[name] = Absent
                      THEN [reloads[r] EXCEPT !.tried = i]
                      ELSE [reloads[r] EXCEPT !.tried = Len(Extensions), !.found = {name}])
  /\ UNCHANGED <<slot, origin, loadedAt, reported>>

(* matches: one Stat.                                                      *)
LookNext(r) ==
  /\ reloads[r].at = "looking" /\ reloads[r].tried < Len(Extensions)
  /\ LET i == reloads[r].tried + 1
         name == Extensions[i]
     IN  SetReload(r, [reloads[r] EXCEPT !.tried = i,
            !.found = IF files[name] = Absent THEN @ ELSE @ \cup {name}])
  /\ UNCHANGED <<slot, origin, loadedAt, reported>>

Fail(r) == SetReload(r, [at |-> "failed"]) /\ UNCHANGED <<slot, origin, loadedAt, reported>>

(* ReadFile of the only match, decoding and the rest of Load.  A file that *)
(* is gone by now, a broken one and two matches are errors.                *)
ReadProfile(r) ==
  /\ reloads[r].at = "looking" /\ reloads[r].tried = Len(Extensions)
  /\ LET found   == reloads[r].found
         seen    == Seen(found, reloads[r].startedAt)
         profile == Resolve(given, seen.content.values)
     IN  IF \/ \E name, other \in found : name # other
            \/ found # {} /\ seen.content.kind # "document"
            \/ ~Accepted(profile)
         THEN Fail(r)
         ELSE /\ SetReload(r, [at |-> "read", profile |-> profile, seen |-> seen,
                               readAt |-> edits])
              /\ UNCHANGED <<slot, origin, loadedAt, reported>>

(* Mutant: changedFields looks only at fields that were set before.        *)
ChangedFieldsOfSet(before, after) == {f \in Fields : before[f] # Unset /\ before[f] # after[f]}

ChangedFields(before, after) == {f \in Fields : before[f] # after[f]}

(* Slot.Replace, and the end of the Reload.  An equal configuration is no  *)
(* replacement, even when other sources supply it.                         *)
Replace(r) ==
  /\ reloads[r].at = "read"
  /\ LET candidate == reloads[r].profile
         changed   == ChangedFields(slot.config, candidate.config)
     IN  /\ IF candidate.config = slot.config
            THEN UNCHANGED <<slot, origin, reported>>
            ELSE /\ slot' = Active(candidate, slot.revision + 1)
                 /\ origin' = reloads[r].seen
                 /\ reported' = reported \cup (changed \cap Restart)
         /\ loadedAt' = reloads[r].readAt
  /\ SetReload(r, Idle)

(* A reload that failed may be asked for again.                            *)
Again(r) ==
  /\ reloads[r].at = "failed"
  /\ SetReload(r, Idle) /\ UNCHANGED <<slot, origin, loadedAt, reported>>

ReloadStep(r) == Lock(r) \/ LookNext(r) \/ ReadProfile(r) \/ Replace(r) \/ Again(r)

Next ==
  \/ \E name \in Names : Edit(name)
  \/ \E c \in Creators, name \in Names, d \in Documents : CreateChecks(c, name, d)
  \/ \E c \in Creators : CreateOpens(c) \/ CreateWrites(c)
  \/ \E r \in Reloaders : ReloadStep(r)

Spec == Init /\ [][Next]_vars

------------------------------------------------------------------------------
(* Reloads that overlap do not undo each other: the active profile is      *)
(* never replaced by what was read from the directory before it, although  *)
(* a load takes many steps and only the last one touches the slot.         *)
NeverStale == [][loadedAt <= loadedAt']_vars

(* The active profile was read from one file, or from none, and a broken   *)
(* file never gets there.  However the directory changes during a load, it *)
(* misses no name that was there all the time: a profile that another file *)
(* makes ambiguous is refused.                                             *)
OneFileRead ==
  /\ \A name, other \in origin.found : name = other
  /\ origin.found # {} => origin.content.kind = "document"
  /\ origin.lasting \subseteq origin.found

(* Every field of the active profile has the value of the highest source   *)
(* that has it, and says which: an argument, the environment, the document *)
(* of the one file that was read, the default.  The whole was accepted.    *)
(* (Half a YAML document that decodes is a document to Load, and is loaded *)
(* where it is accepted.)                                                  *)
PrecedenceHolds ==
  LET document == origin.content.values IN
  /\ Accepted(slot) /\ OneFileRead
  /\ \A f \in Fields :
       [value |-> slot.config[f], source |-> slot.sources[f]] =
         CASE given.arguments[f] # Unset ->
                [value |-> given.arguments[f], source |-> "CLI"]
           [] given.arguments[f] = Unset /\ given.environment[f] # Unset ->
                [value |-> given.environment[f], source |-> "environment"]
           [] given.arguments[f] = Unset /\ given.environment[f] = Unset
              /\ document[f] # Unset ->
                [value |-> document[f], source |-> "profile"]
           [] OTHER ->
                [value  |-> Defaults[f],
                 source |-> IF Defaults[f] = Unset THEN "unset" ELSE "default"]

(* A field that only a restart can bring into effect and that differs from *)
(* what the process started with has been reported as such, over any       *)
(* number of reloads.                                                      *)
ChangesReported ==
  \A f \in Restart : slot.config[f] # boot[f] => f \in reported
==============================================================================
