---------------------------- MODULE HookSettings ----------------------------
(* Install and Uninstall of Lockie's hooks in the settings file of a host:  *)
(* src/internal/agent/claudecode (settings.json of Claude Code) and         *)
(* src/internal/agent/cursor (hooks.json of Cursor), as the commands        *)
(* lockie install and lockie uninstall run them.                            *)
(*                                                                          *)
(* A command reads the file, merges, writes a temporary file and renames    *)
(* it, with no lock.  Several commands may run at once, and the user or the *)
(* host saves the same file at any time.                                    *)
EXTENDS Naturals, Sequences, FiniteSets, SequencesExt, GoMaps, GoSlices

CONSTANTS Procs,        \* lockie install / uninstall processes
          Absent,       \* no such file, no such key
          Blank,        \* a file of white space
          Broken,       \* a file that is no JSON
          Other,        \* a JSON value of another type than expected
          UserEntries,  \* hook entries the user writes
          EditKeys,     \* hook keys the user writes them under
          TopKeys,      \* top-level keys the user writes
          Enabled,      \* InstallOptions.EnabledHooks of the commands
          MaxEdits,     \* bound: saves of the user or the host
          MaxOps,       \* bound: commands
          MaxFailures,  \* bound: failing system calls
          MaxCrashes    \* bound: commands killed

ASSUME BoundsAssumption ==
  {MaxEdits, MaxOps, MaxFailures, MaxCrashes} \subseteq Nat

VARIABLES
  host,      \* whose file it is: "claude-code" or "cursor"
  file,      \* the settings file
  temps,     \* the temporary file of each process, Absent if none
  pc,        \* where each process is
  plan,      \* the document it is about to write
  mine,      \* ghost: the user's part of the file, as last saved
  seen,      \* ghost: edits when the process read the file
  raced,     \* ghost: a process wrote over a save it had not read
  edits, ops, failures, crashes   \* counters for the bounds

process == <<temps, pc, plan, seen>>
user    == <<mine, edits>>
vars    == <<host, file, process, user, raced, ops, failures, crashes>>

-----------------------------------------------------------------------------
(* Documents.  An entry of a hook key is the user's or Lockie's; a JSON     *)
(* object that holds hook keys is a partial function; top-level keys other  *)
(* than "hooks" are opaque and only their presence matters.                 *)

Hook(hook, keys) == [canonical |-> hook, nativeKeys |-> keys]

hookSpecs(h) ==
  IF h = "claude-code"
  THEN <<Hook("SessionStart", <<"SessionStart">>),
         Hook("PromptSubmit", <<"UserPromptSubmit">>),
         Hook("PreToolUse",   <<"PreToolUse">>),
         Hook("PostToolUse",  <<"PostToolUse">>),
         Hook("SessionStop",  <<"Stop">>)>>
  ELSE <<Hook("SessionStart", <<"sessionStart">>),
         Hook("PromptSubmit", <<"beforeSubmitPrompt">>),
         Hook("PreToolUse",   <<"preToolUse">>),
         Hook("PostToolUse",  <<"postToolUse", "postToolUseFailure">>),
         Hook("SessionStop",  <<"sessionEnd">>)>>

Specs(h) == ToSet(hookSpecs(h))

AllHooks == {"SessionStart", "PromptSubmit", "PreToolUse", "PostToolUse",
             "SessionStop"}

nativeKeysOwned(h) == UNION {ToSet(s.nativeKeys) : s \in Specs(h)}

canonicalFor(h, key) ==
  (CHOOSE s \in Specs(h) : key \in ToSet(s.nativeKeys)).canonical

UserEntry(e) == [managed |-> FALSE, what |-> e]
lockieEntry(hook) == [managed |-> TRUE, what |-> hook]
OldEntry == lockieEntry("an earlier version's")

isLockieManaged(e) == e.managed

Entries == [managed : BOOLEAN, what : UserEntries \cup AllHooks
                                        \cup {"was there", OldEntry.what}]

UsersOwn == {e \in Entries : ~isLockieManaged(e)}

stripLockieEntries(s) == Filter(s, UsersOwn)

(* asSlice(hooks[key]): nothing there and a value of another type are both  *)
(* "no entries"                                                             *)
EntriesAt(hooks, key) ==
  IF key \in DOMAIN hooks /\ hooks[key] # Other THEN hooks[key] ELSE << >>

EmptyDoc == [top |-> {}, hooks |-> Absent]

IsObject(v) == v # Absent /\ v # Other

(* What the commands read and write.  An absent, blank or broken file is no *)
(* document, and neither an absent key nor another type of value is taken   *)
(* for an object or an array.                                               *)
HookKeys == EditKeys \cup nativeKeysOwned("claude-code") \cup nativeKeysOwned("cursor")

TopLevel == TopKeys \cup {"version"}

Values == Seq(Entries) \cup {Other}

IsDoc(doc) ==
  /\ doc = [top |-> doc.top, hooks |-> doc.hooks]
  /\ doc.top \subseteq TopLevel
  /\ doc.hooks \in {Absent, Other} \/ IsMap(doc.hooks, HookKeys, Values)

ASSUME ValuesAssumption ==
  /\ Absent # Other /\ Absent # Blank /\ Absent # Broken /\ Blank # Broken
  /\ Other \notin Seq(Entries)
  /\ \A keys \in SUBSET HookKeys, v \in {Absent, Other} : v \notin [keys -> Values]
  /\ \A keys \in SUBSET HookKeys, v \in {Absent, Blank, Broken} :
       v \notin [top : SUBSET TopLevel, hooks : {Absent, Other} \cup [keys -> Values]]

HooksOf(doc) == IF IsObject(doc.hooks) THEN doc.hooks ELSE EmptyMap

(* mutant: a hook is wired under its first native key only *)
buildLockiePlanFirstKey(h, enabled) ==
  LET enabledSpecs == {s \in Specs(h) : s.canonical \in enabled}
  IN  [key \in {s.nativeKeys[1] : s \in enabledSpecs} |->
         <<lockieEntry(canonicalFor(h, key))>>]

buildLockiePlan(h, enabled) ==
  LET enabledSpecs == {s \in Specs(h) : s.canonical \in enabled}
  IN  [key \in UNION {ToSet(s.nativeKeys) : s \in enabledSpecs} |->
         <<lockieEntry(canonicalFor(h, key))>>]

(* Cursor's adapter puts a version in the file, unless one is there *)
versioned(h, top) == IF h = "cursor" THEN top \cup {"version"} ELSE top

(* mutant: an earlier version's entry stays *)
mergeInstallAppends(h, doc, enabled) ==
  LET hooks == HooksOf(doc)
      added == buildLockiePlan(h, enabled)
  IN  [top   |-> versioned(h, doc.top),
       hooks |-> [key \in DOMAIN hooks \cup DOMAIN added |->
                    IF key \in DOMAIN added
                    THEN EntriesAt(hooks, key) \o added[key]
                    ELSE hooks[key]]]

(* mutant: a key that gets an entry is Lockie's alone *)
mergeInstallOwnsKeys(h, doc, enabled) ==
  LET hooks == HooksOf(doc)
      added == buildLockiePlan(h, enabled)
  IN  [top   |-> versioned(h, doc.top),
       hooks |-> [key \in DOMAIN hooks \cup DOMAIN added |->
                    IF key \in DOMAIN added THEN added[key] ELSE hooks[key]]]

mergeInstall(h, doc, enabled) ==
  LET hooks == HooksOf(doc)
      added == buildLockiePlan(h, enabled)
  IN  [top   |-> versioned(h, doc.top),
       hooks |-> [key \in DOMAIN hooks \cup DOMAIN added |->
                    IF key \in DOMAIN added
                    THEN stripLockieEntries(EntriesAt(hooks, key))
                           \o added[key]
                    ELSE hooks[key]]]

(* mutant: a key is dropped when it held an entry of Lockie's *)
mergeUninstallDropsKeys(h, doc) ==
  IF ~IsObject(doc.hooks) THEN doc
  ELSE LET left == DOMAIN doc.hooks \ nativeKeysOwned(h)
       IN  [doc EXCEPT !.hooks =
              IF left = {} THEN Absent ELSE [key \in left |-> doc.hooks[key]]]

(* A key left without entries goes, and so does "hooks" without a key *)
mergeUninstall(h, doc) ==
  IF ~IsObject(doc.hooks) THEN doc
  ELSE LET Kept(key) == stripLockieEntries(EntriesAt(doc.hooks, key))
           owned == nativeKeysOwned(h)
           left  == {key \in DOMAIN doc.hooks : key \in owned => Kept(key) # << >>}
       IN  [doc EXCEPT !.hooks =
              IF left = {} THEN Absent
              ELSE [key \in left |->
                      IF key \in owned THEN Kept(key) ELSE doc.hooks[key]]]

(* Cursor's adapter looks at the first native key of each hook only *)
installedHooks(h, doc) ==
  {hook \in AllHooks : \E s \in Specs(h) :
     /\ s.canonical = hook
     /\ \E i \in DOMAIN EntriesAt(HooksOf(doc), s.nativeKeys[1]) :
          isLockieManaged(EntriesAt(HooksOf(doc), s.nativeKeys[1])[i])}

loads(f) == f # Broken

(* The document loadSettings returns; with an error it is empty too         *)
loadSettings(f) == IF f \in {Absent, Blank, Broken} THEN EmptyDoc ELSE f

-----------------------------------------------------------------------------
(* What of a document is the user's: their entries under every key, in      *)
(* order, and the top-level keys.  Cursor's adapter adds "version" itself.  *)

UserPart(h, f) ==
  LET doc   == loadSettings(f)
      hooks == HooksOf(doc)
      Users(key) == stripLockieEntries(EntriesAt(hooks, key))
  IN  [top     |-> IF h = "cursor" THEN doc.top \ {"version"} ELSE doc.top,
       entries |-> [key \in {k \in DOMAIN hooks : Users(k) # << >>} |-> Users(key)]]

(* What the file may hold before the first command: nothing, the user's     *)
(* settings, an earlier install; and values of types Lockie does not expect *)
Under(keys, v) == [key \in keys |-> v]

InitialHooks(h) ==
  LET own   == UserEntry("was there")
      wired == {ToSet(s.nativeKeys) : s \in Specs(h)}
  IN  {Absent, Other}
        \cup (UNION {{Under({key}, v) : v \in {Other, << >>, <<own>>}} : key \in EditKeys})
        \cup (UNION {{Under(keys, v) : v \in {<<OldEntry>>, <<own, OldEntry>>}} :
                       keys \in {ks \in wired : ks \cap EditKeys # {}}})

InitialFiles(h) ==
  {Absent, Blank, Broken}
    \cup [top : {{}, TopKeys \cup {"version"}}, hooks : InitialHooks(h)]

Init ==
  /\ host \in {"claude-code", "cursor"}
  /\ file \in InitialFiles(host)
  /\ temps = [p \in Procs |-> Absent]
  /\ pc = [p \in Procs |-> "idle"]
  /\ plan = [p \in Procs |-> EmptyDoc]
  /\ mine = UserPart(host, file)
  /\ seen = [p \in Procs |-> 0]
  /\ raced = FALSE
  /\ edits = 0 /\ ops = 0 /\ failures = 0 /\ crashes = 0

-----------------------------------------------------------------------------
(* Commands *)

Goto(p, label) == pc' = [pc EXCEPT ![p] = label]

Fails == failures < MaxFailures /\ failures' = failures + 1

Starts(p) == pc[p] = "idle" /\ ops < MaxOps /\ ops' = ops + 1

Plan(p, doc) ==
  /\ plan' = [plan EXCEPT ![p] = doc]
  /\ seen' = [seen EXCEPT ![p] = edits]

(* Install: load, merge, render.  No enabled hooks means all of them.       *)
Install(p, enabled) ==
  /\ Starts(p)
  /\ loads(file)
  /\ Plan(p, mergeInstall(host, loadSettings(file),
                          IF enabled = {} THEN AllHooks ELSE enabled))
  /\ Goto(p, "write")
  /\ UNCHANGED <<host, file, temps, user, raced, failures, crashes>>

(* A document left empty is removed instead of written                      *)
Uninstall(p) ==
  /\ Starts(p)
  /\ loads(file)
  /\ LET cleaned == mergeUninstall(host, loadSettings(file))
     IN  /\ Plan(p, cleaned)
         /\ Goto(p, IF cleaned = EmptyDoc THEN "remove" ELSE "write")
  /\ UNCHANGED <<host, file, temps, user, raced, failures, crashes>>

(* A file that does not parse ends either command; --dry-run ends install   *)
(* once it has printed the document.                                        *)
EndsEarly(p) ==
  /\ Starts(p)
  /\ UNCHANGED <<host, file, process, user, raced, failures, crashes>>

(* mutant: the file itself is truncated and written *)
CreateTempInPlace(p) ==
  /\ pc[p] = "write"
  /\ file' = Broken
  /\ temps' = [temps EXCEPT ![p] = Broken]
  /\ Goto(p, "fill")
  /\ UNCHANGED <<host, plan, seen, user, raced, ops, failures, crashes>>

(* writeSettingsAtomic: os.CreateTemp takes a name nobody has               *)
CreateTemp(p) ==
  /\ pc[p] = "write"
  /\ temps' = [temps EXCEPT ![p] = Broken]
  /\ Goto(p, "fill")
  /\ UNCHANGED <<host, file, plan, seen, user, raced, ops, failures, crashes>>

(* mutant: a write that fails goes unnoticed                                *)
FillNothing(p) ==
  /\ pc[p] = "fill"
  /\ Goto(p, "rename")
  /\ UNCHANGED <<host, file, temps, plan, seen, user, raced, ops, failures, crashes>>

(* Write, Chmod, Close                                                      *)
Fill(p) ==
  /\ pc[p] = "fill"
  /\ temps' = [temps EXCEPT ![p] = plan[p]]
  /\ Goto(p, "rename")
  /\ UNCHANGED <<host, file, plan, seen, user, raced, ops, failures, crashes>>

(* The process is over.  Its temporary file may stay, if it was killed or   *)
(* the cleanup failed, which it does not tell (settings.go:125); nobody     *)
(* reads that file and no later one gets its name.                          *)
Exit(p) ==
  /\ Goto(p, "idle")
  /\ plan' = [plan EXCEPT ![p] = EmptyDoc]
  /\ seen' = [seen EXCEPT ![p] = 0]
  /\ temps' = [temps EXCEPT ![p] = Absent]

Overwrites(p) == raced' = (raced \/ seen[p] # edits)

Rename(p) ==
  /\ pc[p] = "rename"
  /\ file' = temps[p]
  /\ Overwrites(p)
  /\ Exit(p)
  /\ UNCHANGED <<host, user, ops, failures, crashes>>

(* Any of the calls fails                                                   *)
WriteFails(p) ==
  /\ pc[p] \in {"write", "fill", "rename"}
  /\ Fails
  /\ Exit(p)
  /\ UNCHANGED <<host, file, user, raced, ops, crashes>>

(* os.Remove; a file that is gone already is as good                        *)
RemoveFile(p) ==
  /\ pc[p] = "remove"
  /\ file' = Absent
  /\ Overwrites(p)
  /\ Exit(p)
  /\ UNCHANGED <<host, user, ops, failures, crashes>>

RemoveFails(p) ==
  /\ pc[p] = "remove"
  /\ Fails
  /\ Exit(p)
  /\ UNCHANGED <<host, file, user, raced, ops, crashes>>

(* The process is killed; what it renamed stays                             *)
Crash(p) ==
  /\ pc[p] # "idle"
  /\ crashes < MaxCrashes
  /\ crashes' = crashes + 1
  /\ Exit(p)
  /\ UNCHANGED <<host, file, user, raced, ops, failures>>

-----------------------------------------------------------------------------
(* The user or the host saves the file: an entry more, in front or at the   *)
(* end, an entry less, or another set of top-level keys.                    *)

WithEntries(doc, key, s) ==
  [doc EXCEPT !.hooks = MapPut(HooksOf(doc), key, s)]

Saves(doc) ==
  {[doc EXCEPT !.top = (@ \cap {"version"}) \cup top] : top \in {{}, TopKeys}}
    \cup UNION {LET s == EntriesAt(HooksOf(doc), key)
                IN  {WithEntries(doc, key, <<UserEntry(e)>> \o s) : e \in UserEntries}
                      \cup {WithEntries(doc, key, s \o <<UserEntry(e)>>) : e \in UserEntries}
                      \cup {WithEntries(doc, key, RemoveAt(s, i)) :
                             i \in {j \in DOMAIN s : ~isLockieManaged(s[j])}}
                : key \in EditKeys}

Save(doc) ==
  /\ edits < MaxEdits
  /\ edits' = edits + 1
  /\ file' = doc
  /\ mine' = UserPart(host, doc)
  /\ UNCHANGED <<host, process, raced, ops, failures, crashes>>

Step(p) ==
  \/ \E enabled \in Enabled : Install(p, enabled)
  \/ Uninstall(p) \/ EndsEarly(p)
  \/ CreateTemp(p) \/ Fill(p) \/ Rename(p) \/ WriteFails(p)
  \/ RemoveFile(p) \/ RemoveFails(p)
  \/ Crash(p)

Next ==
  \/ \E p \in Procs : Step(p)
  \/ loads(file) /\ \E doc \in Saves(loadSettings(file)) : Save(doc)

Spec == Init /\ [][Next]_vars

-----------------------------------------------------------------------------
(* Properties *)

(* Every variable keeps its type, and what a command is about to rename is  *)
(* what it has planned.                                                     *)
TypeOK ==
  /\ host \in {"claude-code", "cursor"}
  /\ (file \in {Absent, Blank, Broken} \/ IsDoc(file))
  /\ \A p \in Procs : /\ (temps[p] \in {Absent, Broken} \/ IsDoc(temps[p]))
                       /\ IsDoc(plan[p])
                       /\ seen[p] \in 0 .. edits
                       /\ pc[p] \in {"idle", "write", "fill", "rename", "remove"}
                       /\ pc[p] = "rename" => temps[p] = plan[p]
  /\ raced \in BOOLEAN

(* "concurrent readers never observe a half-written file" (settings.go:113):*)
(* whatever fails or dies half way, a command changes the settings file in  *)
(* one step or not at all, and then to the whole document it planned; the   *)
(* document without anything in it is no file.                              *)
FileWhole ==
  [][file' # file /\ edits' = edits =>
       /\ loads(file')
       /\ \E p \in Procs : /\ pc[p] \in {"rename", "remove"}
                           /\ plan[p] = loadSettings(file')]_vars

(* "User-authored hook entries are preserved; only entries marked           *)
(* _lockie_managed are touched" (claudecode.go:117): however installs and   *)
(* uninstalls interleave, fail and die, the file holds the user's entries   *)
(* in their order and the user's keys, as long as no command has written    *)
(* over a save it had not read.                                             *)
UserKept == (loads(file) /\ ~raced) => UserPart(host, file) = mine

ManagedAt(doc, key) ==
  LET s == EntriesAt(HooksOf(doc), key)
  IN  {i \in DOMAIN s : isLockieManaged(s[i])}

(* No interleaving leaves a hook wired twice or half: every native key of a *)
(* hook has one managed entry or none of them has.  This is what Status     *)
(* relies on when it looks at the first key only (cursor/settings.go:82).   *)
WiredAsOne ==
  loads(file) =>
    \A s \in Specs(host) : \A key \in ToSet(s.nativeKeys) :
      Cardinality(ManagedAt(loadSettings(file), key)) =
        IF s.canonical \in installedHooks(host, loadSettings(file)) THEN 1 ELSE 0

(* "Install is idempotent: running it twice yields the same on-disk file"   *)
(* (claudecode.go:116), whatever is in the file.                            *)
InstallTwice ==
  loads(file) =>
    \A enabled \in {AllHooks} \cup Enabled :
      LET once == mergeInstall(host, loadSettings(file), enabled)
      IN  mergeInstall(host, once, enabled) = once

(* hooks the user left in a shape an uninstall has no reason to touch       *)
Untouched(doc) ==
  \/ doc.hooks = Absent
  \/ /\ IsObject(doc.hooks)
     /\ DOMAIN doc.hooks # {}
     /\ \A key \in DOMAIN doc.hooks \cap nativeKeysOwned(host) :
          EntriesAt(doc.hooks, key) # << >> /\ ManagedAt(doc, key) = {}

(* An install followed by an uninstall gives back the user's file, to which *)
(* Cursor's adapter has added "version" for good; and after an uninstall    *)
(* nothing of Lockie's is left, whatever was in the file                    *)
(* (claudecode.go:152).                                                     *)
UninstallUndoes ==
  loads(file) =>
    LET doc == loadSettings(file)
        both == mergeUninstall(host, mergeInstall(host, doc, AllHooks))
    IN  /\ installedHooks(host, both) = {}
        /\ UserPart(host, both) = UserPart(host, doc)
        /\ Untouched(doc) =>
             both = [doc EXCEPT !.top = versioned(host, @)]
=============================================================================
