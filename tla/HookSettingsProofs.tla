------------------------- MODULE HookSettingsProofs -------------------------
(* Theorems about HookSettings for any hooks, entries, keys and documents,  *)
(* and any number of commands, saves, failures and crashes.                 *)
EXTENDS HookSettings, GoSlicesProofs, FiniteSetTheorems

-----------------------------------------------------------------------------
(* The table of the hooks *)

AllHosts == {"claude-code", "cursor"}

(* Every native key belongs to one hook, and every hook has a first key.    *)
LEMMA SpecsApart ==
  ASSUME NEW h \in AllHosts
  PROVE  /\ \A s \in Specs(h) :
              /\ s.canonical \in AllHooks
              /\ s.nativeKeys[1] \in ToSet(s.nativeKeys)
         /\ \A s, t \in Specs(h) : s.canonical = t.canonical => s = t
         /\ \A s, t \in Specs(h) : \A key \in ToSet(s.nativeKeys) :
              key \in ToSet(t.nativeKeys) => s = t
<1> DEFINE One(hook, key) == [canonical |-> hook, nativeKeys |-> <<key>>]
           Claude == {One("SessionStart", "SessionStart"),
                      One("PromptSubmit", "UserPromptSubmit"),
                      One("PreToolUse", "PreToolUse"),
                      One("PostToolUse", "PostToolUse"),
                      One("SessionStop", "Stop")}
           Two == [canonical |-> "PostToolUse",
                   nativeKeys |-> <<"postToolUse", "postToolUseFailure">>]
           Cursor == {One("SessionStart", "sessionStart"),
                      One("PromptSubmit", "beforeSubmitPrompt"),
                      One("PreToolUse", "preToolUse"),
                      Two,
                      One("SessionStop", "sessionEnd")}
<1>1. \A hook, key : ToSet(One(hook, key).nativeKeys) = {key}
  BY DEF ToSet
<1>2. ToSet(Two.nativeKeys) = {"postToolUse", "postToolUseFailure"}
  BY DEF ToSet
<1>3. CASE h = "claude-code"
  <2>1. Specs(h) = Claude
    BY <1>3 DEF Specs, hookSpecs, Hook, ToSet
  <2>2. QED BY <2>1, <1>1 DEF AllHooks
<1>4. CASE h = "cursor"
  <2>1. Specs(h) = Cursor
    BY <1>4 DEF Specs, hookSpecs, Hook, ToSet
  <2>2. QED BY <2>1, <1>1, <1>2 DEF AllHooks
<1>5. QED BY <1>3, <1>4 DEF AllHosts

(* Every key of a hook is one of those Lockie owns, and those are all.      *)
LEMMA OwnedKeys ==
  ASSUME NEW h \in AllHosts
  PROVE  /\ nativeKeysOwned(h) \subseteq HookKeys
         /\ \A s \in Specs(h) : ToSet(s.nativeKeys) \subseteq nativeKeysOwned(h)
         /\ \A key \in nativeKeysOwned(h) : \E s \in Specs(h) : key \in ToSet(s.nativeKeys)
BY DEF HookKeys, nativeKeysOwned, AllHosts

(* A plan has one managed entry for every key of an enabled hook.           *)
LEMMA PlanFacts ==
  ASSUME NEW h \in AllHosts, NEW enabled
  PROVE  LET added == buildLockiePlan(h, enabled)
         IN  /\ DOMAIN added \subseteq nativeKeysOwned(h)
             /\ \A s \in Specs(h) : \A key \in ToSet(s.nativeKeys) :
                  key \in DOMAIN added <=> s.canonical \in enabled
             /\ \A key \in DOMAIN added :
                  \E e \in Entries : e.managed /\ added[key] = <<e>>
<1> DEFINE added == buildLockiePlan(h, enabled)
           keys  == UNION {ToSet(s.nativeKeys) : s \in {t \in Specs(h) : t.canonical \in enabled}}
<1>1. added = [key \in keys |-> <<lockieEntry(canonicalFor(h, key))>>]
  BY DEF buildLockiePlan
<1>2. DOMAIN added = keys
  BY <1>1
<1>3. keys \subseteq nativeKeysOwned(h)
  BY DEF nativeKeysOwned
<1>4. ASSUME NEW s \in Specs(h), NEW key \in ToSet(s.nativeKeys)
      PROVE  key \in keys <=> s.canonical \in enabled
  BY SpecsApart
<1>5. ASSUME NEW key \in keys
      PROVE  \E e \in Entries : e.managed /\ added[key] = <<e>>
  <2>1. canonicalFor(h, key) \in AllHooks
    <3>1. \E s \in Specs(h) : key \in ToSet(s.nativeKeys)
      OBVIOUS
    <3>2. QED BY <3>1, SpecsApart DEF canonicalFor
  <2>2. lockieEntry(canonicalFor(h, key)) \in Entries
    BY <2>1 DEF lockieEntry, Entries
  <2>3. QED BY <2>2, <1>1 DEF lockieEntry
<1>6. QED BY <1>2, <1>3, <1>4, <1>5

-----------------------------------------------------------------------------
(* Entries of a key *)

(* Stripping leaves the user's entries in their order: nothing of Lockie's, *)
(* all of what was not Lockie's, and the same when done again.              *)
LEMMA Stripped ==
  ASSUME NEW s \in Seq(Entries)
  PROVE  /\ stripLockieEntries(s) \in Seq(Entries)
         /\ \A i \in DOMAIN stripLockieEntries(s) : ~isLockieManaged(stripLockieEntries(s)[i])
         /\ stripLockieEntries(stripLockieEntries(s)) = stripLockieEntries(s)
<1>1. stripLockieEntries(s) \in Seq(Entries \cap UsersOwn)
  BY FilterType DEF stripLockieEntries
<1>2. Seq(Entries \cap UsersOwn) \subseteq Seq(Entries)
  OBVIOUS
<1>3. \A t \in Seq(Entries \cap UsersOwn) : stripLockieEntries(t) = t
  BY FilterAll DEF stripLockieEntries
<1>4. \A t \in Seq(Entries \cap UsersOwn) : \A i \in DOMAIN t : ~isLockieManaged(t[i])
  BY DEF UsersOwn
<1>5. QED BY <1>1, <1>2, <1>3, <1>4

(* Nothing stripped is nothing.                                             *)
LEMMA StripsEmpty == stripLockieEntries(<< >>) = << >>
BY FilterEmpty DEF stripLockieEntries

(* Entries that are all the user's stay as they are.                        *)
LEMMA StripsNothing ==
  ASSUME NEW s \in Seq(Entries), \A i \in DOMAIN s : ~isLockieManaged(s[i])
  PROVE  stripLockieEntries(s) = s
<1>1. s \in Seq(UsersOwn)
  BY DEF UsersOwn
<1>2. QED BY <1>1, FilterAll DEF stripLockieEntries

(* An entry of Lockie's behind others is stripped again.                    *)
LEMMA StripsPlan ==
  ASSUME NEW s \in Seq(Entries), NEW e \in Entries, e.managed
  PROVE  stripLockieEntries(s \o <<e>>) = stripLockieEntries(s)
<1>1. s \o <<e>> = Append(s, e)
  OBVIOUS
<1>2. e \notin UsersOwn
  BY DEF UsersOwn, isLockieManaged
<1>3. QED BY <1>1, <1>2, FilterAppend DEF stripLockieEntries

-----------------------------------------------------------------------------
(* Documents *)

(* the entries a document has under a key *)
At(doc, key) == EntriesAt(HooksOf(doc), key)

(* A document is no marker: loading gives it back.                          *)
LEMMA DocLoads ==
  ASSUME NEW doc, IsDoc(doc)
  PROVE  doc \notin {Absent, Blank, Broken} /\ loadSettings(doc) = doc /\ loads(doc)
<1>1. PICK keys \in SUBSET HookKeys :
        doc.hooks \in {Absent, Other} \cup [keys -> Values]
  <2>1. CASE doc.hooks \in {Absent, Other}
    BY <2>1
  <2>2. CASE IsMap(doc.hooks, HookKeys, Values)
    <3>1. doc.hooks \in [DOMAIN doc.hooks -> Values]
      BY <2>2 DEF IsMap
    <3>2. QED BY <3>1, <2>2 DEF IsMap
  <2>3. QED BY <2>1, <2>2 DEF IsDoc
<1>2. doc \in [top : SUBSET TopLevel, hooks : {Absent, Other} \cup [keys -> Values]]
  BY <1>1 DEF IsDoc
<1>3. doc \notin {Absent, Blank, Broken}
  BY <1>2, ValuesAssumption
<1>4. QED BY <1>3 DEF loadSettings, loads

(* An object is neither absent nor another value.                           *)
LEMMA ObjectIsObject ==
  ASSUME NEW hooks, IsMap(hooks, HookKeys, Values)
  PROVE  IsObject(hooks)
<1>1. hooks \in [DOMAIN hooks -> Values] /\ DOMAIN hooks \in SUBSET HookKeys
  BY DEF IsMap
<1>2. QED BY <1>1, ValuesAssumption DEF IsObject

(* The empty document is one, with no entries.                              *)
LEMMA EmptyIsDoc == IsDoc(EmptyDoc) /\ \A key : At(EmptyDoc, key) = << >>
<1>1. ~IsObject(Absent)
  BY DEF IsObject
<1>2. HooksOf(EmptyDoc) = EmptyMap
  BY <1>1 DEF HooksOf, EmptyDoc
<1>3. QED BY <1>2 DEF IsDoc, EmptyDoc, At, EntriesAt, EmptyMap

(* The hooks of a document are a map, an empty one if they are no object.   *)
LEMMA HooksFacts ==
  ASSUME NEW doc, IsDoc(doc)
  PROVE  /\ IsMap(HooksOf(doc), HookKeys, Values)
         /\ \A key : At(doc, key) \in Seq(Entries)
         /\ \A key : key \notin DOMAIN HooksOf(doc) => At(doc, key) = << >>
<1>1. IsMap(HooksOf(doc), HookKeys, Values)
  <2>1. CASE doc.hooks \in {Absent, Other}
    <3>1. HooksOf(doc) = EmptyMap
      BY <2>1 DEF HooksOf, IsObject
    <3>2. QED BY <3>1 DEF EmptyMap, IsMap
  <2>2. CASE IsMap(doc.hooks, HookKeys, Values)
    <3>1. HooksOf(doc) = doc.hooks
      BY <2>2, ObjectIsObject DEF HooksOf
    <3>2. QED BY <3>1, <2>2
  <2>3. QED BY <2>1, <2>2 DEF IsDoc
<1>2. ASSUME NEW key PROVE At(doc, key) \in Seq(Entries)
  <2>1. CASE key \in DOMAIN HooksOf(doc) /\ HooksOf(doc)[key] # Other
    <3>1. HooksOf(doc)[key] \in Values
      BY <2>1, <1>1 DEF IsMap
    <3>2. QED BY <3>1, <2>1 DEF At, EntriesAt, Values
  <2>2. CASE ~(key \in DOMAIN HooksOf(doc) /\ HooksOf(doc)[key] # Other)
    <3>1. At(doc, key) = << >>
      BY <2>2 DEF At, EntriesAt
    <3>2. QED BY <3>1
  <2>3. QED BY <2>1, <2>2
<1>3. QED BY <1>1, <1>2 DEF At, EntriesAt

(* An install gives the planned keys the user's entries and one of its own, *)
(* and leaves the others.                                                   *)
LEMMA Installed ==
  ASSUME NEW h \in AllHosts, NEW enabled, NEW doc, IsDoc(doc)
  PROVE  LET new   == mergeInstall(h, doc, enabled)
             added == buildLockiePlan(h, enabled)
         IN  /\ IsDoc(new)
             /\ new.top = versioned(h, doc.top)
             /\ HooksOf(new) = new.hooks
             /\ DOMAIN new.hooks = DOMAIN HooksOf(doc) \cup DOMAIN added
             /\ \A key \in DOMAIN new.hooks :
                  new.hooks[key] = IF key \in DOMAIN added
                                   THEN stripLockieEntries(At(doc, key)) \o added[key]
                                   ELSE HooksOf(doc)[key]
             /\ \A key : At(new, key) =
                  IF key \in DOMAIN added
                  THEN stripLockieEntries(At(doc, key)) \o added[key] ELSE At(doc, key)
<1> DEFINE added == buildLockiePlan(h, enabled)
           hooks == HooksOf(doc)
           new   == mergeInstall(h, doc, enabled)
           keys  == DOMAIN hooks \cup DOMAIN added
           merged == [key \in keys |->
                        IF key \in DOMAIN added
                        THEN stripLockieEntries(EntriesAt(hooks, key)) \o added[key]
                        ELSE hooks[key]]
<1>1. new = [top |-> versioned(h, doc.top), hooks |-> merged]
  BY DEF mergeInstall
<1>2. DOMAIN added \subseteq HookKeys
  BY PlanFacts, OwnedKeys
<1>3. ASSUME NEW key \in DOMAIN added
      PROVE  stripLockieEntries(EntriesAt(hooks, key)) \o added[key] \in Seq(Entries)
  <2>1. EntriesAt(hooks, key) \in Seq(Entries)
    BY HooksFacts DEF At
  <2>2. stripLockieEntries(EntriesAt(hooks, key)) \in Seq(Entries)
    BY <2>1, Stripped
  <2>3. added[key] \in Seq(Entries)
    <3>1. PICK e \in Entries : added[key] = <<e>>
      BY PlanFacts
    <3>2. QED BY <3>1
  <2>4. QED BY <2>2, <2>3
<1>4. IsMap(hooks, HookKeys, Values)
  BY HooksFacts
<1> HIDE DEF added, hooks
<1>5. \A key \in keys : merged[key] \in Values
  BY <1>3, <1>4 DEF Values, IsMap
<1>6. IsMap(merged, HookKeys, Values)
  <2>1. keys \subseteq HookKeys
    BY <1>2, <1>4 DEF IsMap
  <2>2. DOMAIN merged = keys /\ merged = [key \in DOMAIN merged |-> merged[key]]
    OBVIOUS
  <2> HIDE DEF merged
  <2>3. QED BY <2>1, <2>2, <1>5 DEF IsMap
<1>7. IsDoc(new)
  <2>1. versioned(h, doc.top) \subseteq TopLevel
    BY DEF versioned, TopLevel, IsDoc
  <2> HIDE DEF merged
  <2>2. QED BY <1>1, <1>6, <2>1 DEF IsDoc
<1>8. HooksOf(new) = merged /\ new.hooks = merged
  <2> HIDE DEF merged
  <2>1. QED BY <1>1, <1>6, ObjectIsObject DEF HooksOf
<1>9. ASSUME NEW key
      PROVE  At(new, key) = IF key \in DOMAIN added
                            THEN stripLockieEntries(At(doc, key)) \o added[key]
                            ELSE At(doc, key)
  <2>1. At(new, key) = EntriesAt(merged, key) /\ At(doc, key) = EntriesAt(hooks, key)
    BY <1>8 DEF At, hooks
  <2>2. CASE key \in DOMAIN added
    <3>1. merged[key] = stripLockieEntries(At(doc, key)) \o added[key] /\ key \in DOMAIN merged
      BY <2>2, <2>1
    <3>2. merged[key] # Other
      BY <3>1, <1>3, <2>1, <2>2, ValuesAssumption
    <3> HIDE DEF merged
    <3>3. QED BY <2>1, <2>2, <3>1, <3>2 DEF EntriesAt
  <2>3. CASE key \notin DOMAIN added
    BY <2>1, <2>3 DEF EntriesAt
  <2>4. QED BY <2>2, <2>3
<1>10. new.top = versioned(h, doc.top)
  BY <1>1
<1>11. DOMAIN merged = keys /\ \A key \in keys : merged[key] =
         IF key \in DOMAIN added THEN stripLockieEntries(EntriesAt(hooks, key)) \o added[key]
         ELSE hooks[key]
  OBVIOUS
<1> HIDE DEF merged, new
<1>12. QED BY <1>7, <1>8, <1>9, <1>10, <1>11 DEF new, added, hooks, At

(* An uninstall strips the keys of the host, drops the empty ones and       *)
(* leaves the others.                                                       *)
LEMMA Uninstalled ==
  ASSUME NEW h \in AllHosts, NEW doc, IsDoc(doc)
  PROVE  LET new  == mergeUninstall(h, doc)
             left == {key \in DOMAIN HooksOf(doc) :
                        key \in nativeKeysOwned(h) => stripLockieEntries(At(doc, key)) # << >>}
         IN  /\ IsDoc(new)
             /\ new.top = doc.top
             /\ IsObject(doc.hooks) =>
                  new.hooks = IF left = {} THEN Absent
                              ELSE [key \in left |->
                                      IF key \in nativeKeysOwned(h)
                                      THEN stripLockieEntries(At(doc, key))
                                      ELSE doc.hooks[key]]
             /\ \A key : At(new, key) =
                  IF key \in nativeKeysOwned(h)
                  THEN stripLockieEntries(At(doc, key)) ELSE At(doc, key)
<1> DEFINE owned == nativeKeysOwned(h)
           new   == mergeUninstall(h, doc)
           hooks == HooksOf(doc)
           left  == {key \in DOMAIN hooks :
                       key \in owned => stripLockieEntries(At(doc, key)) # << >>}
           kept  == [key \in left |-> IF key \in owned THEN stripLockieEntries(At(doc, key))
                                      ELSE hooks[key]]
<1>1. CASE ~IsObject(doc.hooks)
  <2>1. new = doc
    BY <1>1 DEF mergeUninstall
  <2>2. \A key : At(doc, key) = << >>
    <3>1. HooksOf(doc) = EmptyMap
      BY <1>1 DEF HooksOf
    <3>2. QED BY <3>1, HooksFacts DEF EmptyMap
  <2>3. QED BY <1>1, <2>1, <2>2, StripsEmpty
<1>2. CASE IsObject(doc.hooks)
  <2>1. hooks = doc.hooks
    BY <1>2 DEF HooksOf
  <2>2. new = [doc EXCEPT !.hooks = IF left = {} THEN Absent ELSE kept]
    BY <1>2, <2>1 DEF mergeUninstall, At
  <2>3. new = [top |-> doc.top, hooks |-> IF left = {} THEN Absent ELSE kept]
    <3> HIDE DEF left, kept
    <3>1. QED BY <2>2 DEF IsDoc
  <2>4. IsMap(hooks, HookKeys, Values)
    BY HooksFacts
  <2>5. IsMap(kept, HookKeys, Values)
    <3>1. \A key : stripLockieEntries(At(doc, key)) \in Seq(Entries)
      BY HooksFacts, Stripped
    <3>2. \A key \in left : kept[key] \in Values
      BY <3>1, <2>4 DEF Values, IsMap
    <3>3. DOMAIN kept = left /\ kept = [key \in DOMAIN kept |-> kept[key]]
      OBVIOUS
    <3>4. left \subseteq HookKeys
      BY <2>4 DEF IsMap
    <3> HIDE DEF kept
    <3>5. QED BY <3>2, <3>3, <3>4 DEF IsMap
  <2>6. IsDoc(new)
    <3> HIDE DEF kept, left
    <3>1. QED BY <2>3, <2>5 DEF IsDoc
  <2>7. HooksOf(new) = IF left = {} THEN EmptyMap ELSE kept
    <3> HIDE DEF kept, left
    <3>1. CASE left = {}
      BY <3>1, <2>3 DEF HooksOf, IsObject
    <3>2. CASE left # {}
      BY <3>2, <2>3, <2>5, ObjectIsObject DEF HooksOf
    <3>3. QED BY <3>1, <3>2
  <2>8. ASSUME NEW key
        PROVE  At(new, key) = IF key \in owned THEN stripLockieEntries(At(doc, key))
                              ELSE At(doc, key)
    <3>1. At(new, key) = EntriesAt(HooksOf(new), key)
      BY DEF At
    <3>2. CASE key \notin left
      <4>1. key \notin DOMAIN HooksOf(new)
        BY <2>7, <3>2 DEF EmptyMap
      <4>2. At(new, key) = << >>
        BY <3>1, <4>1 DEF EntriesAt
      <4>3. CASE key \notin DOMAIN hooks
        BY <4>2, <4>3, HooksFacts, StripsEmpty
      <4>4. CASE key \in DOMAIN hooks
        BY <4>2, <4>4, <3>2
      <4>5. QED BY <4>3, <4>4
    <3>3. CASE key \in left
      <4>1. HooksOf(new) = kept /\ key \in DOMAIN kept
        BY <2>7, <3>3
      <4>2. CASE key \in owned
        <5>1. kept[key] = stripLockieEntries(At(doc, key))
          BY <3>3, <4>2
        <5>2. stripLockieEntries(At(doc, key)) # Other
          BY HooksFacts, Stripped, ValuesAssumption
        <5> HIDE DEF kept
        <5>3. QED BY <3>1, <4>1, <4>2, <5>1, <5>2 DEF EntriesAt
      <4>3. CASE key \notin owned
        BY <3>1, <3>3, <4>1, <4>3 DEF EntriesAt, At
      <4>4. QED BY <4>2, <4>3
    <3>4. QED BY <3>2, <3>3
  <2>9. new.top = doc.top /\ new.hooks = IF left = {} THEN Absent ELSE kept
    <3> HIDE DEF kept, left
    <3>1. QED BY <2>3
  <2> HIDE DEF new
  <2>10. QED BY <2>1, <2>6, <2>8, <2>9 DEF new
<1>3. QED BY <1>1, <1>2

-----------------------------------------------------------------------------
(* What is the user's *)

users(doc, key) == stripLockieEntries(At(doc, key))

(* Documents whose keys hold the same entries of the user, in the same      *)
(* order, have the same user's part, if the top-level keys are the same.    *)
LEMMA SameUserPart ==
  ASSUME NEW h, NEW c, IsDoc(c), NEW d, IsDoc(d),
         \A key : users(c, key) = users(d, key),
         c.top = d.top \/ (h = "cursor" /\ c.top \ {"version"} = d.top \ {"version"})
  PROVE  UserPart(h, c) = UserPart(h, d)
<1> DEFINE shown(doc) == {key \in DOMAIN HooksOf(doc) : users(doc, key) # << >>}
           part(doc) ==
             [top |-> IF h = "cursor" THEN doc.top \ {"version"} ELSE doc.top,
              entries |-> [key \in shown(doc) |-> users(doc, key)]]
<1>1. UserPart(h, c) = part(c) /\ UserPart(h, d) = part(d)
  <2>1. loadSettings(c) = c /\ loadSettings(d) = d
    BY DocLoads
  <2>2. UserPart(h, c) = part(c)
    BY <2>1 DEF UserPart, users, At
  <2>3. UserPart(h, d) = part(d)
    BY <2>1 DEF UserPart, users, At
  <2>4. QED BY <2>2, <2>3
<1>2. shown(c) = shown(d)
  <2>1. \A key : key \notin DOMAIN HooksOf(c) => users(c, key) = << >>
    BY HooksFacts, StripsEmpty DEF users
  <2>2. \A key : key \notin DOMAIN HooksOf(d) => users(d, key) = << >>
    BY HooksFacts, StripsEmpty DEF users
  <2>3. QED BY <2>1, <2>2
<1>3. [key \in shown(c) |-> users(c, key)] = [key \in shown(d) |-> users(d, key)]
  BY <1>2
<1>4. QED BY <1>1, <1>3

(* An install and an uninstall leave the user's entries as they are.        *)
LEMMA InstallKeeps ==
  ASSUME NEW h \in AllHosts, NEW enabled, NEW doc, IsDoc(doc)
  PROVE  /\ \A key : users(mergeInstall(h, doc, enabled), key) = users(doc, key)
         /\ UserPart(h, mergeInstall(h, doc, enabled)) = UserPart(h, doc)
<1> DEFINE new   == mergeInstall(h, doc, enabled)
           added == buildLockiePlan(h, enabled)
<1>1. ASSUME NEW key PROVE users(new, key) = users(doc, key)
  <2>1. At(doc, key) \in Seq(Entries)
    BY HooksFacts
  <2>2. CASE key \in DOMAIN added
    <3>1. PICK e \in Entries : e.managed /\ added[key] = <<e>>
      BY <2>2, PlanFacts
    <3>2. At(new, key) = stripLockieEntries(At(doc, key)) \o added[key]
      BY <2>2, Installed
    <3>3. stripLockieEntries(At(doc, key)) \in Seq(Entries)
      BY <2>1, Stripped
    <3>4. users(new, key) = stripLockieEntries(stripLockieEntries(At(doc, key)))
      BY <3>1, <3>2, <3>3, StripsPlan DEF users
    <3>5. QED BY <2>1, <3>4, Stripped DEF users
  <2>3. CASE key \notin DOMAIN added
    BY <2>3, Installed DEF users
  <2>4. QED BY <2>2, <2>3
<1>2. IsDoc(new) /\ new.top = versioned(h, doc.top)
  BY Installed
<1>3. new.top = doc.top \/ (h = "cursor" /\ new.top \ {"version"} = doc.top \ {"version"})
  BY <1>2 DEF versioned
<1> HIDE DEF new
<1>4. UserPart(h, new) = UserPart(h, doc)
  BY <1>1, <1>2, <1>3, SameUserPart
<1>5. QED BY <1>1, <1>4 DEF new

(* An uninstall leaves the user's part alone.                               *)
LEMMA UninstallKeeps ==
  ASSUME NEW h \in AllHosts, NEW doc, IsDoc(doc)
  PROVE  UserPart(h, mergeUninstall(h, doc)) = UserPart(h, doc)
<1> DEFINE new == mergeUninstall(h, doc)
<1>1. ASSUME NEW key PROVE users(new, key) = users(doc, key)
  <2>1. At(doc, key) \in Seq(Entries)
    BY HooksFacts
  <2>2. CASE key \in nativeKeysOwned(h)
    <3>1. At(new, key) = stripLockieEntries(At(doc, key))
      BY <2>2, Uninstalled
    <3>2. QED BY <2>1, <3>1, Stripped DEF users
  <2>3. CASE key \notin nativeKeysOwned(h)
    BY <2>3, Uninstalled DEF users
  <2>4. QED BY <2>2, <2>3
<1>2. IsDoc(new) /\ new.top = doc.top
  BY Uninstalled
<1> HIDE DEF new
<1>3. UserPart(h, new) = UserPart(h, doc)
  BY <1>1, <1>2, SameUserPart
<1>4. QED BY <1>3 DEF new

-----------------------------------------------------------------------------
(* Installing again and undoing it *)

(* An install strips what it is about to add: a second one adds the same.   *)
LEMMA InstalledTwice ==
  ASSUME NEW h \in AllHosts, NEW enabled, NEW doc, IsDoc(doc)
  PROVE  LET once == mergeInstall(h, doc, enabled)
         IN  mergeInstall(h, once, enabled) = once
<1> DEFINE added == buildLockiePlan(h, enabled)
           once  == mergeInstall(h, doc, enabled)
           twice == mergeInstall(h, once, enabled)
<1>1. IsDoc(once) /\ HooksOf(once) = once.hooks
      /\ DOMAIN once.hooks = DOMAIN HooksOf(doc) \cup DOMAIN added
      /\ once.top = versioned(h, doc.top)
  BY Installed
<1>2. \A key \in DOMAIN added :
        /\ once.hooks[key] = stripLockieEntries(At(doc, key)) \o added[key]
        /\ At(once, key) = once.hooks[key]
  <2>1. \A key \in DOMAIN added : key \in DOMAIN once.hooks
    BY <1>1
  <2>2. \A key \in DOMAIN once.hooks : key \in DOMAIN added =>
          once.hooks[key] = stripLockieEntries(At(doc, key)) \o added[key]
    BY Installed
  <2>3. \A key \in DOMAIN added :
          At(once, key) = stripLockieEntries(At(doc, key)) \o added[key]
    BY Installed
  <2> HIDE DEF once, added
  <2>4. QED BY <2>1, <2>2, <2>3
<1>3. IsDoc(twice) /\ DOMAIN twice.hooks = DOMAIN once.hooks \cup DOMAIN added
      /\ twice.top = versioned(h, once.top)
      /\ HooksOf(twice) = twice.hooks
  <2> HIDE DEF once
  <2>1. QED BY <1>1, Installed
<1>4. \A key \in DOMAIN twice.hooks :
        twice.hooks[key] = IF key \in DOMAIN added
                           THEN stripLockieEntries(At(once, key)) \o added[key]
                           ELSE once.hooks[key]
  <2> HIDE DEF once
  <2>1. QED BY <1>1, Installed
<1>5. DOMAIN twice.hooks = DOMAIN once.hooks
  BY <1>1, <1>3
<1>6. ASSUME NEW key \in DOMAIN added
      PROVE  stripLockieEntries(At(once, key)) = stripLockieEntries(At(doc, key))
  BY InstallKeeps DEF users
<1>7. \A key \in DOMAIN once.hooks : twice.hooks[key] = once.hooks[key]
  <2> HIDE DEF once, twice, added
  <2>1. QED BY <1>2, <1>4, <1>5, <1>6
<1>8. twice.top = once.top
  BY <1>1, <1>3 DEF versioned
<1>9. IsMap(once.hooks, HookKeys, Values) /\ IsMap(twice.hooks, HookKeys, Values)
  <2> HIDE DEF once, twice
  <2>1. QED BY <1>1, <1>3, HooksFacts
<1>10. twice.hooks = once.hooks
  <2> HIDE DEF once, twice
  <2>1. QED BY <1>5, <1>7, <1>9 DEF IsMap
<1>11. QED
  <2> HIDE DEF once, twice
  <2>1. twice = once
    BY <1>1, <1>3, <1>8, <1>10 DEF IsDoc
  <2>2. QED BY <2>1 DEF once, twice

(* After an uninstall no key that Lockie looks at has an entry of Lockie's. *)
LEMMA UninstallClears ==
  ASSUME NEW h \in AllHosts, NEW doc, IsDoc(doc)
  PROVE  installedHooks(h, mergeUninstall(h, doc)) = {}
<1> DEFINE new == mergeUninstall(h, doc)
<1>1. ASSUME NEW s \in Specs(h), NEW i \in DOMAIN At(new, s.nativeKeys[1])
      PROVE  ~isLockieManaged(At(new, s.nativeKeys[1])[i])
  <2>1. s.nativeKeys[1] \in nativeKeysOwned(h)
    BY SpecsApart, OwnedKeys
  <2>2. At(new, s.nativeKeys[1]) = stripLockieEntries(At(doc, s.nativeKeys[1]))
    BY <2>1, Uninstalled
  <2>3. At(doc, s.nativeKeys[1]) \in Seq(Entries)
    BY HooksFacts
  <2> HIDE DEF new
  <2>4. QED BY <2>2, <2>3, Stripped
<1>2. QED
  BY <1>1 DEF installedHooks, At

(* Of a file that has nothing of Lockie's, install and uninstall change     *)
(* "version" at most.                                                       *)
LEMMA UndoneUntouched ==
  ASSUME host \in AllHosts, NEW doc, IsDoc(doc), Untouched(doc)
  PROVE  mergeUninstall(host, mergeInstall(host, doc, AllHooks))
           = [doc EXCEPT !.top = versioned(host, @)]
<1> DEFINE h     == host
           owned == nativeKeysOwned(h)
           added == buildLockiePlan(h, AllHooks)
           once  == mergeInstall(h, doc, AllHooks)
           both  == mergeUninstall(h, once)
           left  == {key \in DOMAIN HooksOf(once) :
                       key \in owned => stripLockieEntries(At(once, key)) # << >>}
<1>1. DOMAIN added = owned
  <2>1. \A key \in owned : \E s \in Specs(h) :
          key \in ToSet(s.nativeKeys) /\ s.canonical \in AllHooks
    BY OwnedKeys, SpecsApart
  <2>2. QED BY <2>1, PlanFacts
<1>2. IsDoc(once) /\ HooksOf(once) = once.hooks
      /\ DOMAIN once.hooks = DOMAIN HooksOf(doc) \cup owned
      /\ once.top = versioned(h, doc.top)
  BY <1>1, Installed
<1>3. \A key \in DOMAIN once.hooks :
        key \notin owned => once.hooks[key] = HooksOf(doc)[key]
  BY <1>1, Installed
<1>4. IsObject(once.hooks)
  <2> HIDE DEF once
  <2>1. QED BY <1>2, HooksFacts, ObjectIsObject
<1>5. \A key : stripLockieEntries(At(once, key)) = stripLockieEntries(At(doc, key))
  BY InstallKeeps DEF users
<1>6. IsDoc(both) /\ both.top = once.top
      /\ both.hooks = IF left = {} THEN Absent
                      ELSE [key \in left |-> IF key \in owned
                                             THEN stripLockieEntries(At(once, key))
                                             ELSE once.hooks[key]]
  <2> HIDE DEF once
  <2>1. QED BY <1>2, <1>4, Uninstalled
<1>7. both.hooks = doc.hooks
  <2>1. CASE doc.hooks = Absent
    <3>1. HooksOf(doc) = EmptyMap
      BY <2>1 DEF HooksOf, IsObject
    <3>2. DOMAIN HooksOf(doc) = {}
      BY <3>1 DEF EmptyMap
    <3>3. \A key : stripLockieEntries(At(once, key)) = << >>
      BY <1>5, <3>2, HooksFacts, StripsEmpty
    <3>4. left = {}
      <4> HIDE DEF once
      <4>1. QED BY <1>2, <3>2, <3>3
    <3> HIDE DEF left, both
    <3>5. QED BY <1>6, <2>1, <3>4
  <2>2. CASE /\ IsObject(doc.hooks)
             /\ DOMAIN doc.hooks # {}
             /\ \A key \in DOMAIN doc.hooks \cap owned :
                  EntriesAt(doc.hooks, key) # << >> /\ ManagedAt(doc, key) = {}
    <3>1. HooksOf(doc) = doc.hooks
      BY <2>2 DEF HooksOf
    <3>2. ASSUME NEW key \in DOMAIN doc.hooks, key \in owned
          PROVE  stripLockieEntries(At(once, key)) = doc.hooks[key] /\ doc.hooks[key] # << >>
      <4>1. At(doc, key) \in Seq(Entries) /\ At(doc, key) # << >>
        BY <2>2, <3>1, <3>2, HooksFacts DEF At
      <4>2. \A i \in DOMAIN At(doc, key) : ~isLockieManaged(At(doc, key)[i])
        BY <2>2, <3>2 DEF ManagedAt, At
      <4>3. stripLockieEntries(At(doc, key)) = At(doc, key)
        BY <4>1, <4>2, StripsNothing
      <4>4. At(doc, key) = doc.hooks[key]
        BY <4>1, <3>1 DEF At, EntriesAt
      <4>5. QED BY <4>1, <4>3, <4>4, <1>5
    <3>3. ASSUME NEW key, key \notin DOMAIN doc.hooks
          PROVE  stripLockieEntries(At(once, key)) = << >>
      BY <3>1, <3>3, <1>5, HooksFacts, StripsEmpty
    <3>4. left = DOMAIN doc.hooks
      <4> HIDE DEF once
      <4>1. QED BY <1>2, <3>1, <3>2, <3>3
    <3>5. \A key \in left : (IF key \in owned THEN stripLockieEntries(At(once, key))
                             ELSE once.hooks[key]) = doc.hooks[key]
      <4> HIDE DEF once, left
      <4>1. QED BY <1>2, <1>3, <3>1, <3>2, <3>4
    <3>6. both.hooks = [key \in left |-> doc.hooks[key]]
      <4> HIDE DEF once, left, both
      <4>1. QED BY <1>6, <2>2, <3>4, <3>5
    <3>7. IsMap(doc.hooks, HookKeys, Values)
      BY <3>1, HooksFacts
    <3> HIDE DEF both, left
    <3>8. QED BY <3>4, <3>6, <3>7 DEF IsMap
  <2>3. QED BY <2>1, <2>2 DEF Untouched
<1>8. both.top = versioned(h, doc.top)
  BY <1>2, <1>6
<1>9. both = [doc EXCEPT !.top = versioned(h, @)]
  <2> HIDE DEF both
  <2>1. QED BY <1>6, <1>7, <1>8 DEF IsDoc
<1>10. QED BY <1>9

-----------------------------------------------------------------------------
(* Wiring *)

Never(s) == \A i \in DOMAIN s : ~isLockieManaged(s[i])

Once(s) == \E i \in DOMAIN s : \A j \in DOMAIN s : isLockieManaged(s[j]) <=> j = i

(* every hook is wired under all of its native keys or under none           *)
Wired(h, doc) ==
  \A s \in Specs(h) :
    \/ \A key \in ToSet(s.nativeKeys) : Once(At(doc, key))
    \/ \A key \in ToSet(s.nativeKeys) : Never(At(doc, key))

(* No hooks at all are wired as one.                                        *)
LEMMA EmptyWired == \A h : Wired(h, EmptyDoc)
BY EmptyIsDoc DEF Wired, Never

(* A managed entry behind others that are not is the only one.              *)
LEMMA OneMore ==
  ASSUME NEW s \in Seq(Entries), Never(s), NEW e \in Entries, e.managed
  PROVE  Once(s \o <<e>>)
<1> DEFINE t == s \o <<e>>
<1>1. Len(s) + 1 \in DOMAIN t /\ t[Len(s) + 1] = e
      /\ \A j \in DOMAIN t : j # Len(s) + 1 => j \in DOMAIN s /\ t[j] = s[j]
  OBVIOUS
<1> HIDE DEF t
<1>2. \A j \in DOMAIN t : isLockieManaged(t[j]) <=> j = Len(s) + 1
  BY <1>1 DEF Never, isLockieManaged
<1>3. Once(t)
  BY <1>1, <1>2 DEF Once
<1>4. QED BY <1>3 DEF t

(* An install leaves one entry per enabled hook and key, the others alone.  *)
LEMMA InstallWires ==
  ASSUME NEW h \in AllHosts, NEW enabled, NEW doc, IsDoc(doc), Wired(h, doc)
  PROVE  Wired(h, mergeInstall(h, doc, enabled))
<1> DEFINE new   == mergeInstall(h, doc, enabled)
           added == buildLockiePlan(h, enabled)
<1>1. ASSUME NEW s \in Specs(h), s.canonical \in enabled, NEW key \in ToSet(s.nativeKeys)
      PROVE  Once(At(new, key))
  <2>1. key \in DOMAIN added
    BY <1>1, PlanFacts
  <2>2. PICK e \in Entries : e.managed /\ added[key] = <<e>>
    BY <2>1, PlanFacts
  <2>3. At(new, key) = stripLockieEntries(At(doc, key)) \o added[key]
    BY <2>1, Installed
  <2>4. At(doc, key) \in Seq(Entries)
    BY HooksFacts
  <2>5. /\ stripLockieEntries(At(doc, key)) \in Seq(Entries)
        /\ Never(stripLockieEntries(At(doc, key)))
    BY <2>4, Stripped DEF Never
  <2> HIDE DEF new, added
  <2>6. QED BY <2>2, <2>3, <2>5, OneMore
<1>2. ASSUME NEW s \in Specs(h), s.canonical \notin enabled, NEW key \in ToSet(s.nativeKeys)
      PROVE  At(new, key) = At(doc, key)
  <2>1. key \notin DOMAIN added
    BY <1>2, PlanFacts
  <2>2. QED BY <2>1, Installed
<1> HIDE DEF new
<1>3. Wired(h, new)
  BY <1>1, <1>2 DEF Wired
<1>4. QED BY <1>3 DEF new

(* An uninstall leaves none.                                                *)
LEMMA UninstallWires ==
  ASSUME NEW h \in AllHosts, NEW doc, IsDoc(doc)
  PROVE  Wired(h, mergeUninstall(h, doc))
<1> DEFINE new == mergeUninstall(h, doc)
<1>1. ASSUME NEW s \in Specs(h), NEW key \in ToSet(s.nativeKeys)
      PROVE  Never(At(new, key))
  <2>1. key \in nativeKeysOwned(h)
    BY OwnedKeys
  <2>2. At(new, key) = stripLockieEntries(At(doc, key))
    BY <2>1, Uninstalled
  <2>3. At(doc, key) \in Seq(Entries)
    BY HooksFacts
  <2> HIDE DEF new
  <2>4. QED BY <2>2, <2>3, Stripped DEF Never
<1> HIDE DEF new
<1>2. Wired(h, new)
  BY <1>1 DEF Wired
<1>3. QED BY <1>2 DEF new

(* What the user does to a key leaves Lockie's entries as many as they were. *)
AsMany(s, t) == (Once(s) => Once(t)) /\ (Never(s) => Never(t))

(* The user may put an entry in front,                                      *)
LEMMA PrependAsMany ==
  ASSUME NEW s \in Seq(Entries), NEW e \in Entries, ~e.managed
  PROVE  <<e>> \o s \in Seq(Entries) /\ AsMany(s, <<e>> \o s)
<1> DEFINE t == <<e>> \o s
<1>1. t \in Seq(Entries)
  OBVIOUS
<1>2. /\ \A i \in DOMAIN s : i \in Nat /\ i + 1 \in DOMAIN t /\ t[i + 1] = s[i]
      /\ \A j \in DOMAIN t : j \in Nat /\ (j # 1 => j - 1 \in DOMAIN s /\ t[j] = s[j - 1])
      /\ t[1] = e
  OBVIOUS
<1> HIDE DEF t
<1>3. Never(s) => Never(t)
  BY <1>2 DEF Never, isLockieManaged
<1>4. ASSUME Once(s) PROVE Once(t)
  <2>1. PICK i \in DOMAIN s : \A j \in DOMAIN s : isLockieManaged(s[j]) <=> j = i
    BY <1>4 DEF Once
  <2>2. i + 1 \in DOMAIN t /\ i \in Nat
    BY <1>2
  <2>3. ASSUME NEW j \in DOMAIN t PROVE isLockieManaged(t[j]) <=> j = i + 1
    <3>1. CASE j = 1
      <4>1. i # 0
        OBVIOUS
      <4>2. QED BY <3>1, <4>1, <1>2, <2>2 DEF isLockieManaged
    <3>2. CASE j # 1
      <4>1. j - 1 \in DOMAIN s /\ t[j] = s[j - 1] /\ j \in Nat
        BY <3>2, <1>2
      <4>2. isLockieManaged(t[j]) <=> j - 1 = i
        BY <4>1, <2>1
      <4>3. QED BY <4>1, <4>2, <2>2
    <3>3. QED BY <3>1, <3>2
  <2>4. QED BY <2>2, <2>3 DEF Once
<1>5. QED BY <1>1, <1>3, <1>4 DEF t, AsMany

(* put one behind,                                                          *)
LEMMA AppendAsMany ==
  ASSUME NEW s \in Seq(Entries), NEW e \in Entries, ~e.managed
  PROVE  s \o <<e>> \in Seq(Entries) /\ AsMany(s, s \o <<e>>)
<1> DEFINE t == s \o <<e>>
<1>1. t \in Seq(Entries)
  OBVIOUS
<1>2. /\ \A i \in DOMAIN s : i \in DOMAIN t /\ t[i] = s[i]
      /\ \A j \in DOMAIN t : (j \in DOMAIN s /\ t[j] = s[j]) \/ (j \notin DOMAIN s /\ t[j] = e)
  OBVIOUS
<1> HIDE DEF t
<1>3. AsMany(s, t)
  BY <1>2 DEF Never, Once, AsMany, isLockieManaged
<1>4. QED BY <1>1, <1>3 DEF t

(* or remove one: there are as many of Lockie's as before.                  *)
LEMMA RemoveAsMany ==
  ASSUME NEW s \in Seq(Entries), NEW i \in DOMAIN s, ~isLockieManaged(s[i])
  PROVE  RemoveAt(s, i) \in Seq(Entries) /\ AsMany(s, RemoveAt(s, i))
<1> DEFINE t == RemoveAt(s, i)
<1>1. i \in 1 .. Len(s) /\ Len(s) \in Nat
  OBVIOUS
<1>2. t \in Seq(Entries) /\ DOMAIN t = 1 .. Len(s) - 1
      /\ \A j \in DOMAIN t : t[j] = IF j < i THEN s[j] ELSE s[j + 1]
  <2> DEFINE a == SubSeq(s, 1, i - 1)
             b == SubSeq(s, i + 1, Len(s))
  <2>1. a \in Seq(Entries) /\ Len(a) = i - 1 /\ \A j \in 1 .. i - 1 : a[j] = s[j]
    BY <1>1
  <2>2. b \in Seq(Entries) /\ Len(b) = Len(s) - i /\ \A j \in 1 .. Len(s) - i : b[j] = s[j + i]
    BY <1>1
  <2>3. t = a \o b
    BY DEF RemoveAt
  <2> HIDE DEF a, b, t
  <2>4. t \in Seq(Entries) /\ Len(t) = Len(s) - 1
    BY <2>1, <2>2, <2>3, <1>1
  <2>5. ASSUME NEW j \in 1 .. Len(s) - 1
        PROVE  t[j] = IF j < i THEN s[j] ELSE s[j + 1]
    <3>1. CASE j < i
      <4>1. t[j] = a[j] /\ j \in 1 .. i - 1
        BY <3>1, <2>1, <2>2, <2>3, <1>1
      <4>2. QED BY <3>1, <4>1, <2>1
    <3>2. CASE ~(j < i)
      <4>1. t[j] = b[j - (i - 1)] /\ j - (i - 1) \in 1 .. Len(s) - i
        BY <3>2, <2>1, <2>2, <2>3, <1>1
      <4>2. (j - (i - 1)) + i = j + 1
        BY <1>1
      <4>3. QED BY <3>2, <4>1, <4>2, <2>2
    <3>3. QED BY <3>1, <3>2
  <2>6. QED BY <2>4, <2>5
<1> HIDE DEF t
<1>3. Never(s) => Never(t)
  BY <1>1, <1>2 DEF Never
<1>4. ASSUME Once(s) PROVE Once(t)
  <2>1. PICK k \in DOMAIN s : \A j \in DOMAIN s : isLockieManaged(s[j]) <=> j = k
    BY <1>4 DEF Once
  <2>2. k # i /\ k \in 1 .. Len(s)
    BY <2>1
  <2> DEFINE m == IF k < i THEN k ELSE k - 1
  <2>3. m \in DOMAIN t
    BY <1>1, <1>2, <2>2
  <2>4. ASSUME NEW j \in DOMAIN t PROVE isLockieManaged(t[j]) <=> j = m
    <3>1. CASE j < i
      BY <3>1, <1>1, <1>2, <2>1, <2>2
    <3>2. CASE ~(j < i)
      BY <3>2, <1>1, <1>2, <2>1, <2>2
    <3>3. QED BY <3>1, <3>2
  <2>5. QED BY <2>3, <2>4 DEF Once
<1>5. QED BY <1>2, <1>3, <1>4 DEF t, AsMany

(* So what the user saves is wired as it was.                               *)
LEMMA WithEntriesWired ==
  ASSUME NEW h \in AllHosts, NEW doc, IsDoc(doc), Wired(h, doc),
         NEW key \in EditKeys, NEW t \in Seq(Entries), AsMany(At(doc, key), t)
  PROVE  IsDoc(WithEntries(doc, key, t)) /\ Wired(h, WithEntries(doc, key, t))
<1> DEFINE new   == WithEntries(doc, key, t)
           hooks == MapPut(HooksOf(doc), key, t)
<1>1. IsMap(hooks, HookKeys, Values)
  <2>1. IsMap(HooksOf(doc), HookKeys, Values)
    BY HooksFacts
  <2>2. t \in Values /\ key \in HookKeys
    BY DEF Values, HookKeys
  <2>3. QED BY <2>1, <2>2 DEF IsMap, MapPut
<1>2. new = [top |-> doc.top, hooks |-> hooks]
  BY DEF WithEntries, IsDoc
<1>3. IsDoc(new) /\ HooksOf(new) = hooks
  <2> HIDE DEF hooks
  <2>1. QED BY <1>1, <1>2, ObjectIsObject DEF IsDoc, HooksOf
<1>4. ASSUME NEW k PROVE At(new, k) = IF k = key THEN t ELSE At(doc, k)
  <2>1. t # Other
    BY ValuesAssumption
  <2>2. At(new, k) = EntriesAt(hooks, k)
    BY <1>3 DEF At
  <2>3. QED BY <2>1, <2>2 DEF EntriesAt, At, MapPut
<1> HIDE DEF new
<1>5. Wired(h, new)
  <2>1. ASSUME NEW s \in Specs(h)
        PROVE  \/ \A k \in ToSet(s.nativeKeys) : Once(At(new, k))
               \/ \A k \in ToSet(s.nativeKeys) : Never(At(new, k))
    <3>1. CASE \A k \in ToSet(s.nativeKeys) : Once(At(doc, k))
      BY <3>1, <1>4 DEF AsMany
    <3>2. CASE \A k \in ToSet(s.nativeKeys) : Never(At(doc, k))
      BY <3>2, <1>4 DEF AsMany
    <3>3. QED BY <3>1, <3>2 DEF Wired
  <2>2. QED BY <2>1 DEF Wired
<1>6. QED BY <1>3, <1>5 DEF new

(* What the user saves is a document, wired as it was.                      *)
LEMMA SavesWired ==
  ASSUME NEW h \in AllHosts, NEW doc, IsDoc(doc), Wired(h, doc), NEW new \in Saves(doc)
  PROVE  IsDoc(new) /\ Wired(h, new)
<1>1. CASE \E top \in {{}, TopKeys} : new = [doc EXCEPT !.top = (@ \cap {"version"}) \cup top]
  <2>1. PICK top \in {{}, TopKeys} : new = [doc EXCEPT !.top = (@ \cap {"version"}) \cup top]
    BY <1>1
  <2>2. new = [top |-> (doc.top \cap {"version"}) \cup top, hooks |-> doc.hooks]
    BY <2>1 DEF IsDoc
  <2>3. IsDoc(new) /\ new.hooks = doc.hooks
    BY <2>2 DEF IsDoc, TopLevel
  <2>4. \A key : At(new, key) = At(doc, key)
    BY <2>3 DEF At, HooksOf
  <2>5. QED BY <2>3, <2>4 DEF Wired
<1>2. CASE \E key \in EditKeys :
             \/ \E e \in UserEntries :
                  \/ new = WithEntries(doc, key, <<UserEntry(e)>> \o At(doc, key))
                  \/ new = WithEntries(doc, key, At(doc, key) \o <<UserEntry(e)>>)
             \/ \E i \in DOMAIN At(doc, key) :
                  /\ ~isLockieManaged(At(doc, key)[i])
                  /\ new = WithEntries(doc, key, RemoveAt(At(doc, key), i))
  <2>1. \A key : At(doc, key) \in Seq(Entries)
    BY HooksFacts
  <2>2. \A e \in UserEntries : UserEntry(e) \in Entries /\ ~UserEntry(e).managed
    BY DEF UserEntry, Entries
  <2>3. ASSUME NEW key \in EditKeys, NEW e \in UserEntries,
               new = WithEntries(doc, key, <<UserEntry(e)>> \o At(doc, key))
        PROVE  IsDoc(new) /\ Wired(h, new)
    <3> DEFINE t == <<UserEntry(e)>> \o At(doc, key)
    <3>1. t \in Seq(Entries) /\ AsMany(At(doc, key), t)
      BY <2>1, <2>2, PrependAsMany
    <3> HIDE DEF t
    <3>2. IsDoc(WithEntries(doc, key, t)) /\ Wired(h, WithEntries(doc, key, t))
      BY <3>1, WithEntriesWired
    <3>3. QED BY <3>2, <2>3 DEF t
  <2>4. ASSUME NEW key \in EditKeys, NEW e \in UserEntries,
               new = WithEntries(doc, key, At(doc, key) \o <<UserEntry(e)>>)
        PROVE  IsDoc(new) /\ Wired(h, new)
    <3> DEFINE t == At(doc, key) \o <<UserEntry(e)>>
    <3>1. t \in Seq(Entries) /\ AsMany(At(doc, key), t)
      BY <2>1, <2>2, AppendAsMany
    <3> HIDE DEF t
    <3>2. IsDoc(WithEntries(doc, key, t)) /\ Wired(h, WithEntries(doc, key, t))
      BY <3>1, WithEntriesWired
    <3>3. QED BY <3>2, <2>4 DEF t
  <2>5. ASSUME NEW key \in EditKeys, NEW i \in DOMAIN At(doc, key),
               ~isLockieManaged(At(doc, key)[i]),
               new = WithEntries(doc, key, RemoveAt(At(doc, key), i))
        PROVE  IsDoc(new) /\ Wired(h, new)
    <3> DEFINE t == RemoveAt(At(doc, key), i)
    <3>1. t \in Seq(Entries) /\ AsMany(At(doc, key), t)
      BY <2>1, <2>5, RemoveAsMany
    <3> HIDE DEF t
    <3>2. IsDoc(WithEntries(doc, key, t)) /\ Wired(h, WithEntries(doc, key, t))
      BY <3>1, WithEntriesWired
    <3>3. QED BY <3>2, <2>5 DEF t
  <2>6. QED BY <1>2, <2>3, <2>4, <2>5
<1>3. QED
  BY <1>1, <1>2 DEF Saves, At

(* So is what there is before the first command.                            *)
LEMMA InitialWired ==
  ASSUME NEW h \in AllHosts, NEW f \in InitialFiles(h), f \notin {Absent, Blank, Broken}
  PROVE  IsDoc(f) /\ Wired(h, f)
<1>1. PICK top \in {{}, TopKeys \cup {"version"}}, hooks \in InitialHooks(h) :
        f = [top |-> top, hooks |-> hooks]
  BY DEF InitialFiles
<1>2. f.top \subseteq TopLevel /\ f = [top |-> f.top, hooks |-> f.hooks] /\ f.hooks = hooks
  BY <1>1 DEF TopLevel
<1> DEFINE own == UserEntry("was there")
<1>3. /\ own \in Entries /\ ~isLockieManaged(own)
      /\ OldEntry \in Entries /\ isLockieManaged(OldEntry)
  BY DEF UserEntry, OldEntry, lockieEntry, Entries, isLockieManaged
<1> HIDE DEF own
<1>4. CASE hooks \in {Absent, Other}
  <2>1. HooksOf(f) = EmptyMap
    BY <1>2, <1>4 DEF HooksOf, IsObject
  <2>2. \A key : At(f, key) = << >>
    BY <2>1 DEF At, EntriesAt, EmptyMap
  <2>3. QED BY <1>2, <1>4, <2>2 DEF IsDoc, Wired, Never
<1>5. CASE \E key \in EditKeys, v \in {Other, << >>, <<own>>} : hooks = Under({key}, v)
  <2>1. PICK key \in EditKeys, v \in {Other, << >>, <<own>>} : hooks = Under({key}, v)
    BY <1>5
  <2>2. << >> \in Seq(Entries) /\ <<own>> \in Seq(Entries)
    BY <1>3
  <2>3. v \in Values
    BY <2>2 DEF Values
  <2>4. IsMap(hooks, HookKeys, Values)
    BY <2>1, <2>3 DEF IsMap, HookKeys, Under
  <2>5. IsDoc(f) /\ HooksOf(f) = hooks
    BY <1>2, <2>4, ObjectIsObject DEF IsDoc, HooksOf
  <2>6. \A k : At(f, k) \in {<< >>, <<own>>}
    BY <2>1, <2>5 DEF At, EntriesAt, Under
  <2>7. Never(<< >>) /\ Never(<<own>>)
    BY <1>3 DEF Never
  <2>8. QED BY <2>5, <2>6, <2>7 DEF Wired
<1>6. CASE \E s \in Specs(h), v \in {<<OldEntry>>, <<own, OldEntry>>} :
             hooks = Under(ToSet(s.nativeKeys), v)
  <2>1. PICK s \in Specs(h), v \in {<<OldEntry>>, <<own, OldEntry>>} :
          hooks = Under(ToSet(s.nativeKeys), v)
    BY <1>6
  <2>2. v \in Seq(Entries)
    <3>1. \A e, d \in Entries : <<e>> \in Seq(Entries) /\ <<e, d>> \in Seq(Entries)
      OBVIOUS
    <3>2. QED BY <3>1, <1>3
  <2>3. IsMap(hooks, HookKeys, Values)
    BY <2>1, <2>2, OwnedKeys DEF IsMap, Values, Under
  <2>4. IsDoc(f) /\ HooksOf(f) = hooks
    BY <1>2, <2>3, ObjectIsObject DEF IsDoc, HooksOf
  <2>5. v # Other
    BY <2>2, ValuesAssumption
  <2>6. \A k : At(f, k) = IF k \in ToSet(s.nativeKeys) THEN v ELSE << >>
    BY <2>1, <2>4, <2>5 DEF At, EntriesAt, Under
  <2>7. Once(v)
    <3>1. CASE v = <<OldEntry>>
      <4>1. DOMAIN v = {1} /\ v[1] = OldEntry
        BY <3>1
      <4>2. QED BY <4>1, <1>3 DEF Once
    <3>2. CASE v = <<own, OldEntry>>
      <4>1. DOMAIN v = {1, 2} /\ v[1] = own /\ v[2] = OldEntry
        BY <3>2
      <4>2. QED BY <4>1, <1>3 DEF Once
    <3>3. QED BY <3>1, <3>2
  <2>8. ASSUME NEW t \in Specs(h)
        PROVE  \/ \A k \in ToSet(t.nativeKeys) : Once(At(f, k))
               \/ \A k \in ToSet(t.nativeKeys) : Never(At(f, k))
    <3>1. CASE t = s
      BY <3>1, <2>6, <2>7
    <3>2. CASE t # s
      <4>1. \A k \in ToSet(t.nativeKeys) : At(f, k) = << >>
        BY <3>2, <2>6, SpecsApart
      <4>2. QED BY <4>1 DEF Never
    <3>3. QED BY <3>1, <3>2
  <2>9. QED BY <2>4, <2>8 DEF Wired
<1>7. QED
  <2>1. \/ hooks \in {Absent, Other}
        \/ \E key \in EditKeys, v \in {Other, << >>, <<own>>} : hooks = Under({key}, v)
        \/ \E keys \in {ToSet(s.nativeKeys) : s \in Specs(h)}, v \in {<<OldEntry>>, <<own, OldEntry>>} :
             hooks = Under(keys, v)
    <3> DEFINE V == {Other, << >>, <<own>>}
               W == {<<OldEntry>>, <<own, OldEntry>>}
               wired == {ToSet(s.nativeKeys) : s \in Specs(h)}
               met == {ks \in wired : ks \cap EditKeys # {}}
               A == UNION {{Under({key}, v) : v \in V} : key \in EditKeys}
               B == UNION {{Under(keys, v) : v \in W} : keys \in met}
    <3>1. InitialHooks(h) = {Absent, Other} \cup A \cup B
      BY DEF InitialHooks, own
    <3>2. met \subseteq wired
      OBVIOUS
    <3> HIDE DEF V, W, met, wired
    <3>3. hooks \in A => \E key \in EditKeys, v \in V : hooks = Under({key}, v)
      OBVIOUS
    <3>4. hooks \in B => \E keys \in wired, v \in W : hooks = Under(keys, v)
      BY <3>2
    <3>5. hooks \in {Absent, Other} \/ hooks \in A \/ hooks \in B
      <4> HIDE DEF A, B
      <4>1. QED BY <3>1
    <3>6. QED BY <3>3, <3>4, <3>5 DEF V, W, wired
  <2>2. QED BY <2>1, <1>4, <1>5, <1>6

-----------------------------------------------------------------------------
(* The inductive invariant *)

(* The file is what its type says and wired as one, and the user's part of  *)
(* it is what the user saved.                                               *)
FileInv ==
  /\ file \in {Absent, Blank, Broken} \/ IsDoc(file)
  /\ loads(file) => Wired(host, loadSettings(file))
  /\ UserKept

(* A process has nothing or a document to write: one with the user's part   *)
(* of the file, unless somebody has saved or overwritten it since, and what *)
(* the process renames or removes is that document.                         *)
ProcInv(p) ==
  /\ temps[p] \in {Absent, Broken} \/ IsDoc(temps[p])
  /\ IsDoc(plan[p]) /\ Wired(host, plan[p])
  /\ seen[p] \in 0 .. edits
  /\ pc[p] \in {"idle", "write", "fill", "rename", "remove"}
  /\ pc[p] = "rename" => temps[p] = plan[p]
  /\ pc[p] = "remove" => plan[p] = EmptyDoc
  /\ file = Broken => pc[p] = "idle"
  /\ (pc[p] # "idle" /\ ~raced /\ seen[p] = edits) => UserPart(host, plan[p]) = mine

ProcsInv ==
  /\ DOMAIN temps = Procs /\ DOMAIN pc = Procs
  /\ DOMAIN plan = Procs /\ DOMAIN seen = Procs
  /\ \A p \in Procs : ProcInv(p)

CountInv == edits \in Nat

IndInv ==
  /\ host \in AllHosts /\ raced \in BOOLEAN
  /\ FileInv /\ ProcsInv /\ CountInv

(* No file, an empty one and a document all load as a document,             *)
LEMMA LoadsDoc ==
  ASSUME NEW f, f \in {Absent, Blank} \/ IsDoc(f)
  PROVE  IsDoc(loadSettings(f)) /\ loads(f)
<1>1. CASE f \in {Absent, Blank}
  BY <1>1, EmptyIsDoc, ValuesAssumption DEF loadSettings, loads
<1>2. CASE IsDoc(f)
  BY <1>2, DocLoads
<1>3. QED BY <1>1, <1>2

(* so what a command loads is a document, wired as one,                     *)
LEMMA FileIsDoc ==
  ASSUME IndInv, loads(file)
  PROVE  IsDoc(loadSettings(file)) /\ Wired(host, loadSettings(file))
<1>1. file \in {Absent, Blank} \/ IsDoc(file)
  BY DEF IndInv, FileInv, loads
<1>2. QED BY <1>1, LoadsDoc DEF IndInv, FileInv

(* and has the user's part of the file.                                     *)
LEMMA SamePart ==
  ASSUME NEW h, NEW f, f \in {Absent, Blank} \/ IsDoc(f)
  PROVE  UserPart(h, loadSettings(f)) = UserPart(h, f)
<1>1. loadSettings(loadSettings(f)) = loadSettings(f)
  BY LoadsDoc, DocLoads
<1>2. QED BY <1>1 DEF UserPart

(* It holds at first, whatever the user has in the file.                    *)
LEMMA InitInv == Init => IndInv
<1> SUFFICES ASSUME Init PROVE IndInv
  OBVIOUS
<1>1. host \in AllHosts /\ raced \in BOOLEAN
  BY DEF Init, AllHosts
<1>2. FileInv
  <2>1. CASE file \in {Absent, Blank, Broken}
    <3>1. loadSettings(file) = EmptyDoc
      BY <2>1 DEF loadSettings
    <3>2. QED BY <2>1, <3>1, EmptyWired DEF FileInv, UserKept, Init
  <2>2. CASE file \notin {Absent, Blank, Broken}
    <3>1. IsDoc(file) /\ Wired(host, file)
      BY <1>1, <2>2, InitialWired DEF Init
    <3>2. QED BY <3>1, DocLoads DEF FileInv, UserKept, Init
  <2>3. QED BY <2>1, <2>2
<1>3. ASSUME NEW p \in Procs PROVE ProcInv(p)
  <2>1. /\ temps[p] = Absent /\ plan[p] = EmptyDoc /\ seen[p] = 0 /\ pc[p] = "idle"
        /\ edits = 0
    BY DEF Init
  <2>2. QED BY <2>1, EmptyIsDoc, EmptyWired DEF ProcInv
<1>4. ProcsInv
  BY <1>3 DEF ProcsInv, Init
<1>5. CountInv
  BY DEF CountInv, Init
<1>6. QED BY <1>1, <1>2, <1>4, <1>5 DEF IndInv

-----------------------------------------------------------------------------
(* Steps *)

(* A process that takes no part in a step of another one keeps its part of  *)
(* the invariant, unless the step is a save.                                *)
LEMMA OtherKeeps ==
  ASSUME NEW q \in Procs, ProcInv(q),
         temps'[q] = temps[q], pc'[q] = pc[q], plan'[q] = plan[q], seen'[q] = seen[q],
         UNCHANGED <<host, user>>, raced => raced', file' = Broken => file = Broken
  PROVE  ProcInv(q)'
BY DEF ProcInv, user

(* So does one that ends.                                                   *)
LEMMA ExitKeeps ==
  ASSUME IndInv, NEW p \in Procs, Exit(p),
         UNCHANGED <<host, user>>, raced => raced', file' = Broken => file = Broken
  PROVE  ProcsInv'
<1>1. /\ DOMAIN temps' = Procs /\ DOMAIN pc' = Procs
      /\ DOMAIN plan' = Procs /\ DOMAIN seen' = Procs
  BY DEF IndInv, ProcsInv, Exit, Goto
<1>2. ASSUME NEW q \in Procs PROVE ProcInv(q)'
  <2>1. CASE q = p
    <3>1. /\ temps'[q] = Absent /\ plan'[q] = EmptyDoc /\ seen'[q] = 0 /\ pc'[q] = "idle"
      BY <2>1 DEF IndInv, ProcsInv, Exit, Goto
    <3>2. edits' \in Nat
      BY DEF IndInv, CountInv, user
    <3>3. QED BY <3>1, <3>2, EmptyIsDoc, EmptyWired DEF ProcInv
  <2>2. CASE q # p
    <3>1. /\ temps'[q] = temps[q] /\ plan'[q] = plan[q] /\ seen'[q] = seen[q]
          /\ pc'[q] = pc[q]
      BY <2>2 DEF IndInv, ProcsInv, Exit, Goto
    <3>2. QED BY <3>1, OtherKeeps DEF IndInv, ProcsInv
  <2>3. QED BY <2>1, <2>2
<1>3. QED BY <1>1, <1>2 DEF ProcsInv

(* A process that has read the file plans to write the user's part of it.   *)
LEMMA PlanKeeps ==
  ASSUME IndInv, NEW p \in Procs, NEW doc, NEW label \in {"write", "remove"},
         Plan(p, doc), Goto(p, label), loads(file),
         IsDoc(doc), Wired(host, doc), label = "remove" => doc = EmptyDoc,
         UserPart(host, doc) = UserPart(host, file),
         UNCHANGED <<host, file, temps, user, raced, crashes>>
  PROVE  IndInv'
<1>1. host' \in AllHosts /\ raced' \in BOOLEAN
  BY DEF IndInv
<1>2. FileInv'
  BY DEF IndInv, FileInv, UserKept, user
<1>3. CountInv'
  BY DEF IndInv, CountInv, user
<1>4. /\ DOMAIN temps' = Procs /\ DOMAIN pc' = Procs
      /\ DOMAIN plan' = Procs /\ DOMAIN seen' = Procs
  BY DEF IndInv, ProcsInv, Plan, Goto
<1>5. ASSUME NEW q \in Procs PROVE ProcInv(q)'
  <2>1. CASE q = p
    <3>1. /\ temps'[q] = temps[q] /\ plan'[q] = doc /\ seen'[q] = edits /\ pc'[q] = label
      BY <2>1 DEF IndInv, ProcsInv, Plan, Goto
    <3>2. edits \in Nat /\ edits' = edits /\ mine' = mine
      BY DEF IndInv, CountInv, user
    <3>3. ~raced => UserPart(host, doc) = mine
      BY DEF IndInv, FileInv, UserKept
    <3>4. temps[q] \in {Absent, Broken} \/ IsDoc(temps[q])
      BY DEF IndInv, ProcsInv, ProcInv
    <3>5. QED BY <3>1, <3>2, <3>3, <3>4 DEF ProcInv, loads
  <2>2. CASE q # p
    <3>1. /\ temps'[q] = temps[q] /\ plan'[q] = plan[q] /\ seen'[q] = seen[q]
          /\ pc'[q] = pc[q]
      BY <2>2 DEF IndInv, ProcsInv, Plan, Goto
    <3>2. QED BY <3>1, OtherKeeps DEF IndInv, ProcsInv
  <2>3. QED BY <2>1, <2>2
<1>6. QED BY <1>1, <1>2, <1>3, <1>4, <1>5 DEF IndInv, ProcsInv

(* An install plans a document that keeps the user's part.                  *)
LEMMA InstallInv ==
  ASSUME IndInv, NEW p \in Procs, NEW enabled, Install(p, enabled)
  PROVE  IndInv'
<1> DEFINE all == IF enabled = {} THEN AllHooks ELSE enabled
           doc == loadSettings(file)
           new == mergeInstall(host, doc, all)
<1>1. IsDoc(doc) /\ Wired(host, doc) /\ loads(file) /\ host \in AllHosts
  BY FileIsDoc DEF Install, IndInv
<1>2. IsDoc(new) /\ Wired(host, new) /\ UserPart(host, new) = UserPart(host, doc)
  <2> HIDE DEF all, doc
  <2>1. QED BY <1>1, Installed, InstallWires, InstallKeeps
<1>3. UserPart(host, doc) = UserPart(host, file)
  BY <1>1, SamePart DEF IndInv, FileInv, loads
<1>4. Plan(p, new) /\ Goto(p, "write")
      /\ UNCHANGED <<host, file, temps, user, raced, crashes>>
  BY DEF Install
<1> HIDE DEF new, doc
<1>5. QED BY <1>1, <1>2, <1>3, <1>4, PlanKeeps

(* So does an uninstall, and it removes only what would be empty.           *)
LEMMA UninstallInv ==
  ASSUME IndInv, NEW p \in Procs, Uninstall(p)
  PROVE  IndInv'
<1> DEFINE doc == loadSettings(file)
           new == mergeUninstall(host, doc)
           label == IF new = EmptyDoc THEN "remove" ELSE "write"
<1>1. IsDoc(doc) /\ loads(file) /\ host \in AllHosts
  BY FileIsDoc DEF Uninstall, IndInv
<1>2. IsDoc(new) /\ Wired(host, new) /\ UserPart(host, new) = UserPart(host, doc)
  <2> HIDE DEF doc
  <2>1. QED BY <1>1, Uninstalled, UninstallWires, UninstallKeeps
<1>3. UserPart(host, doc) = UserPart(host, file)
  BY <1>1, SamePart DEF IndInv, FileInv, loads
<1>4. Plan(p, new) /\ Goto(p, label)
      /\ UNCHANGED <<host, file, temps, user, raced, crashes>>
  BY DEF Uninstall
<1>5. label \in {"write", "remove"} /\ (label = "remove" => new = EmptyDoc)
  OBVIOUS
<1> HIDE DEF new, doc, label
<1>6. QED BY <1>1, <1>2, <1>3, <1>4, <1>5, PlanKeeps

(* A command that ends early changes nothing.                               *)
LEMMA EndsEarlyInv ==
  ASSUME IndInv, UNCHANGED <<host, file, process, user, raced, failures, crashes>>
  PROVE  IndInv'
<1>1. UNCHANGED <<host, file, temps, pc, plan, seen, mine, edits, raced, crashes>>
  BY DEF process, user
<1>2. FileInv' /\ CountInv'
  BY <1>1 DEF IndInv, FileInv, UserKept, CountInv
<1>3. ProcsInv'
  <2>1. \A q \in Procs : ProcInv(q)'
    BY <1>1 DEF IndInv, ProcsInv, ProcInv
  <2>2. QED BY <1>1, <2>1 DEF IndInv, ProcsInv
<1>4. QED BY <1>1, <1>2, <1>3 DEF IndInv

(* The temporary file is created broken, and filled whole.                  *)
LEMMA TempInv ==
  ASSUME IndInv, NEW p \in Procs, CreateTemp(p) \/ Fill(p)
  PROVE  IndInv'
<1>1. UNCHANGED <<host, file, plan, seen, mine, edits, raced, crashes>>
  BY DEF CreateTemp, Fill, user
<1>2. FileInv' /\ CountInv'
  BY <1>1 DEF IndInv, FileInv, UserKept, CountInv
<1>3. /\ DOMAIN temps' = Procs /\ DOMAIN pc' = Procs
      /\ DOMAIN plan' = Procs /\ DOMAIN seen' = Procs
  BY <1>1 DEF IndInv, ProcsInv, CreateTemp, Fill, Goto
<1>4. ASSUME NEW q \in Procs PROVE ProcInv(q)'
  <2>1. ProcInv(q)
    BY DEF IndInv, ProcsInv
  <2>2. CASE q = p
    <3>1. \/ pc[q] = "write" /\ pc'[q] = "fill" /\ temps'[q] = Broken
          \/ pc[q] = "fill" /\ pc'[q] = "rename" /\ temps'[q] = plan[q]
      BY <2>2 DEF CreateTemp, Fill, Goto, IndInv, ProcsInv
    <3>2. QED BY <1>1, <2>1, <3>1 DEF ProcInv
  <2>3. CASE q # p
    <3>1. temps'[q] = temps[q] /\ pc'[q] = pc[q]
      BY <2>3 DEF CreateTemp, Fill, Goto, IndInv, ProcsInv
    <3>2. QED BY <1>1, <2>1, <3>1, OtherKeeps DEF user
  <2>4. QED BY <2>2, <2>3
<1>5. QED BY <1>1, <1>2, <1>3, <1>4 DEF IndInv, ProcsInv

(* What replaces the file is the document a process has planned.            *)
LEMMA WritesInv ==
  ASSUME IndInv, NEW p \in Procs, Rename(p) \/ RemoveFile(p)
  PROVE  IndInv'
<1>1. /\ UNCHANGED <<host, user, crashes>> /\ Exit(p) /\ Overwrites(p)
      /\ pc[p] \in {"rename", "remove"} /\ ProcInv(p)
  BY DEF Rename, RemoveFile, IndInv, ProcsInv
<1>2. host' = host /\ mine' = mine /\ edits' = edits /\ raced' \in BOOLEAN
      /\ (raced => raced') /\ (~raced' => (~raced /\ seen[p] = edits))
  BY <1>1 DEF Overwrites, user, IndInv
<1>3. /\ (file' = Absent \/ IsDoc(file'))
      /\ loadSettings(file') = plan[p] /\ UserPart(host, file') = UserPart(host, plan[p])
  <2>1. CASE Rename(p)
    <3>1. file' = plan[p] /\ IsDoc(plan[p])
      BY <1>1, <2>1 DEF Rename, ProcInv
    <3>2. QED BY <3>1, DocLoads
  <2>2. CASE RemoveFile(p)
    <3>1. file' = Absent /\ plan[p] = EmptyDoc
      BY <1>1, <2>2 DEF RemoveFile, ProcInv
    <3>2. loadSettings(file') = plan[p]
      BY <3>1 DEF loadSettings
    <3>3. UserPart(host, loadSettings(Absent)) = UserPart(host, Absent)
      BY SamePart
    <3>4. QED BY <3>1, <3>2, <3>3
  <2>3. QED BY <2>1, <2>2
<1>4. FileInv'
  <2>1. Wired(host, plan[p])
    BY <1>1 DEF ProcInv
  <2>2. ~raced' => UserPart(host, plan[p]) = mine
    BY <1>1, <1>2 DEF ProcInv
  <2>3. QED BY <1>2, <1>3, <2>1, <2>2 DEF FileInv, UserKept
<1>5. file' # Broken
  BY <1>3, DocLoads, ValuesAssumption
<1>6. ProcsInv'
  BY <1>1, <1>2, <1>5, ExitKeeps
<1>7. CountInv'
  BY <1>1 DEF IndInv, CountInv, user
<1>8. QED BY <1>2, <1>4, <1>6, <1>7 DEF IndInv

(* A process that fails or dies leaves the file alone.                      *)
LEMMA EndsInv ==
  ASSUME IndInv, NEW p \in Procs, WriteFails(p) \/ RemoveFails(p) \/ Crash(p)
  PROVE  IndInv'
<1>1. /\ UNCHANGED <<host, file, user, raced>> /\ Exit(p)
  BY DEF WriteFails, RemoveFails, Crash
<1>2. FileInv'
  BY <1>1 DEF IndInv, FileInv, UserKept, user
<1>3. ProcsInv'
  BY <1>1, ExitKeeps
<1>4. CountInv'
  BY <1>1 DEF IndInv, CountInv, user
<1>5. QED BY <1>1, <1>2, <1>3, <1>4 DEF IndInv

(* A save makes every plan that was read before it an old one.              *)
LEMMA SaveInv ==
  ASSUME IndInv, loads(file), NEW doc \in Saves(loadSettings(file)), Save(doc)
  PROVE  IndInv'
<1>1. IsDoc(doc) /\ Wired(host, doc)
  BY FileIsDoc, SavesWired DEF IndInv
<1>2. /\ UNCHANGED <<host, temps, pc, plan, seen, raced, crashes>>
      /\ file' = doc /\ mine' = UserPart(host, doc) /\ edits' = edits + 1 /\ edits \in Nat
  BY DEF Save, process, IndInv, CountInv
<1>3. FileInv'
  BY <1>1, <1>2, DocLoads DEF FileInv, UserKept
<1>4. ProcsInv'
  <2>1. ASSUME NEW q \in Procs PROVE ProcInv(q)'
    <3>1. ProcInv(q)
      BY DEF IndInv, ProcsInv
    <3>2. doc # Broken
      BY <1>1, DocLoads
    <3>3. seen[q] \in 0 .. edits + 1 /\ seen[q] # edits + 1
      BY <3>1, <1>2 DEF ProcInv
    <3>4. QED BY <1>2, <3>1, <3>2, <3>3 DEF ProcInv
  <2>2. QED BY <1>2, <2>1 DEF IndInv, ProcsInv
<1>5. CountInv'
  BY <1>2 DEF IndInv, CountInv
<1>6. QED BY <1>2, <1>3, <1>4, <1>5 DEF IndInv

(* Every step keeps it.                                                     *)
LEMMA NextInv == IndInv /\ [Next]_vars => IndInv'
<1> SUFFICES ASSUME IndInv, [Next]_vars PROVE IndInv'
  OBVIOUS
<1>1. CASE \E p \in Procs : Step(p)
  <2>1. PICK p \in Procs : Step(p)
    BY <1>1
  <2>2. CASE \E enabled \in Enabled : Install(p, enabled)
    BY <2>2, InstallInv
  <2>3. CASE Uninstall(p)
    BY <2>3, UninstallInv
  <2>4. CASE EndsEarly(p)
    BY <2>4, EndsEarlyInv DEF EndsEarly
  <2>5. CASE CreateTemp(p) \/ Fill(p)
    BY <2>5, TempInv
  <2>6. CASE Rename(p) \/ RemoveFile(p)
    BY <2>6, WritesInv
  <2>7. CASE WriteFails(p) \/ RemoveFails(p) \/ Crash(p)
    BY <2>7, EndsInv
  <2>8. QED BY <2>1, <2>2, <2>3, <2>4, <2>5, <2>6, <2>7 DEF Step
<1>2. CASE loads(file) /\ \E doc \in Saves(loadSettings(file)) : Save(doc)
  BY <1>2, SaveInv
<1>3. CASE UNCHANGED vars
  BY <1>3, EndsEarlyInv DEF vars
<1>4. QED BY <1>1, <1>2, <1>3 DEF Next

(* The inductive invariant holds in every reachable state.                  *)
THEOREM SettingsIndInv == Spec => []IndInv
BY InitInv, NextInv, PTL DEF Spec

-----------------------------------------------------------------------------
(* Theorems *)

(* Every variable keeps its type.                                           *)
THEOREM TypeCorrect == Spec => []TypeOK
<1>1. IndInv => TypeOK
  BY DEF IndInv, FileInv, ProcsInv, ProcInv, CountInv, TypeOK, AllHosts
<1>2. QED BY <1>1, SettingsIndInv, PTL

(* However installs and uninstalls interleave, fail and die, the user's     *)
(* entries and keys stay as saved, until a command writes over a save it    *)
(* has not read.                                                            *)
THEOREM UserKeptHolds == Spec => []UserKept
<1>1. IndInv => UserKept
  BY DEF IndInv, FileInv
<1>2. QED BY <1>1, SettingsIndInv, PTL

(* A hook is wired under all of its native keys, once under each, or under  *)
(* none.                                                                    *)
THEOREM WiredAsOneHolds == Spec => []WiredAsOne
<1>1. IndInv => WiredAsOne
  <2> SUFFICES ASSUME IndInv, loads(file),
                      NEW s \in Specs(host), NEW key \in ToSet(s.nativeKeys)
               PROVE  Cardinality(ManagedAt(loadSettings(file), key)) =
                        IF s.canonical \in installedHooks(host, loadSettings(file))
                        THEN 1 ELSE 0
    BY DEF WiredAsOne
  <2> DEFINE doc == loadSettings(file)
             first == s.nativeKeys[1]
  <2>1. Wired(host, doc) /\ host \in AllHosts
    BY FileIsDoc DEF IndInv
  <2>2. first \in ToSet(s.nativeKeys) /\ s.canonical \in AllHooks
    BY <2>1, SpecsApart
  <2>3. \A t \in Specs(host) : t.canonical = s.canonical => t = s
    BY <2>1, SpecsApart
  <2> HIDE DEF doc
  <2>4. s.canonical \in installedHooks(host, doc)
          <=> \E i \in DOMAIN At(doc, first) : isLockieManaged(At(doc, first)[i])
    BY <2>2, <2>3 DEF installedHooks, At
  <2>5. ManagedAt(doc, key) = {i \in DOMAIN At(doc, key) : isLockieManaged(At(doc, key)[i])}
    BY DEF ManagedAt, At
  <2>6. CASE \A k \in ToSet(s.nativeKeys) : Once(At(doc, k))
    <3>1. PICK i \in DOMAIN At(doc, key) :
            \A j \in DOMAIN At(doc, key) : isLockieManaged(At(doc, key)[j]) <=> j = i
      BY <2>6 DEF Once
    <3>2. ManagedAt(doc, key) = {i}
      BY <2>5, <3>1
    <3>3. Cardinality(ManagedAt(doc, key)) = 1
      BY <3>2, FS_Singleton
    <3>4. s.canonical \in installedHooks(host, doc)
      BY <2>2, <2>4, <2>6 DEF Once
    <3>5. QED BY <3>3, <3>4 DEF doc
  <2>7. CASE \A k \in ToSet(s.nativeKeys) : Never(At(doc, k))
    <3>1. ManagedAt(doc, key) = {}
      BY <2>5, <2>7 DEF Never
    <3>2. Cardinality(ManagedAt(doc, key)) = 0
      BY <3>1, FS_EmptySet
    <3>3. s.canonical \notin installedHooks(host, doc)
      BY <2>2, <2>4, <2>7 DEF Never
    <3>4. QED BY <3>2, <3>3 DEF doc
  <2>8. QED BY <2>1, <2>6, <2>7 DEF Wired
<1>2. QED BY <1>1, SettingsIndInv, PTL

(* Installing twice is installing once, whatever the file holds.            *)
THEOREM InstallTwiceHolds == Spec => []InstallTwice
<1>1. IndInv => InstallTwice
  BY FileIsDoc, InstalledTwice DEF InstallTwice, IndInv
<1>2. QED BY <1>1, SettingsIndInv, PTL

(* An uninstall undoes an install.                                          *)
THEOREM UninstallUndoesHolds == Spec => []UninstallUndoes
<1>1. IndInv => UninstallUndoes
  <2> SUFFICES ASSUME IndInv, loads(file) PROVE UninstallUndoes
    BY DEF UninstallUndoes
  <2> DEFINE doc  == loadSettings(file)
             once == mergeInstall(host, doc, AllHooks)
             both == mergeUninstall(host, once)
  <2>1. IsDoc(doc) /\ host \in AllHosts
    BY FileIsDoc DEF IndInv
  <2> HIDE DEF doc
  <2>2. IsDoc(once) /\ UserPart(host, once) = UserPart(host, doc)
    BY <2>1, Installed, InstallKeeps
  <2>3. Untouched(doc) => both = [doc EXCEPT !.top = versioned(host, @)]
    BY <2>1, UndoneUntouched
  <2> HIDE DEF once
  <2>4. installedHooks(host, both) = {} /\ UserPart(host, both) = UserPart(host, once)
    BY <2>1, <2>2, UninstallClears, UninstallKeeps
  <2>5. QED BY <2>2, <2>3, <2>4 DEF UninstallUndoes, doc, once
<1>2. QED BY <1>1, SettingsIndInv, PTL

(* No reader sees less than a whole document: whatever fails, a command     *)
(* leaves the file alone until it replaces it by the document it planned.   *)
THEOREM FileWholeHolds == Spec => FileWhole
<1> DEFINE WholeStep ==
             file' # file /\ edits' = edits =>
               /\ loads(file')
               /\ \E p \in Procs : /\ pc[p] \in {"rename", "remove"}
                                   /\ plan[p] = loadSettings(file')
<1>1. IndInv /\ [Next]_vars => [WholeStep]_vars
  <2> SUFFICES ASSUME IndInv, Next, file' # file, edits' = edits
               PROVE  WholeStep
    OBVIOUS
  <2>1. ~\E doc \in Saves(loadSettings(file)) : Save(doc)
    BY DEF Save, IndInv, CountInv
  <2>2. PICK p \in Procs : Step(p)
    BY <2>1 DEF Next
  <2>3. Rename(p) \/ RemoveFile(p)
    BY <2>2 DEF Step, Install, Uninstall, EndsEarly, CreateTemp, Fill, WriteFails,
      RemoveFails, Crash
  <2>4. ProcInv(p) /\ pc[p] \in {"rename", "remove"}
    BY <2>3 DEF IndInv, ProcsInv, Rename, RemoveFile
  <2>5. CASE Rename(p)
    <3>1. file' = plan[p] /\ IsDoc(plan[p])
      BY <2>4, <2>5 DEF Rename, ProcInv
    <3>2. QED BY <2>4, <3>1, LoadsDoc, DocLoads
  <2>6. CASE RemoveFile(p)
    <3>1. file' = Absent /\ plan[p] = EmptyDoc
      BY <2>4, <2>6 DEF RemoveFile, ProcInv
    <3>2. loads(file') /\ loadSettings(file') = EmptyDoc
      BY <3>1, LoadsDoc DEF loadSettings
    <3>3. QED BY <2>4, <3>1, <3>2
  <2>7. QED BY <2>3, <2>5, <2>6
<1>2. QED BY <1>1, SettingsIndInv, PTL DEF Spec, FileWhole
=============================================================================
