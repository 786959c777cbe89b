------------------------- MODULE HookCommandProofs ---------------------------
(* Theorems about HookCommand for any events, sessions and secrets, and any *)
(* number of hook processes, deaths of the daemon and failing writes.       *)
EXTENDS HookCommand, SessionMapProofs, GoSlicesProofs, TLAPS

-----------------------------------------------------------------------------
(* Events *)

AllEvents == Events \cup LoneEvents

(* A host that is recognised is the right one: Claude Code names the hook   *)
(* under a key of its own, and Cursor its session.                          *)
LEMMA RightAgent ==
  ASSUME NEW e \in AllEvents, resolveAgent(e) # "none"
  PROVE  resolveAgent(e) = e.host
BY EventsAssumption DEF AllEvents, IsEvent, Hosts, resolveAgent, Keys

(* Its adapter reads the session id the host gave.                          *)
LEMMA RightId ==
  ASSUME NEW e \in AllEvents, resolveAgent(e) # "none"
  PROVE  decodedId(resolveAgent(e), e) = e.sid
BY EventsAssumption
  DEF AllEvents, IsEvent, Hosts, resolveAgent, Keys, decodedId, IsNamed

(* A secret is neither empty nor a name, so what is no secret stays apart.  *)
LEMMA NoneIsSecret ==
  /\ Empty \notin Literals /\ NotString \notin Literals
  /\ Empty \notin Names
  /\ \A v \in Literals : v \notin Names
BY ValuesAssumption

-----------------------------------------------------------------------------
(* Strings of a payload *)

(* Of two strings, the first counts unless it is empty.                     *)
LEMMA FirstOfTwo ==
  ASSUME NEW a, NEW b
  PROVE  firstNonEmpty(<<a, b>>) = IF a # Empty THEN a ELSE b
<1> DEFINE vals == <<a, b>>
           full == {i \in DOMAIN vals : vals[i] # Empty}
<1>1. DOMAIN vals = {1, 2} /\ vals[1] = a /\ vals[2] = b
  OBVIOUS
<1>2. CASE a # Empty
  <2>1. (CHOOSE i \in full : \A j \in full : i <= j) = 1
    BY <1>1, <1>2
  <2>2. QED BY <1>1, <1>2, <2>1 DEF firstNonEmpty
<1>3. CASE a = Empty /\ b # Empty
  <2>1. full = {2}
    BY <1>1, <1>3
  <2>2. (CHOOSE i \in full : \A j \in full : i <= j) = 2
    BY <2>1
  <2>3. QED BY <1>1, <1>3, <2>1, <2>2 DEF firstNonEmpty
<1>4. CASE a = Empty /\ b = Empty
  <2>1. full = {}
    BY <1>1, <1>4
  <2>2. QED BY <1>4, <2>1 DEF firstNonEmpty
<1>5. QED BY <1>2, <1>3, <1>4

(* The string a host is given in place of several is one of them, and the   *)
(* first one if that is not empty.                                          *)
LEMMA PrimaryIsOne ==
  ASSUME NEW out
  PROVE  /\ primaryOutputText(out) = Empty \/ \E slot \in Slots : primaryOutputText(out) = out[slot]
         /\ out["content"] # Empty => primaryOutputText(out) = out["content"]
<1> DEFINE vals == <<out["content"], out["stdout"], out["stderr"], out["diff"]>>
           full == {i \in DOMAIN vals : vals[i] # Empty}
           first == CHOOSE i \in full : \A j \in full : i <= j
<1>1. /\ DOMAIN vals = {1, 2, 3, 4}
      /\ vals[1] = out["content"] /\ vals[2] = out["stdout"]
      /\ vals[3] = out["stderr"] /\ vals[4] = out["diff"]
  OBVIOUS
<1>2. primaryOutputText(out) = IF full = {} THEN Empty ELSE vals[first]
  BY DEF primaryOutputText, firstNonEmpty
<1>3. full \subseteq {1, 2, 3, 4}
  BY <1>1
<1>4. ASSUME full # {} PROVE first \in full
  <2> HIDE DEF full, vals
  <2>1. \E i \in full : \A j \in full : i <= j
    <3>1. CASE 1 \in full
      BY <1>3, <3>1
    <3>2. CASE 1 \notin full /\ 2 \in full
      BY <1>3, <3>2
    <3>3. CASE 1 \notin full /\ 2 \notin full /\ 3 \in full
      BY <1>3, <3>3
    <3>4. CASE full = {4}
      BY <3>4
    <3>5. QED BY <1>3, <1>4, <3>1, <3>2, <3>3, <3>4
  <2>2. QED BY <2>1
<1>5. ASSUME out["content"] # Empty PROVE full # {} /\ first = 1
  <2>1. 1 \in full
    BY <1>1, <1>5
  <2> HIDE DEF full
  <2>2. \A i \in full : (\A j \in full : i <= j) => i = 1
    BY <1>3, <2>1
  <2>3. \A j \in full : 1 <= j
    BY <1>3
  <2>4. QED BY <2>1, <2>2, <2>3
<1> HIDE DEF vals, first, full
<1>6. out["content"] # Empty => primaryOutputText(out) = out["content"]
  BY <1>1, <1>2, <1>5
<1>7. primaryOutputText(out) = Empty \/ \E slot \in Slots : primaryOutputText(out) = out[slot]
  BY <1>1, <1>2, <1>3, <1>4 DEF Slots
<1>8. QED BY <1>6, <1>7

-----------------------------------------------------------------------------
(* Redaction *)

Sound(s) == IsSession(s) /\ Consistent(s)

(* t knows all that s knows *)
Extends(s, t) ==
  \A m \in DOMAIN s.byName : m \in DOMAIN t.byName /\ t.byName[m] = s.byName[m]

(* The placeholders of a redaction under way are the session's              *)
SoundNames(s, names) ==
  /\ names \in Seq(Names)
  /\ \A i \in DOMAIN names : Registered(s, names[i])

UnderWay(d) ==
  /\ d = [session |-> d.session, out |-> d.out, names |-> d.names]
  /\ Sound(d.session) /\ SoundNames(d.session, d.names)

(* f comes after d: it keeps what d had found                               *)
Follows(d, f) ==
  /\ Extends(d.session, f.session)
  /\ \A i \in DOMAIN d.names : i \in DOMAIN f.names /\ f.names[i] = d.names[i]

(* w stands for v: v itself, or the name of the secret v                    *)
StandsFor(d, v, w) ==
  IF v \in Literals
  THEN /\ w \in {d.names[i] : i \in DOMAIN d.names}
       /\ Registered(d.session, w) /\ ResolveAlias(d.session, w) = v
  ELSE w = v

(* What stands for a string goes on to, as the redaction goes on.           *)
LEMMA StandsStill ==
  ASSUME NEW d, NEW f, Follows(d, f), NEW v, NEW w, StandsFor(d, v, w)
  PROVE  StandsFor(f, v, w)
BY DEF Follows, Extends, StandsFor, Registered, ResolveAlias

(* One string: a secret gets its name, and the names of those before stay.  *)
LEMMA RedactedSound ==
  ASSUME NEW d, UnderWay(d), NEW slot, NEW v
  PROVE  LET r == Redacted(d, slot, v) IN
         /\ UnderWay(r) /\ Follows(d, r)
         /\ r.out = MapPut(d.out, slot, r.out[slot])
         /\ StandsFor(r, v, r.out[slot])
         /\ r.names = << >> <=> d.names = << >> /\ v \notin Literals
<1> DEFINE r == Redacted(d, slot, v)
<1>1. CASE v \notin Literals
  <2>1. r = [session |-> d.session, out |-> MapPut(d.out, slot, v), names |-> d.names]
    BY <1>1 DEF Redacted, UnderWay
  <2> HIDE DEF r
  <2>2. r.out[slot] = v /\ r.out = MapPut(d.out, slot, v)
    BY <2>1 DEF MapPut
  <2>3. r.session = d.session /\ r.names = d.names
    BY <2>1
  <2>4. UnderWay(r) /\ Follows(d, r)
    BY <2>1, <2>3 DEF UnderWay, Follows, Extends
  <2>5. QED BY <1>1, <2>2, <2>3, <2>4 DEF StandsFor, r
<1>2. CASE v \in Literals
  <2> DEFINE p == PlaceholderFor(d.session, v, "S")
  <2>1. r = [session |-> p.session, out |-> MapPut(d.out, slot, p.name),
             names |-> Append(d.names, p.name)]
    BY <1>2 DEF Redacted
  <2>2. /\ Sound(p.session) /\ Extends(d.session, p.session)
        /\ p.name \in Names
        /\ Registered(p.session, p.name) /\ ResolveAlias(p.session, p.name) = v
    BY <1>2, PlaceholderForSound, PrefixAssumption
      DEF UnderWay, Sound, Extends, Registered, ResolveAlias
  <2> HIDE DEF r, p
  <2>3. r.out[slot] = p.name /\ r.out = MapPut(d.out, slot, p.name)
    BY <2>1 DEF MapPut
  <2>4. d.names \in Seq(Names)
    BY DEF UnderWay, SoundNames
  <2>5. /\ r.names \in Seq(Names)
        /\ DOMAIN r.names = DOMAIN d.names \cup {Len(d.names) + 1}
        /\ r.names[Len(d.names) + 1] = p.name
        /\ \A i \in DOMAIN d.names : r.names[i] = d.names[i]
    BY <2>1, <2>2, <2>4
  <2>6. Follows(d, r)
    BY <2>1, <2>2, <2>5 DEF Follows
  <2>7. \A i \in DOMAIN r.names : Registered(r.session, r.names[i])
    BY <2>1, <2>2, <2>5 DEF UnderWay, SoundNames, Extends, Registered
  <2>8. UnderWay(r)
    BY <2>1, <2>2, <2>5, <2>7 DEF UnderWay, SoundNames
  <2>9. StandsFor(r, v, r.out[slot])
    BY <1>2, <2>1, <2>2, <2>3, <2>5 DEF StandsFor
  <2>10. r.names # << >>
    BY <2>5
  <2>11. QED BY <1>2, <2>3, <2>6, <2>8, <2>9, <2>10 DEF r
<1>3. QED BY <1>1, <1>2

(* A redaction that starts in a sound session is under way.                 *)
LEMMA NothingYetSound ==
  ASSUME NEW s, Sound(s)
  PROVE  UnderWay(NothingYet(s)) /\ NothingYet(s).names = << >>
BY DEF NothingYet, UnderWay, SoundNames

(* Redactions follow on each other.                                        *)
LEMMA FollowsTransitive ==
  ASSUME NEW d, NEW f, NEW g, Follows(d, f), Follows(f, g)
  PROVE  Follows(d, g)
BY DEF Follows, Extends

(* Each field of a tool's answer becomes what stands for it, and there are  *)
(* names to log exactly if there was a secret.                              *)
LEMMA RedactOutputSound ==
  ASSUME NEW s, Sound(s), NEW m
  PROVE  LET r == redactOutput(s, m) IN
         /\ UnderWay(r) /\ Extends(s, r.session)
         /\ DOMAIN r.out = Slots
         /\ \A slot \in Slots : StandsFor(r, m[slot], r.out[slot])
         /\ r.names = << >> <=> \A slot \in Slots : m[slot] \notin Literals
<1> DEFINE z == NothingYet(s)
           a == Redacted(z, "stdout", m["stdout"])
           b == Redacted(a, "stderr", m["stderr"])
           c == Redacted(b, "content", m["content"])
           r == Redacted(c, "diff", m["diff"])
<1>1. redactOutput(s, m) = r
  BY DEF redactOutput
<1>2. /\ UnderWay(z) /\ z.names = << >> /\ z.session = s /\ z.out = EmptyMap
  BY NothingYetSound DEF NothingYet
<1>3. /\ UnderWay(a) /\ Follows(z, a)
      /\ a.out = MapPut(z.out, "stdout", a.out["stdout"])
      /\ StandsFor(a, m["stdout"], a.out["stdout"])
      /\ a.names = << >> <=> z.names = << >> /\ m["stdout"] \notin Literals
  BY <1>2, RedactedSound
<1>4. /\ UnderWay(b) /\ Follows(a, b)
      /\ b.out = MapPut(a.out, "stderr", b.out["stderr"])
      /\ StandsFor(b, m["stderr"], b.out["stderr"])
      /\ b.names = << >> <=> a.names = << >> /\ m["stderr"] \notin Literals
  BY <1>3, RedactedSound
<1>5. /\ UnderWay(c) /\ Follows(b, c)
      /\ c.out = MapPut(b.out, "content", c.out["content"])
      /\ StandsFor(c, m["content"], c.out["content"])
      /\ c.names = << >> <=> b.names = << >> /\ m["content"] \notin Literals
  BY <1>4, RedactedSound
<1>6. /\ UnderWay(r) /\ Follows(c, r)
      /\ r.out = MapPut(c.out, "diff", r.out["diff"])
      /\ StandsFor(r, m["diff"], r.out["diff"])
      /\ r.names = << >> <=> c.names = << >> /\ m["diff"] \notin Literals
  BY <1>5, RedactedSound
<1> HIDE DEF z, a, b, c, r
<1>7. Follows(b, r) /\ Follows(a, r) /\ Follows(z, r)
  BY <1>3, <1>4, <1>5, <1>6, FollowsTransitive
<1>8. /\ DOMAIN r.out = Slots
      /\ r.out["stdout"] = a.out["stdout"] /\ r.out["stderr"] = b.out["stderr"]
      /\ r.out["content"] = c.out["content"]
  BY <1>2, <1>3, <1>4, <1>5, <1>6 DEF MapPut, EmptyMap, Slots
<1>9. \A slot \in Slots : StandsFor(r, m[slot], r.out[slot])
  BY <1>3, <1>4, <1>5, <1>6, <1>7, <1>8, StandsStill DEF Slots
<1>10. r.names = << >> <=> \A slot \in Slots : m[slot] \notin Literals
  BY <1>2, <1>3, <1>4, <1>5, <1>6 DEF Slots
<1>11. QED BY <1>1, <1>2, <1>6, <1>7, <1>8, <1>9, <1>10 DEF Follows
-----------------------------------------------------------------------------
(* What the daemon answers *)

(* A prompt's answer has a name in place of a secret                        *)
PromptRight(e, r) ==
  /\ r.modified <=> stringField(e.payload, "text") \in Literals
  /\ r.modified => DOMAIN r.out = {"text"} /\ r.out["text"] \in Names

(* So has each field of a tool's answer, and the name is that secret's      *)
PostRight(e, r) ==
  LET d == decodedOutput(e.host, e)
  IN  /\ r.modified <=> \E slot \in Slots : d[slot] \in Literals
      /\ DOMAIN r.out = Slots
      /\ \A slot \in Slots :
           IF d[slot] \in Literals
           THEN /\ r.out[slot] \in Names \cap DOMAIN r.bound
                /\ r.bound[r.out[slot]] = d[slot]
           ELSE r.out[slot] = d[slot]

(* A tool's input gets back what is due to it                               *)
PreRight(e, r) ==
  \A due \in r.due :
    (IF r.modified THEN r.out[due[1]] ELSE e.payload[due[1]]) = due[2]

ReplyRight(e, r) ==
  /\ e.hook = "PromptSubmit" => PromptRight(e, r)
  /\ e.hook = "PostToolUse"  => PostRight(e, r)
  /\ e.hook = "PreToolUse"   => PreRight(e, r)

(* The prompt on the way back to its host.                                  *)
LEMMA PromptHidden ==
  ASSUME NEW e \in AllEvents, e.hook = "PromptSubmit", NEW r, PromptRight(e, r)
  PROVE  stringField(encodeResponse(e.host, e, r), "text") \notin Literals
BY NoneIsSecret DEF PromptRight, encodeResponse, stringField

(* What decoding takes of a field; of content it may take fileContent       *)
LEMMA DecodedField ==
  ASSUME NEW e \in AllEvents, e.kind = "object"
  PROVE  LET d == decodedOutput(e.host, e)
             m == e.payload
         IN  /\ \A slot \in Slots \ {"content"} : d[slot] = stringField(m, slot)
             /\ d["content"] =
                  IF stringField(m, "content") # Empty \/ e.host = "cursor"
                  THEN stringField(m, "content") ELSE stringField(m, "fileContent")
BY FirstOfTwo
  DEF decodedOutput, decodeToolOutput, decodeToolResponse, mapField, Slots

(* The tool's answer on the way back, from Claude's adapter: a field's own  *)
(* string, or the daemon's for it.                                          *)
LEMMA MergedField ==
  ASSUME NEW e \in AllEvents, e.hook = "PostToolUse", e.host = "claude-code",
         e.kind = "object", NEW r, PostRight(e, r), r.modified
  PROVE  LET form == encodeResponse(e.host, e, r)
             raw  == e.payload
             source(k) == IF k = "fileContent" THEN "content" ELSE k
         IN  /\ form = mergeToolOutput(raw, r.out)
             /\ DOMAIN raw \subseteq DOMAIN form
             /\ \A k \in DOMAIN form :
                  \/ /\ k \in Slots \cup {"fileContent"}
                     /\ r.out[source(k)] # Empty
                     /\ form[k] = r.out[source(k)]
                  \/ /\ k \in DOMAIN raw /\ form[k] = raw[k]
                     /\ k \in Slots \cup {"fileContent"} => r.out[source(k)] = Empty
BY DEF encodeResponse, encodeUpdatedToolOutput, mergeToolOutput

(* The daemon's string for a slot is empty only if the tool's is, and never *)
(* a secret.                                                                *)
LEMMA OutClean ==
  ASSUME NEW e, NEW r, PostRight(e, r), NEW slot \in Slots
  PROVE  /\ r.out[slot] \notin Literals
         /\ r.out[slot] = Empty <=> decodedOutput(e.host, e)[slot] = Empty
BY NoneIsSecret DEF PostRight

Decoded(e) ==
  {"stdout", "stderr", "content", "diff"} \cup
    (IF e.host = "cursor" THEN {}
     ELSE {"text"} \cup IF stringField(e.payload, "content") = Empty
                        THEN {"fileContent"} ELSE {})

(* The answer to post_tool hides every secret of a field that is decoded.   *)
LEMMA OutputHidden ==
  ASSUME NEW e \in AllEvents, e.hook = "PostToolUse", NEW r, PostRight(e, r),
         NEW k \in Decoded(e)
  PROVE  stringField(encodeResponse(e.host, e, r), k) \notin Literals
<1> DEFINE form == encodeResponse(e.host, e, r)
           d == decodedOutput(e.host, e)
<1>1. /\ e.host \in {"claude-code", "cursor"} /\ e.kind \in {"string", "object", "other"}
      /\ e.kind = "string" => DOMAIN e.payload = {"text"}
      /\ e.kind = "object" => DOMAIN e.payload \subseteq Fields
      /\ e.kind = "other" => DOMAIN e.payload = {}
  BY EventsAssumption DEF IsEvent, AllEvents, Hosts
<1>2. SUFFICES ASSUME k \in DOMAIN form PROVE form[k] \notin Literals
  BY NoneIsSecret DEF stringField
<1>3. CASE ~r.modified
  <2>1. form = e.payload /\ \A slot \in Slots : d[slot] \notin Literals
    BY <1>3 DEF encodeResponse, PostRight
  <2>2. CASE e.kind = "object"
    <3>1. k # "text" /\ stringField(e.payload, k) \notin Literals
      BY <1>1, <1>2, <2>1, <2>2, DecodedField, NoneIsSecret DEF Decoded, Slots, Fields
    <3>2. QED BY <1>2, <2>1, <3>1, NoneIsSecret DEF stringField
  <2>3. CASE e.kind = "string"
    <3>1. k = "text" /\ e.host = "claude-code"
      BY <1>1, <1>2, <2>1, <2>3 DEF Decoded
    <3>2. d["content"] = stringField(e.payload, "text")
      BY <2>3, <3>1 DEF decodedOutput, decodeToolResponse, mapField, NoOutput, Slots
    <3>3. QED BY <1>2, <2>1, <3>1, <3>2, NoneIsSecret DEF stringField, Slots
  <2>4. QED BY <1>1, <1>2, <2>1, <2>2, <2>3
<1>4. CASE r.modified /\ e.host = "cursor"
  <2>1. form = MapPut(EmptyMap, "content", primaryOutputText(r.out))
    BY <1>4 DEF encodeResponse, modifiedOutput
  <2>2. primaryOutputText(r.out) \notin Literals
    BY PrimaryIsOne, OutClean, NoneIsSecret
  <2>3. QED BY <1>2, <2>1, <2>2 DEF MapPut, EmptyMap
<1>5. CASE r.modified /\ e.host = "claude-code" /\ e.kind = "string"
  <2>1. form = MapPut(EmptyMap, "text", primaryOutputText(r.out))
    BY <1>5 DEF encodeResponse, encodeUpdatedToolOutput
  <2>2. primaryOutputText(r.out) \notin Literals
    BY PrimaryIsOne, OutClean, NoneIsSecret
  <2>3. QED BY <1>2, <2>1, <2>2 DEF MapPut, EmptyMap
<1>6. CASE r.modified /\ e.host = "claude-code" /\ e.kind = "object"
  <2> DEFINE source == IF k = "fileContent" THEN "content" ELSE k
  <2>1. CASE k \in Slots \cup {"fileContent"} /\ form[k] = r.out[source]
    <3>1. source \in Slots
      BY <2>1 DEF Slots
    <3>2. QED BY <2>1, <3>1, OutClean
  <2>2. CASE /\ k \in DOMAIN e.payload /\ form[k] = e.payload[k]
             /\ k \in Slots \cup {"fileContent"} => r.out[source] = Empty
    <3>1. k \in Slots \cup {"fileContent"}
      BY <1>1, <1>6, <2>2 DEF Decoded, Fields, Slots
    <3>2. source \in Slots /\ d[source] = Empty
      BY <2>2, <3>1, OutClean DEF Slots
    <3>3. stringField(e.payload, k) = Empty
      BY <1>6, <3>1, <3>2, DecodedField DEF Decoded, Slots
    <3>4. QED BY <2>2, <3>3, NoneIsSecret DEF stringField
  <2>3. QED
    BY <1>2, <1>6, <2>1, <2>2, MergedField
<1>7. CASE r.modified /\ e.kind = "other"
  <2>1. \A slot \in Slots : d[slot] = Empty
    BY <1>1, <1>7 DEF decodedOutput, decodeToolOutput, decodeToolResponse, NoOutput
  <2>2. QED BY <1>7, <2>1, NoneIsSecret DEF PostRight
<1>8. QED BY <1>1, <1>3, <1>4, <1>5, <1>6, <1>7

(* The text of a field of a tool's answer; content and fileContent have one *)
Own(raw, k) ==
  IF k \in {"content", "fileContent"}
  THEN firstNonEmpty(<<stringField(raw, "content"), stringField(raw, "fileContent")>>)
  ELSE stringField(raw, k)

(* The answer of Claude's adapter has every field of the tool's answer, and *)
(* in place of a secret the name of that secret.                            *)
LEMMA OutputKept ==
  ASSUME NEW e \in AllEvents, e.hook = "PostToolUse", e.host = "claude-code",
         NEW r, PostRight(e, r)
  PROVE  LET raw  == e.payload
             form == encodeResponse(e.host, e, r)
         IN  /\ DOMAIN raw \subseteq DOMAIN form
             /\ \A k \in DOMAIN form :
                  \/ k \in DOMAIN raw /\ form[k] = raw[k]
                  \/ form[k] = Own(raw, k)
                  \/ form[k] \in Names /\ r.bound[form[k]] = Own(raw, k)
<1> DEFINE raw  == e.payload
           form == encodeResponse(e.host, e, r)
           d == decodedOutput(e.host, e)
<1>1. /\ e.kind \in {"string", "object", "other"}
      /\ e.kind = "string" => DOMAIN raw = {"text"}
      /\ e.kind = "other" => DOMAIN raw = {}
  BY EventsAssumption DEF IsEvent, AllEvents, Hosts
<1>2. CASE ~r.modified
  BY <1>2 DEF encodeResponse
<1>3. CASE r.modified /\ e.kind = "string"
  <2>1. form = MapPut(EmptyMap, "text", primaryOutputText(r.out))
    BY <1>3 DEF encodeResponse, encodeUpdatedToolOutput
  <2>2. d = [NoOutput EXCEPT !["content"] = stringField(raw, "text")]
    BY <1>3 DEF decodedOutput, decodeToolResponse, mapField
  <2>3. d["content"] \in Literals
    BY <1>3, <2>2, NoneIsSecret DEF PostRight, NoOutput, Slots
  <2>4. r.out["content"] \in Names /\ r.bound[r.out["content"]] = d["content"]
    BY <2>3 DEF PostRight, Slots
  <2>5. form["text"] = r.out["content"] /\ DOMAIN form = {"text"}
    BY <2>1, <2>4, PrimaryIsOne, NoneIsSecret DEF MapPut, EmptyMap
  <2>6. Own(raw, "text") = d["content"]
    BY <2>2 DEF Own, NoOutput, Slots
  <2>7. QED BY <1>1, <1>3, <2>4, <2>5, <2>6
<1>4. CASE r.modified /\ e.kind = "object"
  <2>1. DOMAIN raw \subseteq DOMAIN form
    BY <1>4, MergedField
  <2>2. ASSUME NEW k \in DOMAIN form, ~(k \in DOMAIN raw /\ form[k] = raw[k])
        PROVE  \/ form[k] = Own(raw, k)
               \/ form[k] \in Names /\ r.bound[form[k]] = Own(raw, k)
    <3> DEFINE source == IF k = "fileContent" THEN "content" ELSE k
    <3>1. source \in Slots /\ form[k] = r.out[source]
      BY <1>4, <2>2, MergedField DEF Slots
    <3>2. k \in {"content", "fileContent"} <=> source = "content"
      OBVIOUS
    <3>3. d[source] = Own(raw, k)
      BY <1>4, <3>1, <3>2, DecodedField, FirstOfTwo DEF Own
    <3> HIDE DEF source
    <3>4. QED BY <3>1, <3>3 DEF PostRight
  <2>3. QED BY <2>1, <2>2
<1>5. CASE r.modified /\ e.kind = "other"
  <2>1. \A slot \in Slots : d[slot] = Empty
    BY <1>5 DEF decodedOutput, decodeToolResponse, NoOutput
  <2>2. QED BY <1>5, <2>1, NoneIsSecret DEF PostRight
<1>6. QED BY <1>1, <1>2, <1>3, <1>4, <1>5
-----------------------------------------------------------------------------
(* The inductive invariant *)

(* Processes are numbered in the order in which the host starts them        *)
ProcInv ==
  /\ fired \in Nat
  /\ ev = [n \in All |-> ev[n]] /\ pc = [n \in All |-> pc[n]]
  /\ sid = [n \in All |-> sid[n]] /\ conn = [n \in All |-> conn[n]]
  /\ view = [n \in All |-> view[n]]
  /\ \A n \in All : ev[n] \in AllEvents

(* The process knows whose event it has, and the id the host gave           *)
Known(n) ==
  /\ resolveAgent(ev[n]) = ev[n].host
  /\ IsNamed(ev[n]) => sid[n] = ev[n].sid

(* What a process may do before its hook call is over, and that there is    *)
(* one such call                                                            *)
PcInv ==
  \A n \in All :
    /\ pc[n] \in {"dial", "starting", "calling"} => Known(n)
    /\ pc[n] \in {"dial", "calling"} /\ ev[n].hook = "SessionStop" => IsNamed(ev[n])
    /\ pc[n] = "starting" => ev[n].hook # "SessionStop"
    /\ pc[n] = "calling" => ev[n].hook # "SessionStart"
    /\ pc[n] \in {"begin", "dial", "starting"} =>
         n \notin DOMAIN reply /\ <<n, "call">> \notin pending

PendingInv ==
  /\ pending \subseteq All \X {"start", "call"}
  /\ pending # {} => up
  /\ \A n \in All :
       /\ {<<n, "start">>, <<n, "call">>} \cap pending # {} => Known(n)
       /\ <<n, "call">> \in pending =>
            /\ n \notin DOMAIN reply
            /\ ev[n].hook # "SessionStart"
            /\ ev[n].hook = "SessionStop" => IsNamed(ev[n])

StartedInv ==
  /\ DOMAIN started \subseteq All
  /\ \A n \in DOMAIN started : IsNamed(ev[n]) => started[n] = ev[n].sid

DaemonInv ==
  /\ up \in BOOLEAN /\ life \in Nat
  /\ stops \in [SessionIds -> Nat]
  /\ \A id \in DOMAIN sessions : Sound(sessions[id])

(* A name that was told of a session stands for its secret as long as that  *)
(* session lives: its age then is the present one                           *)
Told(id, age, name, lit) ==
  /\ age = <<age[1], age[2]>> /\ age[1] \in Nat /\ age[2] \in Nat
  /\ age[1] <= life /\ age[2] <= stops[id]
  /\ up /\ age = <<life, stops[id]>> =>
       /\ id \in DOMAIN sessions
       /\ Registered(sessions[id], name)
       /\ ResolveAlias(sessions[id], name) = lit

ReplyTold(n) ==
  IsNamed(ev[n]) =>
    \A name \in DOMAIN reply[n].bound :
      Told(ev[n].sid, reply[n].age, name, reply[n].bound[name])

ReplyInv ==
  /\ DOMAIN reply \subseteq All
  /\ \A n \in DOMAIN reply : ReplyRight(ev[n], reply[n]) /\ ReplyTold(n)

ShownInv ==
  \A x \in shown :
    x.host # NoId => x.host \in SessionIds /\ Told(x.host, x.age, x.name, x.lit)

(* A process has printed what it made of its answer                         *)
PrintedInv ==
  \A n \in All :
    pc[n] = "printed" /\ ev[n].hook \in {"PromptSubmit", "PreToolUse", "PostToolUse"} =>
      /\ n \in DOMAIN reply
      /\ view[n] = encodeResponse(ev[n].host, ev[n], reply[n])

IndInv ==
  /\ ProcInv /\ PcInv /\ PendingInv /\ StartedInv /\ DaemonInv
  /\ ReplyInv /\ ShownInv /\ PrintedInv

(* No event yet.                                                            *)
LEMMA InitIndInv == Init => IndInv
<1> SUFFICES ASSUME Init PROVE IndInv
  OBVIOUS
<1>1. All = {} /\ DOMAIN reply = {} /\ DOMAIN started = {} /\ DOMAIN sessions = {}
  BY DEF Init, All, EmptyMap
<1>2. ProcInv /\ PcInv /\ PendingInv /\ StartedInv /\ PrintedInv
  BY <1>1 DEF Init, ProcInv, PcInv, PendingInv, StartedInv, PrintedInv
<1>3. DaemonInv /\ ReplyInv /\ ShownInv
  BY <1>1 DEF Init, DaemonInv, ReplyInv, ShownInv
<1>4. QED BY <1>2, <1>3 DEF IndInv

(* An event more at the end of a list of events.                            *)
LEMMA AppendOne ==
  ASSUME NEW n \in Nat, NEW s, s = [i \in 1 .. n |-> s[i]], NEW x
  PROVE  Append(s, x) = [i \in 1 .. n + 1 |-> IF i = n + 1 THEN x ELSE s[i]]
<1> DEFINE S == {s[i] : i \in 1 .. n} \cup {x}
<1>1. s \in [1 .. n -> S]
  OBVIOUS
<1>2. s \in Seq(S) /\ Len(s) = n
  BY <1>1
<1>3. QED BY <1>2

(* What was told stays true while the session lives on, whatever is added   *)
(* to it; and of a session that ended nothing is claimed.                   *)
LEMMA ToldKept ==
  ASSUME NEW id \in SessionIds, NEW age, NEW name, NEW lit,
         Told(id, age, name, lit), DaemonInv,
         \/ UNCHANGED <<up, life, stops>> /\ (id \in DOMAIN sessions =>
               id \in DOMAIN sessions' /\ Extends(sessions[id], sessions'[id]))
         \/ ~up' /\ UNCHANGED <<life, stops>>
         \/ life' = life + 1 /\ UNCHANGED stops
         \/ life' = life /\ up' = up /\ stops' = [stops EXCEPT ![id] = @ + 1]
  PROVE  Told(id, age, name, lit)'
<1>1. life \in Nat /\ stops[id] \in Nat
  BY DEF DaemonInv
<1>2. CASE UNCHANGED <<up, life, stops>> /\ (id \in DOMAIN sessions =>
               id \in DOMAIN sessions' /\ Extends(sessions[id], sessions'[id]))
  BY <1>2 DEF Told, Extends, Registered, ResolveAlias
<1>3. CASE ~up' /\ UNCHANGED <<life, stops>>
  BY <1>3 DEF Told
<1>4. CASE life' = life + 1 /\ UNCHANGED stops
  <2>1. age[1] < life'
    BY <1>1, <1>4 DEF Told
  <2>2. QED BY <1>1, <1>4, <2>1 DEF Told
<1>5. CASE life' = life /\ up' = up /\ stops' = [stops EXCEPT ![id] = @ + 1]
  <2>1. stops'[id] = stops[id] + 1
    BY <1>5 DEF DaemonInv
  <2>2. QED BY <1>1, <1>5, <2>1 DEF Told
<1>6. QED BY <1>2, <1>3, <1>4, <1>5
(* A named event has one of the hosts' session ids.                         *)
LEMMA NamedId ==
  ASSUME NEW e \in AllEvents, IsNamed(e)
  PROVE  e.sid \in SessionIds /\ e.sid # NoId
BY EventsAssumption DEF AllEvents, IsEvent, IsNamed

(* A step that adds no answer and shows nothing, and under which what was   *)
(* told stays true.                                                         *)
LEMMA TellsNothing ==
  ASSUME IndInv, UNCHANGED <<reply, shown>>,
         All \subseteq All', \A n \in All : ev'[n] = ev[n],
         \A id \in SessionIds : \A age, name, lit :
            Told(id, age, name, lit) => Told(id, age, name, lit)'
  PROVE  ReplyInv' /\ ShownInv'
<1>1. ReplyInv'
  <2>1. DOMAIN reply' \subseteq All'
    BY DEF IndInv, ReplyInv
  <2>2. ASSUME NEW n \in DOMAIN reply
        PROVE  ReplyRight(ev[n], reply[n]) /\ ReplyTold(n)'
    <3>1. n \in All /\ ReplyRight(ev[n], reply[n]) /\ ReplyTold(n)
      BY DEF IndInv, ReplyInv
    <3>2. ev'[n] = ev[n] /\ ev[n] \in AllEvents
      BY <3>1 DEF IndInv, ProcInv
    <3>3. ASSUME IsNamed(ev[n]), NEW name \in DOMAIN reply[n].bound
          PROVE  Told(ev[n].sid, reply[n].age, name, reply[n].bound[name])'
      <4>1. ev[n].sid \in SessionIds
        BY <3>2, <3>3, NamedId
      <4>2. Told(ev[n].sid, reply[n].age, name, reply[n].bound[name])
        BY <3>1, <3>3 DEF ReplyTold
      <4> DEFINE id == ev[n].sid
                 age == reply[n].age
                 lit == reply[n].bound[name]
      <4>3. id' = id /\ age' = age /\ lit' = lit
        BY <3>2
      <4> HIDE DEF id, age, lit
      <4>4. Told(id, age, name, lit)
        BY <4>2 DEF id, age, lit
      <4>5. id \in SessionIds
        BY <4>1 DEF id
      <4>6. Told(id, age, name, lit)'
        BY <4>3, <4>4, <4>5 DEF Told
      <4>7. QED BY <4>6 DEF id, age, lit
    <3>4. QED BY <3>1, <3>2, <3>3 DEF ReplyTold
  <2>3. QED BY <2>1, <2>2 DEF ReplyInv, IndInv
<1>2. ShownInv'
  BY DEF IndInv, ShownInv
<1>3. QED BY <1>1, <1>2
(* The daemon as it was, or with sessions that know more.                   *)
LEMMA TellsStill ==
  ASSUME IndInv, UNCHANGED <<up, life, stops, reply, shown>>,
         All \subseteq All', \A n \in All : ev'[n] = ev[n],
         \A id \in DOMAIN sessions :
           id \in DOMAIN sessions' /\ Extends(sessions[id], sessions'[id])
  PROVE  ReplyInv' /\ ShownInv'
<1>1. \A id \in SessionIds : \A age, name, lit :
        Told(id, age, name, lit) => Told(id, age, name, lit)'
  BY ToldKept DEF IndInv
<1>2. QED BY <1>1, TellsNothing

(* A session knows what it knows.                                          *)
LEMMA ExtendsSame == \A s : Extends(s, s)
BY DEF Extends

(* The host starts a process.                                               *)
LEMMA FireIndInv ==
  ASSUME IndInv, NEW e \in AllEvents, Fire(e)
  PROVE  IndInv'
<1> DEFINE k == fired + 1
<1>1. /\ fired \in Nat /\ fired' = k
      /\ All' = All \cup {k} /\ k \notin All
  BY DEF Fire, IndInv, ProcInv, All
<1>2. /\ ev'   = [n \in All' |-> IF n = k THEN e ELSE ev[n]]
      /\ pc'   = [n \in All' |-> IF n = k THEN "begin" ELSE pc[n]]
      /\ sid'  = [n \in All' |-> IF n = k THEN NoId ELSE sid[n]]
      /\ conn' = [n \in All' |-> IF n = k THEN 0 ELSE conn[n]]
      /\ view' = [n \in All' |-> IF n = k THEN e.payload ELSE view[n]]
  BY <1>1, AppendOne DEF Fire, IndInv, ProcInv, All
<1>3. UNCHANGED <<up, life, sessions, pending, started, reply, stops, shown>>
  BY DEF Fire, daemon
<1> HIDE DEF k
<1>4. \A n \in All : /\ n \in All' /\ n # k
                     /\ ev'[n] = ev[n] /\ pc'[n] = pc[n] /\ sid'[n] = sid[n]
                     /\ view'[n] = view[n]
  BY <1>1, <1>2
<1>5. k \in All' /\ ev'[k] = e /\ pc'[k] = "begin"
  BY <1>1, <1>2
<1>6. ProcInv'
  BY <1>1, <1>2 DEF IndInv, ProcInv, k
<1>7. PcInv'
  <2>1. k \notin DOMAIN reply /\ <<k, "call">> \notin pending
    BY <1>1 DEF IndInv, ReplyInv, PendingInv
  <2>2. ASSUME NEW n \in All
        PROVE  (pc[n] \in {"dial", "starting", "calling"} => Known(n)) =>
               (pc'[n] \in {"dial", "starting", "calling"} => Known(n)')
    BY <1>4 DEF Known
  <2>3. QED
    BY <1>1, <1>3, <1>4, <1>5, <2>1, <2>2 DEF IndInv, PcInv
<1>8. PendingInv'
  <2>1. ASSUME NEW n \in All' PROVE Known(n) /\ n \in All => Known(n)'
    BY <1>4 DEF Known
  <2>2. QED BY <1>1, <1>3, <1>4, <2>1 DEF IndInv, PendingInv
<1>9. StartedInv' /\ DaemonInv'
  BY <1>3, <1>4 DEF IndInv, StartedInv, DaemonInv
<1>10. ReplyInv' /\ ShownInv'
  BY <1>3, <1>4, TellsStill, ExtendsSame
<1>11. PrintedInv'
  BY <1>1, <1>3, <1>4, <1>5 DEF IndInv, PrintedInv
<1>12. QED BY <1>6, <1>7, <1>8, <1>9, <1>10, <1>11 DEF IndInv

(* A process recognises its host, or ends.                                  *)
LEMMA BeginIndInv ==
  ASSUME IndInv, NEW n \in All, Begin(n)
  PROVE  IndInv'
<1> USE DEF All
<1>1. /\ UNCHANGED <<fired, ev, conn, view, sessions, pending, started, reply, stops, shown>>
      /\ pc[n] = "begin"
      /\ sid' = [sid EXCEPT ![n] = decodedId(resolveAgent(ev[n]), ev[n])]
  BY DEF Begin
<1>a. up \in BOOLEAN /\ life \in Nat
  BY DEF IndInv, DaemonInv
<1>2. /\ \E label : pc' = [pc EXCEPT ![n] = label]
      /\ (up' = up /\ life' = life) \/ (life' = life + 1 /\ ~up /\ up' = TRUE)
  <2>1. CASE UNCHANGED <<up, life>>
    BY <2>1 DEF Begin, EnsureRunning, Goto
  <2>2. CASE up' = TRUE /\ life' = IF up THEN life ELSE life + 1
    <3>1. \E label : pc' = [pc EXCEPT ![n] = label]
      BY DEF Begin, EnsureRunning, Goto
    <3>2. CASE up
      BY <1>a, <2>2, <3>1, <3>2
    <3>3. CASE ~up
      BY <2>2, <3>1, <3>3
    <3>4. QED BY <3>2, <3>3
  <2>3. QED BY <2>1, <2>2 DEF Begin, EnsureRunning
<1>3. \/ pc'[n] = "failed"
      \/ pc'[n] = "printed" /\ ev[n].hook = "SessionStop"
      \/ /\ pc'[n] = "dial" /\ resolveAgent(ev[n]) # "none"
         /\ ev[n].hook = "SessionStop" =>
              decodedId(resolveAgent(ev[n]), ev[n]) # NoId
  BY DEF Begin, EnsureRunning, Goto, IndInv, ProcInv
<1>4. ev[n] \in AllEvents
  BY DEF IndInv, ProcInv
<1>5. ProcInv'
  BY <1>1, <1>2 DEF IndInv, ProcInv
<1>6. pc'[n] = "dial" => Known(n)' /\ (ev[n].hook = "SessionStop" => IsNamed(ev[n]))
  BY <1>1, <1>3, <1>4, RightAgent, RightId DEF Known, IsNamed, IndInv, ProcInv
<1>7. \A m \in All : m # n => pc'[m] = pc[m] /\ (Known(m) => Known(m)')
  BY <1>1, <1>2 DEF Known, IndInv, ProcInv
<1>8. PcInv'
  BY <1>1, <1>3, <1>6, <1>7 DEF IndInv, PcInv
<1>9. PendingInv'
  <2>1. Known(n) => Known(n)'
    <3>1. SUFFICES ASSUME Known(n), IsNamed(ev[n])
                   PROVE  Known(n)'
      BY <1>1 DEF Known
    <3>2. resolveAgent(ev[n]) # "none"
      BY <1>4, <3>1, EventsAssumption DEF Known, AllEvents, IsEvent, Hosts
    <3>3. QED BY <1>1, <1>4, <3>1, <3>2, RightId DEF Known, IndInv, ProcInv
  <2>2. QED BY <1>1, <1>2, <1>7, <2>1 DEF IndInv, PendingInv
<1>10. StartedInv' /\ DaemonInv'
  <2>1. up' \in BOOLEAN
    BY <1>a, <1>2, Zenon
  <2>2. life' \in Nat
    BY <1>a, <1>2
  <2>3. QED BY <1>1, <2>1, <2>2 DEF IndInv, StartedInv, DaemonInv
<1>11. ReplyInv' /\ ShownInv'
  <2>1. CASE UNCHANGED <<up, life>>
    BY <1>1, <2>1, TellsStill, ExtendsSame
  <2>2. CASE life' = life + 1
    <3>1. \A id \in SessionIds : \A age, name, lit :
            Told(id, age, name, lit) => Told(id, age, name, lit)'
      BY <1>1, <2>2, ToldKept DEF IndInv
    <3>2. QED BY <1>1, <3>1, TellsNothing
  <2>3. QED BY <1>2, <2>1, <2>2
<1>12. PrintedInv'
  BY <1>1, <1>3, <1>7 DEF IndInv, PrintedInv
<1>13. QED BY <1>5, <1>8, <1>9, <1>10, <1>11, <1>12 DEF IndInv

(* A request to the daemon it knows, or none.                               *)
LEMMA SendFacts ==
  ASSUME NEW n, NEW request, Send(n, request)
  PROVE  /\ \/ /\ up /\ pending' = pending \cup {<<n, request>>}
               /\ pc' = [pc EXCEPT ![n] = IF request = "start" THEN "starting" ELSE "calling"]
            \/ /\ pending' = pending /\ pc' = [pc EXCEPT ![n] = "failed"]
         /\ conn' = [conn EXCEPT ![n] = conn'[n]] \/ conn' = conn
         /\ \E v : conn' = [conn EXCEPT ![n] = v]
BY DEF Send, Goto

(* The first request leaves.                                                *)
LEMMA EnsureSessionIndInv ==
  ASSUME IndInv, NEW n \in All, ensureSession(n)
  PROVE  IndInv'
<1> DEFINE request == IF ev[n].hook = "SessionStop" THEN "call" ELSE "start"
<1>1. /\ UNCHANGED <<fired, ev, sid, view, up, life, sessions, started, reply, stops, shown>>
      /\ pc[n] = "dial" /\ Send(n, request)
  BY DEF ensureSession
<1> HIDE DEF request
<1>2. /\ \/ /\ up /\ pending' = pending \cup {<<n, request>>}
            /\ pc' = [pc EXCEPT ![n] = IF request = "start" THEN "starting" ELSE "calling"]
         \/ /\ pending' = pending /\ pc' = [pc EXCEPT ![n] = "failed"]
      /\ \E v : conn' = [conn EXCEPT ![n] = v]
  BY <1>1, SendFacts
<1>3. /\ Known(n) /\ n \notin DOMAIN reply /\ <<n, "call">> \notin pending
      /\ ev[n].hook = "SessionStop" => IsNamed(ev[n])
  BY <1>1 DEF IndInv, PcInv
<1>4. All' = All /\ (\A m \in All : Known(m)' <=> Known(m))
  BY <1>1 DEF All, Known
<1>5. ProcInv'
  BY <1>1, <1>2, <1>4 DEF IndInv, ProcInv
<1>6. \A m \in All : m # n =>
        /\ pc'[m] = pc[m] /\ (<<m, "call">> \in pending' <=> <<m, "call">> \in pending)
        /\ (<<m, "start">> \in pending' <=> <<m, "start">> \in pending)
  BY <1>2 DEF IndInv, ProcInv
<1>7. pc'[n] = (IF pending' = pending /\ pc' = [pc EXCEPT ![n] = "failed"] THEN "failed"
                ELSE IF request = "start" THEN "starting" ELSE "calling")
  BY <1>2 DEF IndInv, ProcInv
<1>8. PcInv'
  BY <1>1, <1>2, <1>3, <1>4, <1>6, <1>7 DEF IndInv, PcInv, request
<1>9. PendingInv'
  BY <1>1, <1>2, <1>3, <1>4, <1>6 DEF IndInv, PendingInv, request
<1>10. StartedInv' /\ DaemonInv'
  BY <1>1, <1>4 DEF IndInv, StartedInv, DaemonInv
<1>11. ReplyInv' /\ ShownInv'
  BY <1>1, <1>4, TellsStill, ExtendsSame
<1>12. PrintedInv'
  BY <1>1, <1>4, <1>6, <1>7 DEF IndInv, PrintedInv
<1>13. QED BY <1>5, <1>8, <1>9, <1>10, <1>11, <1>12 DEF IndInv

(* The id the daemon answers is the host's own, if it gave one; the hook    *)
(* call follows.                                                            *)
LEMMA StartAnsweredIndInv ==
  ASSUME IndInv, NEW n \in All, StartAnswered(n)
  PROVE  IndInv'
<1>1. /\ UNCHANGED <<fired, ev, view, up, life, sessions, reply, stops, shown>>
      /\ pc[n] = "starting" /\ n \in DOMAIN started
      /\ sid' = [sid EXCEPT ![n] = started[n]]
      /\ started' = MapDelete(started, n)
  BY DEF StartAnswered
<1>2. /\ \/ ev[n].hook = "SessionStart" /\ pending' = pending /\ pc' = [pc EXCEPT ![n] = "printed"]
         \/ /\ ev[n].hook # "SessionStart"
            /\ \/ /\ up /\ pending' = pending \cup {<<n, "call">>}
                  /\ pc' = [pc EXCEPT ![n] = "calling"]
               \/ pending' = pending /\ pc' = [pc EXCEPT ![n] = "failed"]
      /\ \E v : conn' = [conn EXCEPT ![n] = v]
  <2>1. CASE ev[n].hook = "SessionStart"
    BY <2>1 DEF StartAnswered, Return, Goto
  <2>2. CASE ev[n].hook # "SessionStart"
    BY <2>2, SendFacts DEF StartAnswered
  <2>3. QED BY <2>1, <2>2
<1>3. /\ Known(n) /\ n \notin DOMAIN reply /\ <<n, "call">> \notin pending
      /\ ev[n].hook # "SessionStop"
      /\ IsNamed(ev[n]) => started[n] = ev[n].sid
  BY <1>1 DEF IndInv, PcInv, StartedInv
<1>4. All' = All /\ (\A m \in All : Known(m) => Known(m)')
  BY <1>1, <1>3 DEF All, Known, IndInv, ProcInv
<1>5. ProcInv'
  BY <1>1, <1>2, <1>4 DEF IndInv, ProcInv
<1>6. \A m \in All : m # n =>
        /\ pc'[m] = pc[m] /\ (<<m, "call">> \in pending' <=> <<m, "call">> \in pending)
  BY <1>2 DEF IndInv, ProcInv
<1>7. \/ pc'[n] = "printed" /\ ev[n].hook = "SessionStart"
      \/ pc'[n] = "calling" /\ ev[n].hook # "SessionStart"
      \/ pc'[n] = "failed"
  BY <1>2 DEF IndInv, ProcInv
<1>8. PcInv'
  BY <1>1, <1>3, <1>4, <1>6, <1>7 DEF IndInv, PcInv
<1>9. PendingInv'
  BY <1>1, <1>2, <1>3, <1>4, <1>6 DEF IndInv, PendingInv
<1>10. StartedInv' /\ DaemonInv'
  BY <1>1, <1>4 DEF IndInv, StartedInv, DaemonInv, MapDelete
<1>11. ReplyInv' /\ ShownInv'
  BY <1>1, <1>4, TellsStill, ExtendsSame
<1>12. PrintedInv'
  BY <1>1, <1>4, <1>6, <1>7 DEF IndInv, PrintedInv
<1>13. QED BY <1>5, <1>8, <1>9, <1>10, <1>11, <1>12 DEF IndInv

(* A process gives up, or the daemon's state is as it was.                  *)
LEMMA CallFailsIndInv ==
  ASSUME IndInv, NEW n \in All, CallFails(n)
  PROVE  IndInv'
<1>1. /\ UNCHANGED <<fired, ev, sid, view, up, life, sessions, pending, started, reply, stops, shown>>
      /\ pc' = [pc EXCEPT ![n] = "failed"] /\ conn' = [conn EXCEPT ![n] = 0]
  BY DEF CallFails, Return, Goto, daemon
<1>2. All' = All /\ (\A m \in All : Known(m)' <=> Known(m))
  BY <1>1 DEF All, Known
<1>3. ProcInv'
  BY <1>1, <1>2 DEF IndInv, ProcInv
<1>4. \A m \in All : pc'[m] = IF m = n THEN "failed" ELSE pc[m]
  BY <1>1 DEF IndInv, ProcInv
<1>5. PcInv' /\ PendingInv'
  BY <1>1, <1>2, <1>4 DEF IndInv, PcInv, PendingInv
<1>6. StartedInv' /\ DaemonInv' /\ PrintedInv'
  BY <1>1, <1>2, <1>4 DEF IndInv, StartedInv, DaemonInv, PrintedInv
<1>7. ReplyInv' /\ ShownInv'
  BY <1>1, <1>2, TellsStill, ExtendsSame
<1>8. QED BY <1>3, <1>5, <1>6, <1>7 DEF IndInv

(* A process prints what it makes of the answer, and so its names are told. *)
LEMMA PrintAnswerIndInv ==
  ASSUME IndInv, NEW n \in All, PrintAnswer(n)
  PROVE  IndInv'
<1>1. /\ UNCHANGED <<fired, ev, sid, up, life, sessions, pending, started, reply, stops>>
      /\ pc[n] = "calling" /\ n \in DOMAIN reply
      /\ pc' = [pc EXCEPT ![n] = "printed"] /\ conn' = [conn EXCEPT ![n] = 0]
      /\ view' = [view EXCEPT ![n] = encodeResponse(resolveAgent(ev[n]), ev[n], reply[n])]
  BY DEF PrintAnswer, Return, Goto, daemon
<1>2. All' = All /\ (\A m \in All : Known(m)' <=> Known(m))
  BY <1>1 DEF All, Known
<1>3. ProcInv'
  BY <1>1, <1>2 DEF IndInv, ProcInv
<1>4. \A m \in All : /\ pc'[m] = IF m = n THEN "printed" ELSE pc[m]
                     /\ m # n => view'[m] = view[m]
  BY <1>1 DEF IndInv, ProcInv
<1>5. view'[n] = encodeResponse(ev[n].host, ev[n], reply[n])
  BY <1>1 DEF IndInv, PcInv, Known, ProcInv
<1>6. PcInv' /\ PendingInv'
  BY <1>1, <1>2, <1>4 DEF IndInv, PcInv, PendingInv
<1>7. StartedInv' /\ DaemonInv'
  BY <1>1, <1>2 DEF IndInv, StartedInv, DaemonInv
<1>8. PrintedInv'
  BY <1>1, <1>2, <1>4, <1>5 DEF IndInv, PrintedInv
<1>9. \A id, age, name, lit : Told(id, age, name, lit) => Told(id, age, name, lit)'
  BY <1>1 DEF Told
<1>10. ReplyInv'
  BY <1>1, <1>2, <1>9 DEF IndInv, ReplyInv, ReplyTold
<1>11. ASSUME NEW x \in shown', x.host # NoId
       PROVE  x.host \in SessionIds /\ Told(x.host, x.age, x.name, x.lit)
  <2>1. CASE x \in shown
    BY <1>11, <2>1 DEF IndInv, ShownInv
  <2>2. CASE x \notin shown
    <3>1. PICK name \in DOMAIN reply[n].bound :
            x = [host |-> ev[n].sid, sid |-> sid[n], age |-> reply[n].age,
                 name |-> name, lit |-> reply[n].bound[name]]
      BY <2>2 DEF PrintAnswer
    <3>2. IsNamed(ev[n]) /\ ev[n] \in AllEvents
      BY <1>11, <3>1 DEF IsNamed, IndInv, ProcInv
    <3>3. ReplyTold(n)
      BY <1>1 DEF IndInv, ReplyInv
    <3>4. QED BY <3>1, <3>2, <3>3, NamedId DEF ReplyTold
  <2>3. QED BY <2>1, <2>2
<1>12. ShownInv'
  BY <1>9, <1>11 DEF ShownInv
<1>13. QED BY <1>3, <1>6, <1>7, <1>8, <1>10, <1>12 DEF IndInv

(* session.start makes sure that there is a session.                        *)
LEMMA ServeStartIndInv ==
  ASSUME IndInv, NEW n \in All, ServeStart(n)
  PROVE  IndInv'
<1> DEFINE id == IF sid[n] = NoId THEN minted + 1 ELSE sid[n]
<1>1. /\ UNCHANGED <<fired, ev, pc, sid, conn, view, up, life, reply, stops, shown>>
      /\ <<n, "start">> \in pending
      /\ pending' = pending \ {<<n, "start">>}
      /\ sessions' = getOrCreate(id)
      /\ started' = MapPut(started, n, id)
  BY DEF ServeStart, process
<1>2. All' = All /\ (\A m \in All : Known(m)' <=> Known(m))
  BY <1>1 DEF All, Known
<1>3. Known(n) /\ ev[n] \in AllEvents
  BY <1>1 DEF IndInv, PendingInv, ProcInv
<1>4. IsNamed(ev[n]) => id = ev[n].sid
  BY <1>3 DEF Known, IsNamed
<1> HIDE DEF id
<1>5. ProcInv' /\ PcInv' /\ PendingInv'
  BY <1>1, <1>2 DEF IndInv, ProcInv, PcInv, PendingInv
<1>6. StartedInv'
  BY <1>1, <1>2, <1>4 DEF IndInv, StartedInv, MapPut
<1>7. /\ \A i \in DOMAIN sessions :
           i \in DOMAIN sessions' /\ Extends(sessions[i], sessions'[i])
      /\ \A i \in DOMAIN sessions' : Sound(sessions'[i])
  BY <1>1, ExtendsSame, NewSessionConsistent
    DEF getOrCreate, MapPut, IndInv, DaemonInv, Sound
<1>8. DaemonInv'
  BY <1>1, <1>7 DEF IndInv, DaemonInv
<1>9. ReplyInv' /\ ShownInv'
  BY <1>1, <1>2, <1>7, TellsStill
<1>10. PrintedInv'
  BY <1>1, <1>2 DEF IndInv, PrintedInv
<1>11. QED BY <1>5, <1>6, <1>8, <1>9, <1>10 DEF IndInv

(* What was told of the session is past.                                    *)
LEMMA ServeStopIndInv ==
  ASSUME IndInv, NEW n \in All, ServeStop(n)
  PROVE  IndInv'
<1>1. /\ UNCHANGED <<fired, ev, pc, sid, conn, view, up, life, started, shown>>
      /\ <<n, "call">> \in pending /\ ev[n].hook = "SessionStop"
      /\ pending' = pending \ {<<n, "call">>}
      /\ sessions' = MapDelete(sessions, sid[n])
      /\ stops' = [stops EXCEPT ![sid[n]] = @ + 1]
      /\ DOMAIN reply' = DOMAIN reply \cup {n}
      /\ \A m \in DOMAIN reply : m # n => reply'[m] = reply[m]
      /\ reply'[n].bound = EmptyMap
  BY DEF ServeStop, process, MapPut
<1>2. All' = All /\ (\A m \in All : Known(m)' <=> Known(m))
  BY <1>1 DEF All, Known
<1>3. sid[n] \in SessionIds
  BY <1>1, NamedId DEF IndInv, PendingInv, ProcInv, Known
<1>4. PcInv'
  <2>1. \A m \in All : pc[m] \in {"begin", "dial", "starting"} => m # n
    BY <1>1 DEF IndInv, PcInv
  <2>2. QED BY <1>1, <1>2, <2>1 DEF IndInv, PcInv
<1>5. ProcInv' /\ PendingInv'
  BY <1>1, <1>2 DEF IndInv, ProcInv, PendingInv
<1>6. StartedInv'
  BY <1>1, <1>2 DEF IndInv, StartedInv
<1>7. DaemonInv'
  BY <1>1, <1>3 DEF IndInv, DaemonInv, MapDelete
<1>8. ASSUME NEW id \in SessionIds, NEW age, NEW name, NEW lit,
             Told(id, age, name, lit)
      PROVE  Told(id, age, name, lit)'
  <2>1. CASE id = sid[n]
    BY <1>1, <1>8, <2>1, ToldKept DEF IndInv
  <2>2. CASE id # sid[n]
    <3>1. stops'[id] = stops[id]
      BY <1>1, <2>2 DEF IndInv, DaemonInv
    <3>2. id \in DOMAIN sessions => id \in DOMAIN sessions' /\ sessions'[id] = sessions[id]
      BY <1>1, <2>2 DEF MapDelete
    <3>3. QED BY <1>1, <1>8, <3>1, <3>2 DEF Told
  <2>3. QED BY <2>1, <2>2
<1>9. ReplyInv'
  <2>1. ASSUME NEW m \in DOMAIN reply' PROVE ReplyRight(ev[m], reply'[m]) /\ ReplyTold(m)'
    <3>1. CASE m = n
      BY <1>1, <3>1 DEF ReplyRight, ReplyTold, EmptyMap
    <3>2. CASE m # n
      <4>1. /\ m \in DOMAIN reply /\ m \in All /\ reply'[m] = reply[m]
            /\ ReplyRight(ev[m], reply[m]) /\ ReplyTold(m) /\ ev[m] \in AllEvents
        BY <1>1, <3>2 DEF IndInv, ReplyInv, ProcInv
      <4>2. QED BY <1>1, <1>8, <4>1, NamedId DEF ReplyTold
    <3>3. QED BY <3>1, <3>2
  <2>2. QED BY <1>1, <1>2, <2>1 DEF IndInv, ReplyInv
<1>10. ShownInv'
  BY <1>1, <1>8 DEF IndInv, ShownInv
<1>11. PrintedInv'
  BY <1>1, <1>2 DEF IndInv, PrintedInv, PendingInv
<1>12. QED BY <1>4, <1>5, <1>6, <1>7, <1>9, <1>10, <1>11 DEF IndInv

(* The names of the answer and what the session binds them to               *)
Bindings(a) == [name \in NamesOf(a) |-> ResolveAlias(a.session, name)]

(* The handlers of the hook requests keep a session sound and answer right. *)
LEMMA AnswerSound ==
  ASSUME NEW e \in AllEvents, NEW s, Sound(s),
         e.hook \in {"PromptSubmit", "PreToolUse", "PostToolUse"}
  PROVE  LET a == Answer(e.host, e, s) IN
         /\ Sound(a.session) /\ Extends(s, a.session)
         /\ \A name \in NamesOf(a) : Registered(a.session, name)
         /\ e.hook = "PreToolUse" =>
              LET m == stripLockieMeta(e.payload)
              IN  a.out = rehydrateMap(s, m) /\ a.modified = (a.out # m)
         /\ \A r : r.out = a.out /\ r.modified = a.modified /\ r.bound = Bindings(a) =>
              /\ e.hook = "PromptSubmit" => PromptRight(e, r)
              /\ e.hook = "PostToolUse" => PostRight(e, r)
<1> DEFINE a == Answer(e.host, e, s)
<1>1. CASE e.hook = "PromptSubmit"
  <2> DEFINE t == stringField(e.payload, "text")
             d == Redacted(NothingYet(s), "text", t)
  <2>1. a = [session |-> d.session, names |-> d.names, out |-> d.out,
             modified |-> d.names # << >>]
    BY <1>1 DEF Answer, mapField
  <2>2. /\ UnderWay(d) /\ Extends(s, d.session)
        /\ d.out = MapPut(EmptyMap, "text", d.out["text"])
        /\ StandsFor(d, t, d.out["text"])
        /\ d.names = << >> <=> t \notin Literals
    BY NothingYetSound, RedactedSound DEF NothingYet, Follows
  <2> HIDE DEF a, d
  <2>3. ASSUME NEW r, r.out = a.out, r.modified = a.modified
        PROVE  PromptRight(e, r)
    <3>1. r.modified <=> t \in Literals
      BY <2>1, <2>2, <2>3
    <3>2. DOMAIN r.out = {"text"}
      BY <2>1, <2>2, <2>3 DEF MapPut, EmptyMap
    <3>3. t \in Literals => r.out["text"] \in Names
      BY <2>1, <2>2, <2>3 DEF StandsFor, UnderWay, SoundNames
    <3>4. QED BY <3>1, <3>2, <3>3 DEF PromptRight
  <2>4. \A name \in NamesOf(a) : Registered(a.session, name)
    BY <2>1, <2>2 DEF NamesOf, UnderWay, SoundNames
  <2>5. Sound(a.session) /\ Extends(s, a.session)
    BY <2>1, <2>2 DEF UnderWay
  <2>6. QED BY <1>1, <2>3, <2>4, <2>5 DEF a
<1>2. CASE e.hook = "PostToolUse"
  <2> DEFINE m == decodedOutput(e.host, e)
             d == redactOutput(s, m)
  <2>1. a = [session |-> d.session, names |-> d.names, out |-> d.out,
             modified |-> d.names # << >>]
    BY <1>2 DEF Answer
  <2>2. /\ UnderWay(d) /\ Extends(s, d.session)
        /\ DOMAIN d.out = Slots
        /\ \A slot \in Slots : StandsFor(d, m[slot], d.out[slot])
        /\ d.names = << >> <=> \A slot \in Slots : m[slot] \notin Literals
    BY RedactOutputSound
  <2> HIDE DEF a, d, m
  <2>3. ASSUME NEW r, r.out = a.out, r.modified = a.modified, r.bound = Bindings(a)
        PROVE  PostRight(e, r)
    <3>1. r.modified <=> \E slot \in Slots : m[slot] \in Literals
      BY <2>1, <2>2, <2>3
    <3>2. ASSUME NEW slot \in Slots, m[slot] \in Literals
          PROVE  /\ r.out[slot] \in Names \cap DOMAIN r.bound
                 /\ r.bound[r.out[slot]] = m[slot]
      BY <2>1, <2>2, <2>3, <3>2
        DEF StandsFor, UnderWay, SoundNames, NamesOf, Bindings
    <3>3. \A slot \in Slots : m[slot] \notin Literals => r.out[slot] = m[slot]
      BY <2>1, <2>2, <2>3 DEF StandsFor
    <3>4. QED BY <2>1, <2>2, <2>3, <3>1, <3>2, <3>3 DEF PostRight, m
  <2>4. \A name \in NamesOf(a) : Registered(a.session, name)
    BY <2>1, <2>2 DEF NamesOf, UnderWay, SoundNames
  <2>5. Sound(a.session) /\ Extends(s, a.session)
    BY <2>1, <2>2 DEF UnderWay
  <2>6. QED BY <1>2, <2>3, <2>4, <2>5 DEF a
<1>3. CASE e.hook = "PreToolUse"
  <2> DEFINE m == stripLockieMeta(e.payload)
  <2>1. a = [session |-> s, names |-> << >>, out |-> rehydrateMap(s, m),
             modified |-> rehydrateMap(s, m) # m]
    BY <1>3 DEF Answer, mapField
  <2> HIDE DEF a
  <2>2. NamesOf(a) = {}
    BY <2>1 DEF NamesOf
  <2>3. QED BY <1>3, <2>1, <2>2, ExtendsSame DEF a
<1>4. QED BY <1>1, <1>2, <1>3

(* What is due to a tool is in the session, which is the one it was told of *)
(* and still lives.                                                         *)
LEMMA DueFound ==
  ASSUME IndInv, NEW n \in All, <<n, "call">> \in pending,
         ev[n].hook = "PreToolUse", NEW due \in Due(ev[n])
  PROVE  LET s == getOrCreate(sid[n])[sid[n]]
             m == stripLockieMeta(ev[n].payload)
         IN  /\ due[1] \in DOMAIN m
             /\ m[due[1]] = ev[n].payload[due[1]]
             /\ rehydrateMap(s, m)[due[1]] = due[2]
<1> DEFINE e == ev[n]
           s == getOrCreate(sid[n])[sid[n]]
           m == stripLockieMeta(e.payload)
<1>1. PICK k \in DOMAIN e.payload \ {"__lockie_"}, x \in shown :
        /\ due = <<k, x.lit>>
        /\ IsNamed(e) /\ x.host = e.sid /\ x.age = Age(e.sid)
        /\ x.name = e.payload[k]
  BY DEF Due
<1>2. e \in AllEvents /\ Known(n) /\ up
  BY DEF IndInv, ProcInv, PendingInv
<1>3. sid[n] = e.sid /\ e.sid \in SessionIds /\ e.sid # NoId
  BY <1>1, <1>2, NamedId DEF Known
<1>4. Told(x.host, x.age, x.name, x.lit)
  BY <1>1, <1>3 DEF IndInv, ShownInv
<1>5. /\ e.sid \in DOMAIN sessions
      /\ Registered(sessions[e.sid], x.name)
      /\ ResolveAlias(sessions[e.sid], x.name) = x.lit
  BY <1>1, <1>2, <1>3, <1>4 DEF Told, Age
<1>6. s = sessions[e.sid] /\ Sound(s)
  BY <1>3, <1>5 DEF getOrCreate, IndInv, DaemonInv
<1>7. k \in DOMAIN m /\ m[k] = x.name /\ x.name \in Names
  BY <1>1, <1>5, <1>6 DEF stripLockieMeta, Sound, IsSession, IsMap, Registered
<1>8. rehydrateMap(s, m)[k] = x.lit
  BY <1>5, <1>6, <1>7 DEF rehydrateMap
<1>9. QED BY <1>1, <1>7, <1>8

(* The daemon serves a hook call: its session grows, and the answer is      *)
(* right and told of it.                                                    *)
LEMMA ServeHookIndInv ==
  ASSUME IndInv, NEW n \in All, ServeHook(n)
  PROVE  IndInv'
<1> DEFINE e == ev[n]
           all == getOrCreate(sid[n])
           s == all[sid[n]]
           a == Answer(resolveAgent(e), e, s)
           answer == [out |-> a.out, modified |-> a.modified, bound |-> Bindings(a),
                      age |-> Age(sid[n]), due |-> Due(e)]
<1>1. /\ UNCHANGED <<fired, ev, pc, sid, conn, view, up, life, started, stops, shown>>
      /\ <<n, "call">> \in pending /\ e.hook # "SessionStop"
      /\ pending' = pending \ {<<n, "call">>}
      /\ sessions' = MapPut(all, sid[n], a.session)
      /\ reply' = MapPut(reply, n, answer)
  BY DEF ServeHook, process, Bindings
<1>2. /\ e \in AllEvents /\ Known(n) /\ up /\ n \notin DOMAIN reply
      /\ e.hook \in {"PromptSubmit", "PreToolUse", "PostToolUse"}
  <2>1. e \in AllEvents
    BY DEF IndInv, ProcInv
  <2>2. e.hook \in HookTypes
    BY <2>1, EventsAssumption DEF AllEvents, IsEvent
  <2>3. QED BY <1>1, <2>1, <2>2 DEF IndInv, PendingInv, HookTypes
<1>3. /\ sid[n] \in DOMAIN all /\ DOMAIN all = DOMAIN sessions \cup {sid[n]}
      /\ \A i \in DOMAIN all : Sound(all[i])
      /\ \A i \in DOMAIN sessions : all[i] = sessions[i]
  BY NewSessionConsistent DEF getOrCreate, MapPut, IndInv, DaemonInv, Sound
<1>4. a = Answer(e.host, e, s) /\ Sound(s)
  BY <1>2, <1>3 DEF Known
<1> HIDE DEF a, all, s
<1>5. /\ Sound(a.session) /\ Extends(s, a.session)
      /\ \A name \in NamesOf(a) : Registered(a.session, name)
      /\ e.hook = "PreToolUse" =>
           LET m == stripLockieMeta(e.payload)
           IN  a.out = rehydrateMap(s, m) /\ a.modified = (a.out # m)
      /\ \A r : r.out = a.out /\ r.modified = a.modified /\ r.bound = Bindings(a) =>
           /\ e.hook = "PromptSubmit" => PromptRight(e, r)
           /\ e.hook = "PostToolUse" => PostRight(e, r)
  BY <1>2, <1>4, AnswerSound
<1>6. /\ answer.out = a.out /\ answer.modified = a.modified
      /\ answer.bound = Bindings(a) /\ answer.age = Age(sid[n]) /\ answer.due = Due(e)
  OBVIOUS
<1>7. e.hook = "PreToolUse" => PreRight(e, answer)
  <2>1. SUFFICES ASSUME e.hook = "PreToolUse", NEW due \in Due(e)
                 PROVE  (IF a.modified THEN a.out[due[1]] ELSE e.payload[due[1]]) = due[2]
    BY <1>6 DEF PreRight
  <2> DEFINE m == stripLockieMeta(e.payload)
  <2>2. m[due[1]] = e.payload[due[1]] /\ rehydrateMap(s, m)[due[1]] = due[2]
    BY <1>1, <2>1, DueFound DEF s, all
  <2>3. a.out = rehydrateMap(s, m) /\ a.modified = (a.out # m)
    BY <1>5, <2>1
  <2> HIDE DEF m
  <2>4. CASE a.out = m
    <3>1. ~a.modified
      BY <2>3, <2>4
    <3>2. QED BY <2>2, <2>3, <2>4, <3>1
  <2>5. CASE a.out # m
    <3>1. a.modified
      BY <2>3, <2>5
    <3>2. QED BY <2>2, <2>3, <3>1
  <2>6. QED BY <2>4, <2>5
<1> HIDE DEF answer
<1>8. ReplyRight(e, answer)
  BY <1>5, <1>6, <1>7 DEF ReplyRight
<1>9. /\ \A i \in DOMAIN sessions :
           i \in DOMAIN sessions' /\ Extends(sessions[i], sessions'[i])
      /\ \A i \in DOMAIN sessions' : Sound(sessions'[i])
      /\ sid[n] \in DOMAIN sessions' /\ sessions'[sid[n]] = a.session
  BY <1>1, <1>3, <1>5, ExtendsSame DEF MapPut, s
<1>10. All' = All /\ (\A m \in All : Known(m)' <=> Known(m))
  BY <1>1 DEF All, Known
<1>11. /\ DOMAIN reply' = DOMAIN reply \cup {n} /\ reply'[n] = answer
       /\ \A m \in DOMAIN reply : reply'[m] = reply[m]
  BY <1>1, <1>2 DEF MapPut
<1>12. ProcInv' /\ StartedInv' /\ DaemonInv'
  BY <1>1, <1>9, <1>10 DEF IndInv, ProcInv, StartedInv, DaemonInv
<1>13. PcInv'
  <2>1. \A m \in All : pc[m] \in {"begin", "dial", "starting"} => m # n
    BY <1>1 DEF IndInv, PcInv
  <2>2. QED BY <1>1, <1>10, <1>11, <2>1 DEF IndInv, PcInv
<1>14. PendingInv'
  BY <1>1, <1>10, <1>11 DEF IndInv, PendingInv
<1>15. ASSUME NEW id \in SessionIds, NEW age, NEW name, NEW lit,
              Told(id, age, name, lit)
       PROVE  Told(id, age, name, lit)'
  BY <1>1, <1>9, <1>15, ToldKept DEF IndInv
<1>16. ReplyTold(n)'
  <2>1. SUFFICES ASSUME IsNamed(e), NEW name \in DOMAIN answer.bound
                 PROVE  Told(ev[n].sid, reply[n].age, name, reply[n].bound[name])'
    BY <1>1, <1>11 DEF ReplyTold
  <2>2. sid[n] = e.sid /\ e.sid \in SessionIds
    BY <1>2, <2>1, NamedId DEF Known
  <2>3. name \in NamesOf(a) /\ answer.bound[name] = ResolveAlias(a.session, name)
    BY <1>6, <2>1 DEF Bindings
  <2>4. Registered(a.session, name)
    BY <1>5, <2>3
  <2>5. answer.age = <<life, stops[e.sid]>> /\ life \in Nat /\ stops[e.sid] \in Nat
    BY <1>6, <2>2 DEF Age, IndInv, DaemonInv
  <2>6. /\ e.sid \in DOMAIN sessions'
        /\ Registered(sessions'[e.sid], name)
        /\ ResolveAlias(sessions'[e.sid], name) = answer.bound[name]
    BY <1>9, <2>2, <2>3, <2>4
  <2>7. ev' = ev /\ life' = life /\ stops' = stops /\ reply'[n] = answer
    BY <1>1, <1>11
  <2>8. QED BY <2>5, <2>6, <2>7 DEF Told
<1>17. ReplyInv'
  <2>1. ASSUME NEW m \in DOMAIN reply' PROVE ReplyRight(ev[m], reply'[m]) /\ ReplyTold(m)'
    <3>1. CASE m = n
      BY <1>1, <1>8, <1>11, <1>16, <3>1 DEF ReplyTold
    <3>2. CASE m # n
      <4>1. /\ m \in DOMAIN reply /\ m \in All /\ reply'[m] = reply[m]
            /\ ReplyRight(ev[m], reply[m]) /\ ReplyTold(m) /\ ev[m] \in AllEvents
        BY <1>11, <2>1, <3>2 DEF IndInv, ReplyInv, ProcInv
      <4>2. QED BY <1>1, <1>15, <4>1, NamedId DEF ReplyTold
    <3>3. QED BY <3>1, <3>2
  <2>2. QED BY <1>1, <1>10, <1>11, <2>1 DEF IndInv, ReplyInv
<1>18. ShownInv'
  BY <1>1, <1>15 DEF IndInv, ShownInv
<1>19. PrintedInv'
  BY <1>1, <1>10, <1>11 DEF IndInv, PrintedInv
<1>20. QED BY <1>12, <1>13, <1>14, <1>17, <1>18, <1>19 DEF IndInv

(* With the daemon, all its sessions are gone.                              *)
LEMMA KillIndInv ==
  ASSUME IndInv, Kill
  PROVE  IndInv'
<1>1. /\ UNCHANGED <<fired, ev, pc, sid, conn, view, life, reply, started, stops, shown>>
      /\ ~up' /\ up' = FALSE /\ sessions' = EmptyMap /\ pending' = {}
  BY DEF Kill, process
<1>2. All' = All /\ (\A m \in All : Known(m)' <=> Known(m))
  BY <1>1 DEF All, Known
<1>3. ProcInv' /\ PcInv' /\ PendingInv' /\ StartedInv' /\ PrintedInv'
  BY <1>1, <1>2 DEF IndInv, ProcInv, PcInv, PendingInv, StartedInv, PrintedInv
<1>4. DaemonInv'
  BY <1>1 DEF IndInv, DaemonInv, EmptyMap
<1>5. \A id \in SessionIds : \A age, name, lit :
        Told(id, age, name, lit) => Told(id, age, name, lit)'
  BY <1>1, ToldKept DEF IndInv
<1>6. ReplyInv' /\ ShownInv'
  BY <1>1, <1>2, <1>5, TellsNothing
<1>7. QED BY <1>3, <1>4, <1>6 DEF IndInv

(* A step that changes nothing.                                            *)
LEMMA StutterIndInv ==
  ASSUME IndInv, UNCHANGED vars
  PROVE  IndInv'
<1>1. UNCHANGED <<fired, ev, pc, sid, conn, view, up, life, sessions, pending,
                  reply, started, stops, shown>>
  BY DEF vars, process, daemon
<1>2. All' = All /\ (\A m \in All : Known(m)' <=> Known(m))
  BY <1>1 DEF All, Known
<1>3. /\ ProcInv' /\ PcInv' /\ PendingInv' /\ StartedInv' /\ DaemonInv'
      /\ PrintedInv'
  BY <1>1, <1>2 DEF IndInv, ProcInv, PcInv, PendingInv, StartedInv, DaemonInv,
    PrintedInv
<1>4. ReplyInv' /\ ShownInv'
  BY <1>1, <1>2, TellsStill, ExtendsSame
<1>5. QED BY <1>3, <1>4 DEF IndInv

-----------------------------------------------------------------------------
(* The theorems *)

(* The invariant of processes, daemon and answers, for any events.          *)
THEOREM CommandIndInv == Spec => []IndInv
<1>1. ASSUME IndInv, [Next]_vars PROVE IndInv'
  <2>1. ASSUME NEW e \in Events \cup LoneEvents, Fire(e) PROVE IndInv'
    BY <1>1, <2>1, FireIndInv DEF AllEvents
  <2>2. ASSUME NEW n \in All, Step(n) PROVE IndInv'
    BY <1>1, <2>2, BeginIndInv, EnsureSessionIndInv, StartAnsweredIndInv,
      PrintAnswerIndInv, CallFailsIndInv DEF Step
  <2>3. ASSUME NEW n \in All, Serve(n) PROVE IndInv'
    BY <1>1, <2>3, ServeStartIndInv, ServeStopIndInv, ServeHookIndInv DEF Serve
  <2>4. CASE Kill
    BY <1>1, <2>4, KillIndInv
  <2>5. CASE UNCHANGED vars
    BY <1>1, <2>5, StutterIndInv
  <2>6. QED BY <1>1, <2>1, <2>2, <2>3, <2>4, <2>5 DEF Next
<1>2. QED BY InitIndInv, <1>1, PTL DEF Spec

(* What a hook printed is the encoding of a right answer.                   *)
LEMMA PrintedRight ==
  ASSUME IndInv, NEW hook \in {"PromptSubmit", "PreToolUse", "PostToolUse"},
         NEW n \in Printed(hook)
  PROVE  /\ n \in All /\ ev[n] \in AllEvents /\ ev[n].hook = hook
         /\ n \in DOMAIN reply /\ ReplyRight(ev[n], reply[n])
         /\ view[n] = encodeResponse(ev[n].host, ev[n], reply[n])
BY DEF Printed, IndInv, ProcInv, ReplyInv, PrintedInv

(* No secret that the daemon is sent reaches the host in what a hook        *)
(* prints, for either host and any shape of a tool's answer.                *)
THEOREM SeenCleanHolds == Spec => []SeenClean
<1>1. ASSUME IndInv PROVE SeenClean
  <2>1. ASSUME NEW n \in Printed("PromptSubmit")
        PROVE  stringField(view[n], "text") \notin Literals
    BY <1>1, PrintedRight, PromptHidden DEF ReplyRight
  <2>2. ASSUME NEW n \in Printed("PostToolUse"), NEW k \in Decoded(ev[n])
        PROVE  stringField(view[n], k) \notin Literals
    BY <1>1, PrintedRight, OutputHidden DEF ReplyRight
  <2>3. QED BY <2>1, <2>2 DEF SeenClean, Decoded
<1>2. QED BY CommandIndInv, <1>1, PTL

(* Claude Code gets back every field of its tool's answer, and in none of   *)
(* them what belongs to another.                                            *)
THEOREM FieldsKeptHolds == Spec => []FieldsKept
<1>1. ASSUME IndInv, NEW n \in Printed("PostToolUse"), ev[n].host = "claude-code"
      PROVE  LET raw == ev[n].payload
             IN  /\ DOMAIN raw \subseteq DOMAIN view[n]
                 /\ \A k \in DOMAIN view[n] :
                      \/ k \in DOMAIN raw /\ view[n][k] = raw[k]
                      \/ view[n][k] = Own(raw, k)
                      \/ view[n][k] \in Names /\ reply[n].bound[view[n][k]] = Own(raw, k)
  BY <1>1, PrintedRight, OutputKept DEF ReplyRight
<1>2. IndInv => FieldsKept
  BY <1>1 DEF FieldsKept, Own
<1>3. QED BY CommandIndInv, <1>2, PTL

(* The round trip: a tool gets the secret for every name its host was told, *)
(* as long as the session lives, whatever other hooks run beside it.        *)
THEOREM ToolGetsSecretHolds == Spec => []ToolGetsSecret
<1>1. ASSUME IndInv, NEW n \in Printed("PreToolUse"), NEW due \in reply[n].due
      PROVE  view[n][due[1]] = due[2]
  BY <1>1, PrintedRight DEF ReplyRight, PreRight, encodeResponse
<1>2. IndInv => ToolGetsSecret
  BY <1>1 DEF ToolGetsSecret
<1>3. QED BY CommandIndInv, <1>2, PTL
-----------------------------------------------------------------------------
(* What the variables hold *)

PayloadKeys == Fields \cup Inputs \cup {"text"}

(* The ids a session has with the daemon *)
Ids == SessionIds \cup (1 .. minted)

(* An answer is a map of strings; a tool's answer has all four              *)
AnswerType(e, r) ==
  /\ IsMap(r.out, PayloadKeys, String \cup {NotString})
  /\ e.hook = "PostToolUse" => DOMAIN r.out = Slots

(* Where a process is, and its session id: the daemon knows one before it   *)
(* is asked to serve a hook                                                 *)
ProcType(n) ==
  /\ pc[n] \in {"begin", "dial", "starting", "calling"} \cup Ended
  /\ sid[n] \in Ids \cup {NoId}
  /\ conn[n] \in 0 .. life
  /\ IsMap(view[n], PayloadKeys, String \cup {NotString})
  /\ <<n, "call">> \in pending => sid[n] \in Ids

TypeInv ==
  /\ fired \in 0 .. MaxHooks /\ minted \in Nat
  /\ up => life > 0
  /\ \A n \in All : ProcType(n)
  /\ \A n \in DOMAIN started : started[n] \in Ids
  /\ \A n \in DOMAIN reply : AnswerType(ev[n], reply[n])

(* The log has only lines, and as long as no write has failed all of them   *)
(* are whole, one for each name that an answer or a host has got            *)
HasLine(name, id) ==
  \E i \in DOMAIN file : file[i].line.name = name /\ file[i].line.sid = id

LogInv ==
  /\ file \in Seq(Writes) /\ logErrors \in Nat
  /\ logErrors = 0 =>
       /\ \A i \in DOMAIN file : file[i].part = "whole"
       /\ \A n \in DOMAIN reply : \A name \in DOMAIN reply[n].bound :
            HasLine(name, sid[n])
       /\ \A x \in shown : HasLine(x.name, x.sid)

(* An event as a host sends it.                                             *)
LEMMA EventType ==
  ASSUME NEW e \in AllEvents
  PROVE  /\ IsEvent(e) /\ IsMap(e.payload, PayloadKeys, String \cup {NotString})
         /\ e.sid \in SessionIds \cup {NoId} /\ e.hook \in HookTypes
BY EventsAssumption DEF AllEvents, IsEvent, PayloadKeys

(* A field of a payload, if it is a string.                                 *)
LEMMA FieldType ==
  ASSUME NEW m, NEW K, IsMap(m, K, String \cup {NotString}), NEW k
  PROVE  stringField(m, k) \in String
BY DEF stringField, IsMap, String

(* The strings of a tool's answer.                                          *)
LEMMA DecodedType ==
  ASSUME NEW e \in AllEvents, NEW slot \in Slots
  PROVE  decodedOutput(e.host, e)[slot] \in String
<1> DEFINE m == e.payload
           d == decodedOutput(e.host, e)
<1>1. \A k : stringField(m, k) \in String
  BY EventType, FieldType
<1>2. Empty \in String /\ e.kind \in {"string", "object", "other"}
  BY EventType DEF String, IsEvent
<1>3. CASE e.kind = "object"
  BY <1>1, <1>3, DecodedField
<1>4. CASE e.kind = "string"
  <2>1. d[slot] \in {stringField(m, "text"), Empty}
    BY <1>4 DEF decodedOutput, decodeToolOutput, decodeToolResponse, mapField, NoOutput
  <2>2. QED BY <1>1, <1>2, <2>1
<1>5. CASE e.kind = "other"
  <2>1. d[slot] = Empty
    BY <1>5 DEF decodedOutput, decodeToolOutput, decodeToolResponse, NoOutput
  <2>2. QED BY <1>2, <2>1
<1>6. QED BY <1>2, <1>3, <1>4, <1>5

(* A map with one more entry.                                               *)
LEMMA PutType ==
  ASSUME NEW K, NEW V, NEW m, IsMap(m, K, V), NEW k \in K, NEW v \in V
  PROVE  IsMap(MapPut(m, k, v), K, V) /\ DOMAIN MapPut(m, k, v) = DOMAIN m \cup {k}
BY DEF IsMap, MapPut

(* What takes the place of a string is one.                                 *)
LEMMA StandsType ==
  ASSUME NEW d, UnderWay(d), NEW v \in String \cup {NotString}, NEW w, StandsFor(d, v, w)
  PROVE  w \in String \cup {NotString}
BY DEF UnderWay, SoundNames, StandsFor, String

(* The daemon's answer and the names it logs.                               *)
LEMMA AnswerIsTyped ==
  ASSUME NEW e \in AllEvents, NEW s, Sound(s),
         e.hook \in {"PromptSubmit", "PreToolUse", "PostToolUse"}
  PROVE  LET a == Answer(e.host, e, s) IN
         AnswerType(e, a) /\ a.names \in Seq(Names)
<1> DEFINE V == String \cup {NotString}
           a == Answer(e.host, e, s)
<1>1. IsMap(EmptyMap, PayloadKeys, V)
  BY DEF IsMap, EmptyMap
<1>2. CASE e.hook = "PromptSubmit"
  <2> DEFINE t == stringField(e.payload, "text")
             d == Redacted(NothingYet(s), "text", t)
  <2>1. a = [session |-> d.session, names |-> d.names, out |-> d.out,
             modified |-> d.names # << >>]
    BY <1>2 DEF Answer, mapField
  <2>2. /\ UnderWay(d) /\ d.out = MapPut(EmptyMap, "text", d.out["text"])
        /\ StandsFor(d, t, d.out["text"])
    BY NothingYetSound, RedactedSound DEF NothingYet
  <2>3. t \in V
    BY EventType, FieldType
  <2> HIDE DEF t, d
  <2>4. d.out["text"] \in V /\ "text" \in PayloadKeys
    BY <2>2, <2>3, StandsType DEF PayloadKeys
  <2> HIDE DEF V, a
  <2>5. IsMap(d.out, PayloadKeys, V)
    <3> DEFINE w == d.out["text"]
    <3>1. w \in V /\ "text" \in PayloadKeys /\ d.out = MapPut(EmptyMap, "text", w)
      BY <2>2, <2>4
    <3> HIDE DEF w
    <3>2. IsMap(MapPut(EmptyMap, "text", w), PayloadKeys, V)
      BY <1>1, <3>1, PutType
    <3>3. QED BY <3>1, <3>2
  <2>6. a.names \in Seq(Names)
    BY <2>1, <2>2 DEF UnderWay, SoundNames
  <2>7. QED BY <1>2, <2>1, <2>5, <2>6 DEF AnswerType, V, a
<1>3. CASE e.hook = "PostToolUse"
  <2> DEFINE m == decodedOutput(e.host, e)
             d == redactOutput(s, m)
  <2>1. a = [session |-> d.session, names |-> d.names, out |-> d.out,
             modified |-> d.names # << >>]
    BY <1>3 DEF Answer
  <2>2. /\ UnderWay(d) /\ DOMAIN d.out = Slots
        /\ \A slot \in Slots : StandsFor(d, m[slot], d.out[slot])
    BY RedactOutputSound
  <2>3. \A slot \in Slots : m[slot] \in V
    BY DecodedType
  <2>4. d.out = [k \in DOMAIN d.out |-> d.out[k]]
    <3>1. PICK c, v : d = Redacted(c, "diff", v)
      BY DEF redactOutput
    <3> HIDE DEF d
    <3>2. \E f, w : d.out = MapPut(f, "diff", w)
      BY <3>1 DEF Redacted
    <3>3. PICK f, w : d.out = MapPut(f, "diff", w)
      BY <3>2
    <3>4. QED BY <3>3 DEF MapPut
  <2> HIDE DEF m, d
  <2>5. \A slot \in Slots : d.out[slot] \in V
    BY <2>2, <2>3, StandsType
  <2>6. IsMap(d.out, PayloadKeys, V)
    BY <2>2, <2>4, <2>5 DEF IsMap, Slots, PayloadKeys, Fields
  <2> HIDE DEF V, a
  <2>7. a.names \in Seq(Names)
    BY <2>1, <2>2 DEF UnderWay, SoundNames
  <2>8. QED BY <1>3, <2>1, <2>2, <2>6, <2>7 DEF AnswerType, V, a
<1>4. CASE e.hook = "PreToolUse"
  <2> DEFINE m == stripLockieMeta(e.payload)
             r == rehydrateMap(s, m)
  <2>1. a = [session |-> s, names |-> << >>, out |-> r, modified |-> r # m]
    BY <1>4 DEF Answer, mapField
  <2>2. IsMap(m, PayloadKeys, V)
    BY EventType DEF stripLockieMeta, IsMap
  <2> HIDE DEF m
  <2>3. \A k \in DOMAIN m : r[k] \in V
    BY <2>2 DEF rehydrateMap, Sound, IsSession, IsMap, Registered, ResolveAlias, String
  <2>4. IsMap(r, PayloadKeys, V)
    BY <2>2, <2>3 DEF rehydrateMap, IsMap
  <2> HIDE DEF r, V, a
  <2>5. a.names \in Seq(Names)
    BY <2>1
  <2>6. QED BY <1>4, <2>1, <2>4, <2>5 DEF AnswerType, V, a
<1>5. QED BY <1>2, <1>3, <1>4

(* What the host gets is a payload.                                         *)
LEMMA EncodedType ==
  ASSUME NEW e \in AllEvents, NEW r, AnswerType(e, r)
  PROVE  IsMap(encodeResponse(e.host, e, r), PayloadKeys, String \cup {NotString})
<1> DEFINE V == String \cup {NotString}
           form == encodeResponse(e.host, e, r)
<1>1. IsMap(e.payload, PayloadKeys, V) /\ IsMap(EmptyMap, PayloadKeys, V)
  BY EventType DEF IsMap, EmptyMap
<1>2. CASE ~r.modified
  BY <1>1, <1>2 DEF encodeResponse
<1>3. CASE r.modified /\ e.hook # "PostToolUse"
  BY <1>3 DEF encodeResponse, AnswerType
<1>4. CASE r.modified /\ e.hook = "PostToolUse"
  <2>1. DOMAIN r.out = Slots /\ \A slot \in Slots : r.out[slot] \in V
    BY <1>4 DEF AnswerType, IsMap
  <2>2. primaryOutputText(r.out) \in V
    BY <2>1, PrimaryIsOne DEF String
  <2>3. \A k \in PayloadKeys : IsMap(MapPut(EmptyMap, k, primaryOutputText(r.out)), PayloadKeys, V)
    <3> HIDE DEF V
    <3>1. QED BY <1>1, <2>2, PutType
  <2>4. "content" \in PayloadKeys /\ "text" \in PayloadKeys
    BY DEF PayloadKeys, Fields
  <2>5. CASE e.host = "cursor"
    BY <1>4, <2>3, <2>4, <2>5 DEF encodeResponse, modifiedOutput
  <2>6. CASE e.host # "cursor" /\ e.kind = "string"
    BY <1>4, <2>3, <2>4, <2>6 DEF encodeResponse, encodeUpdatedToolOutput
  <2>7. CASE e.host # "cursor" /\ e.kind # "string"
    <3> DEFINE raw == e.payload
               source(k) == IF k = "fileContent" THEN "content" ELSE k
               replaced == {k \in Slots \cup {"fileContent"} :
                              /\ r.out[source(k)] # Empty
                              /\ k \in DOMAIN raw \cup {"stdout", "content"}}
    <3>1. form = [k \in DOMAIN raw \cup replaced |->
                    IF k \in replaced THEN r.out[source(k)] ELSE raw[k]]
      BY <1>4, <2>7 DEF encodeResponse, encodeUpdatedToolOutput, mergeToolOutput
    <3>2. \A k \in replaced : k \in PayloadKeys /\ r.out[source(k)] \in V
      BY <2>1 DEF Slots, PayloadKeys, Fields
    <3> HIDE DEF replaced, form
    <3>3. /\ form = [k \in DOMAIN form |-> form[k]]
          /\ DOMAIN form \subseteq PayloadKeys
          /\ \A k \in DOMAIN form : form[k] \in V
      BY <1>1, <3>1, <3>2 DEF IsMap
    <3>4. QED BY <3>3 DEF IsMap, form
  <2>8. QED BY <2>5, <2>6, <2>7
<1>5. QED BY <1>2, <1>3, <1>4
-----------------------------------------------------------------------------
(* The types and the log are kept, along with the invariant above *)

(* No event yet and no line.                                                *)
LEMMA InitTypeLog == Init => TypeInv /\ LogInv
<1> SUFFICES ASSUME Init PROVE TypeInv /\ LogInv
  OBVIOUS
<1>1. All = {} /\ DOMAIN reply = {} /\ DOMAIN started = {} /\ DOMAIN file = {}
  BY DEF Init, All, EmptyMap
<1>2. fired \in 0 .. MaxHooks
  BY BoundsAssumption DEF Init
<1>3. TypeInv
  BY <1>1, <1>2 DEF Init, TypeInv
<1>4. LogInv
  BY <1>1 DEF Init, LogInv
<1>5. QED BY <1>3, <1>4

(* A process that does nothing; its call is not put in by anyone else.      *)
LEMMA ProcTypeKept ==
  ASSUME NEW n, ProcType(n), pc'[n] = pc[n], sid'[n] = sid[n],
         conn'[n] = conn[n], view'[n] = view[n],
         Ids \subseteq Ids', 0 .. life \subseteq 0 .. life',
         <<n, "call">> \in pending' => <<n, "call">> \in pending
  PROVE  ProcType(n)'
BY DEF ProcType

(* There are more ids and more lives of the daemon, never fewer.            *)
LEMMA BoundsGrow ==
  ASSUME minted \in Nat, minted' \in {minted, minted + 1},
         life \in Nat, life' \in {life, life + 1}
  PROVE  Ids \subseteq Ids' /\ 0 .. life \subseteq 0 .. life'
BY DEF Ids

(* Neither the log nor an answer changes, nor the id of an answer's process. *)
LEMMA LogKept ==
  ASSUME LogInv, UNCHANGED <<file, logErrors, shown, reply>>,
         \A n \in DOMAIN reply : sid'[n] = sid[n]
  PROVE  LogInv'
BY DEF LogInv, HasLine

(* The host starts a process.                                               *)
LEMMA FireTypeLog ==
  ASSUME IndInv, TypeInv, LogInv, NEW e \in AllEvents, Fire(e)
  PROVE  TypeInv' /\ LogInv'
<1> DEFINE k == fired + 1
<1>1. /\ fired \in Nat /\ fired' = k /\ fired < MaxHooks
      /\ All' = All \cup {k} /\ k \notin All
  BY DEF Fire, IndInv, ProcInv, All
<1>2. /\ ev'   = [n \in All' |-> IF n = k THEN e ELSE ev[n]]
      /\ pc'   = [n \in All' |-> IF n = k THEN "begin" ELSE pc[n]]
      /\ sid'  = [n \in All' |-> IF n = k THEN NoId ELSE sid[n]]
      /\ conn' = [n \in All' |-> IF n = k THEN 0 ELSE conn[n]]
      /\ view' = [n \in All' |-> IF n = k THEN e.payload ELSE view[n]]
  BY <1>1, AppendOne DEF Fire, IndInv, ProcInv, All
<1>3. UNCHANGED <<up, life, pending, started, reply, minted, file, logErrors, shown>>
  BY DEF Fire, daemon, log
<1> HIDE DEF k
<1>4. \A n \in All : /\ n \in All' /\ n # k /\ ev'[n] = ev[n]
                     /\ pc'[n] = pc[n] /\ sid'[n] = sid[n]
                     /\ conn'[n] = conn[n] /\ view'[n] = view[n]
  BY <1>1, <1>2
<1>5. DOMAIN reply \subseteq All /\ <<k, "call">> \notin pending /\ life \in Nat
  BY <1>1 DEF IndInv, ReplyInv, PendingInv, DaemonInv
<1>6. Ids' = Ids
  BY <1>3 DEF Ids
<1>7. fired' \in 0 .. MaxHooks
  BY <1>1, BoundsAssumption DEF k
<1>8. ASSUME NEW n \in All' PROVE ProcType(n)'
  <2>1. CASE n = k
    <3>1. /\ pc'[n] = "begin" /\ sid'[n] = NoId /\ conn'[n] = 0
          /\ view'[n] = e.payload /\ <<n, "call">> \notin pending'
      BY <1>1, <1>2, <1>3, <1>5, <2>1
    <3>2. 0 \in 0 .. life'
      BY <1>3, <1>5
    <3>3. QED BY <3>1, <3>2, EventType DEF ProcType
  <2>2. CASE n # k
    BY <1>1, <1>3, <1>4, <1>6, <2>2, ProcTypeKept DEF TypeInv
  <2>3. QED BY <2>1, <2>2
<1>9. \A n \in DOMAIN reply' : AnswerType(ev[n], reply[n])'
  BY <1>3, <1>4, <1>5 DEF TypeInv, AnswerType
<1>10. TypeInv'
  BY <1>3, <1>6, <1>7, <1>8, <1>9 DEF TypeInv
<1>11. LogInv'
  BY <1>3, <1>4, <1>5, LogKept
<1>12. QED BY <1>10, <1>11

(* A process recognises its host; its id is what the host gave.             *)
LEMMA BeginTypeLog ==
  ASSUME IndInv, TypeInv, LogInv, NEW n \in All, Begin(n)
  PROVE  TypeInv' /\ LogInv'
<1> DEFINE id == decodedId(resolveAgent(ev[n]), ev[n])
<1>1. /\ UNCHANGED <<fired, ev, conn, view, pending, started, reply, minted,
                     file, logErrors, shown>>
      /\ pc[n] = "begin" /\ sid' = [sid EXCEPT ![n] = id]
  BY DEF Begin, log
<1>2. /\ pc' = [pc EXCEPT ![n] = pc'[n]] /\ pc'[n] \in {"printed", "failed", "dial"}
      /\ \/ UNCHANGED <<up, life>>
         \/ up' = TRUE /\ life' = IF up THEN life ELSE life + 1
  BY DEF Begin, EnsureRunning, Goto, IndInv, ProcInv
<1>3. /\ ev[n] \in AllEvents /\ life \in Nat /\ minted \in Nat /\ All' = All
      /\ n \notin DOMAIN reply /\ <<n, "call">> \notin pending
  BY <1>1 DEF IndInv, ProcInv, PcInv, DaemonInv, TypeInv, All
<1>4. life' \in {life, life + 1} /\ (up => life > 0) /\ (up' => life' > 0)
  BY <1>2, <1>3 DEF TypeInv
<1>5. Ids \subseteq Ids' /\ 0 .. life \subseteq 0 .. life'
  BY <1>1, <1>3, <1>4, BoundsGrow
<1>6. id \in SessionIds \cup {NoId}
  BY <1>3, EventType DEF decodedId
<1> HIDE DEF id
<1>7. ASSUME NEW m \in All PROVE ProcType(m)'
  <2>1. CASE m = n
    <3>1. ProcType(n)
      BY DEF TypeInv
    <3>2. sid'[n] \in (Ids \cup {NoId})'
      BY <1>1, <1>6 DEF Ids, IndInv, ProcInv
    <3>3. QED BY <1>1, <1>2, <1>3, <1>5, <2>1, <3>1, <3>2 DEF ProcType, Ended
  <2>2. CASE m # n
    <3>1. pc'[m] = pc[m] /\ sid'[m] = sid[m]
      BY <1>1, <1>2, <2>2 DEF IndInv, ProcInv
    <3>2. QED BY <1>1, <1>5, <3>1, ProcTypeKept DEF TypeInv
  <2>3. QED BY <2>1, <2>2
<1>8. TypeInv'
  BY <1>1, <1>3, <1>4, <1>5, <1>7 DEF TypeInv, AnswerType
<1>9. \A m \in DOMAIN reply : sid'[m] = sid[m]
  BY <1>1, <1>3 DEF IndInv, ProcInv, ReplyInv
<1>10. LogInv'
  BY <1>1, <1>9, LogKept
<1>11. QED BY <1>8, <1>10

(* A request goes out over a connection to the daemon there is, or fails.   *)
LEMMA SendType ==
  ASSUME IndInv, NEW n \in All, NEW request, Send(n, request)
  PROVE  /\ pc' = [pc EXCEPT ![n] = pc'[n]]
         /\ pc'[n] \in {"starting", "calling", "failed"}
         /\ conn' = [conn EXCEPT ![n] = conn'[n]] /\ conn'[n] \in 0 .. life
         /\ pending' \subseteq pending \cup {<<n, request>>}
<1>1. life \in Nat
  BY DEF IndInv, DaemonInv
<1>2. 0 \in 0 .. life /\ life \in 0 .. life
  BY <1>1
<1>3. QED BY <1>2 DEF Send, Goto, IndInv, ProcInv

(* The first request leaves; the only call among them is for a session that *)
(* the host has named.                                                      *)
LEMMA EnsureSessionTypeLog ==
  ASSUME IndInv, TypeInv, LogInv, NEW n \in All, ensureSession(n)
  PROVE  TypeInv' /\ LogInv'
<1> DEFINE request == IF ev[n].hook = "SessionStop" THEN "call" ELSE "start"
<1>1. /\ UNCHANGED <<fired, ev, sid, view, up, life, started, reply, minted,
                     file, logErrors, shown>>
      /\ pc[n] = "dial" /\ Send(n, request)
  BY DEF ensureSession, log
<1>2. /\ pc' = [pc EXCEPT ![n] = pc'[n]]
      /\ pc'[n] \in {"starting", "calling", "failed"}
      /\ conn' = [conn EXCEPT ![n] = conn'[n]] /\ conn'[n] \in 0 .. life
      /\ pending' \subseteq pending \cup {<<n, request>>}
  BY <1>1, SendType
<1>3. All' = All /\ Ids' = Ids
  BY <1>1 DEF All, Ids
<1>4. request = "call" => sid[n] \in Ids
  BY <1>1, NamedId DEF IndInv, ProcInv, PcInv, Known, Ids
<1> HIDE DEF request
<1>5. ASSUME NEW m \in All PROVE ProcType(m)'
  <2>1. CASE m = n
    <3>1. ProcType(n)
      BY DEF TypeInv
    <3>2. <<n, "call">> \in pending' => sid[n] \in Ids
      BY <1>2, <1>4, <3>1 DEF ProcType
    <3>3. QED BY <1>1, <1>2, <1>3, <2>1, <3>1, <3>2 DEF ProcType, Ended
  <2>2. CASE m # n
    <3>1. /\ pc'[m] = pc[m] /\ conn'[m] = conn[m]
          /\ <<m, "call">> \in pending' => <<m, "call">> \in pending
      BY <1>2, <2>2 DEF IndInv, ProcInv
    <3>2. QED BY <1>1, <1>3, <3>1, ProcTypeKept DEF TypeInv
  <2>3. QED BY <2>1, <2>2
<1>6. TypeInv'
  BY <1>1, <1>3, <1>5 DEF TypeInv, AnswerType
<1>7. LogInv'
  BY <1>1, LogKept
<1>8. QED BY <1>6, <1>7

(* The id of the daemon's answer is the one the call will be served for.    *)
LEMMA StartAnsweredTypeLog ==
  ASSUME IndInv, TypeInv, LogInv, NEW n \in All, StartAnswered(n)
  PROVE  TypeInv' /\ LogInv'
<1>1. /\ UNCHANGED <<fired, ev, view, up, life, reply, minted, file, logErrors, shown>>
      /\ pc[n] = "starting" /\ n \in DOMAIN started
      /\ sid' = [sid EXCEPT ![n] = started[n]]
      /\ started' = MapDelete(started, n)
  BY DEF StartAnswered, log
<1>a. 0 \in 0 .. life
  BY DEF IndInv, DaemonInv
<1>2. /\ pc' = [pc EXCEPT ![n] = pc'[n]]
      /\ pc'[n] \in {"starting", "calling", "failed", "printed"}
      /\ conn' = [conn EXCEPT ![n] = conn'[n]] /\ conn'[n] \in 0 .. life
      /\ pending' \subseteq pending \cup {<<n, "call">>}
  <2>1. CASE ev[n].hook = "SessionStart"
    BY <1>a, <2>1 DEF StartAnswered, Return, Goto, IndInv, ProcInv
  <2>2. CASE ev[n].hook # "SessionStart"
    BY <2>2, SendType DEF StartAnswered
  <2>3. QED BY <2>1, <2>2
<1>3. /\ All' = All /\ Ids' = Ids /\ started[n] \in Ids
      /\ n \notin DOMAIN reply
  BY <1>1 DEF All, Ids, TypeInv, IndInv, PcInv
<1>4. ASSUME NEW m \in All PROVE ProcType(m)'
  <2>1. CASE m = n
    <3>1. ProcType(n)
      BY DEF TypeInv
    <3>2. sid'[n] \in Ids
      BY <1>1, <1>3 DEF IndInv, ProcInv
    <3>3. QED BY <1>1, <1>2, <1>3, <2>1, <3>1, <3>2 DEF ProcType, Ended
  <2>2. CASE m # n
    <3>1. /\ pc'[m] = pc[m] /\ conn'[m] = conn[m] /\ sid'[m] = sid[m]
          /\ <<m, "call">> \in pending' => <<m, "call">> \in pending
      BY <1>1, <1>2, <2>2 DEF IndInv, ProcInv
    <3>2. QED BY <1>1, <1>3, <3>1, ProcTypeKept DEF TypeInv
  <2>3. QED BY <2>1, <2>2
<1>5. TypeInv'
  BY <1>1, <1>3, <1>4 DEF TypeInv, AnswerType, MapDelete
<1>6. \A m \in DOMAIN reply : sid'[m] = sid[m]
  BY <1>1, <1>3 DEF IndInv, ProcInv, ReplyInv
<1>7. LogInv'
  BY <1>1, <1>6, LogKept
<1>8. QED BY <1>5, <1>7

(* A process gives up.                                                      *)
LEMMA CallFailsTypeLog ==
  ASSUME IndInv, TypeInv, LogInv, NEW n \in All, CallFails(n)
  PROVE  TypeInv' /\ LogInv'
<1>1. /\ UNCHANGED <<fired, ev, sid, view, up, life, pending, started, reply,
                     minted, file, logErrors, shown>>
      /\ pc' = [pc EXCEPT ![n] = "failed"] /\ conn' = [conn EXCEPT ![n] = 0]
  BY DEF CallFails, Return, Goto, daemon, log
<1>2. All' = All /\ Ids' = Ids /\ 0 \in 0 .. life
  BY <1>1 DEF All, Ids, IndInv, DaemonInv
<1>3. ASSUME NEW m \in All PROVE ProcType(m)'
  <2>1. ProcType(m)
    BY DEF TypeInv
  <2>2. /\ pc'[m] = IF m = n THEN "failed" ELSE pc[m]
        /\ conn'[m] = IF m = n THEN 0 ELSE conn[m]
    BY <1>1 DEF IndInv, ProcInv
  <2>3. QED BY <1>1, <1>2, <2>1, <2>2 DEF ProcType, Ended
<1>4. TypeInv'
  BY <1>1, <1>2, <1>3 DEF TypeInv, AnswerType
<1>5. LogInv'
  BY <1>1, LogKept
<1>6. QED BY <1>4, <1>5

(* What the process prints is a payload, and its names are in the log       *)
(* because they are in the answer.                                          *)
LEMMA PrintAnswerTypeLog ==
  ASSUME IndInv, TypeInv, LogInv, NEW n \in All, PrintAnswer(n)
  PROVE  TypeInv' /\ LogInv'
<1>1. /\ UNCHANGED <<fired, ev, sid, up, life, pending, started, reply,
                     minted, file, logErrors>>
      /\ pc[n] = "calling" /\ n \in DOMAIN reply
      /\ pc' = [pc EXCEPT ![n] = "printed"] /\ conn' = [conn EXCEPT ![n] = 0]
      /\ view' = [view EXCEPT ![n] = encodeResponse(resolveAgent(ev[n]), ev[n], reply[n])]
  BY DEF PrintAnswer, Return, Goto, daemon, log
<1>2. All' = All /\ Ids' = Ids /\ 0 \in 0 .. life
  BY <1>1 DEF All, Ids, IndInv, DaemonInv
<1>3. view'[n] = encodeResponse(ev[n].host, ev[n], reply[n]) /\ ev[n] \in AllEvents
  BY <1>1 DEF IndInv, PcInv, Known, ProcInv
<1>4. IsMap(view'[n], PayloadKeys, String \cup {NotString})
  BY <1>1, <1>3, EncodedType DEF TypeInv
<1>5. ASSUME NEW m \in All PROVE ProcType(m)'
  <2>1. ProcType(m)
    BY DEF TypeInv
  <2>2. /\ pc'[m] = IF m = n THEN "printed" ELSE pc[m]
        /\ conn'[m] = IF m = n THEN 0 ELSE conn[m]
        /\ m # n => view'[m] = view[m]
    BY <1>1 DEF IndInv, ProcInv
  <2>3. QED BY <1>1, <1>2, <1>4, <2>1, <2>2 DEF ProcType, Ended
<1>6. TypeInv'
  BY <1>1, <1>2, <1>5 DEF TypeInv, AnswerType
<1>7. ASSUME logErrors = 0, NEW x \in shown' PROVE HasLine(x.name, x.sid)
  <2>1. CASE x \in shown
    BY <1>7, <2>1 DEF LogInv
  <2>2. CASE x \notin shown
    <3>1. PICK name \in DOMAIN reply[n].bound : x.sid = sid[n] /\ x.name = name
      BY <2>2 DEF PrintAnswer
    <3>2. QED BY <1>1, <1>7, <3>1 DEF LogInv
  <2>3. QED BY <2>1, <2>2
<1>8. LogInv'
  BY <1>1, <1>7 DEF LogInv, HasLine
<1>9. QED BY <1>6, <1>8

(* session.start is answered with an id the daemon knows.                   *)
LEMMA ServeStartTypeLog ==
  ASSUME IndInv, TypeInv, LogInv, NEW n \in All, ServeStart(n)
  PROVE  TypeInv' /\ LogInv'
<1> DEFINE id == IF sid[n] = NoId THEN minted + 1 ELSE sid[n]
<1>1. /\ UNCHANGED <<fired, ev, pc, sid, conn, view, up, life, reply,
                     file, logErrors, shown>>
      /\ minted' = IF sid[n] = NoId THEN minted + 1 ELSE minted
      /\ pending' = pending \ {<<n, "start">>}
      /\ started' = MapPut(started, n, id)
  BY DEF ServeStart, process, log
<1>2. All' = All /\ life \in Nat /\ minted \in Nat /\ ProcType(n)
  BY <1>1 DEF All, IndInv, DaemonInv, TypeInv
<1>3. Ids \subseteq Ids' /\ 0 .. life \subseteq 0 .. life' /\ minted' \in Nat
  BY <1>1, <1>2, BoundsGrow
<1>4. id \in Ids'
  <2>1. CASE sid[n] = NoId
    <3>1. minted + 1 \in 1 .. minted'
      BY <1>1, <1>2, <2>1
    <3>2. QED BY <2>1, <3>1 DEF Ids
  <2>2. CASE sid[n] # NoId
    BY <1>2, <1>3, <2>2 DEF ProcType
  <2>3. QED BY <2>1, <2>2
<1> HIDE DEF id
<1>5. \A m \in All : ProcType(m)'
  BY <1>1, <1>3, ProcTypeKept DEF TypeInv
<1>6. \A m \in DOMAIN started' : started'[m] \in Ids'
  BY <1>1, <1>3, <1>4 DEF TypeInv, MapPut
<1>7. TypeInv'
  BY <1>1, <1>2, <1>3, <1>5, <1>6 DEF TypeInv, AnswerType
<1>8. LogInv'
  BY <1>1, LogKept
<1>9. QED BY <1>7, <1>8

(* Nothing is logged of a session's end, and the answer is empty.           *)
LEMMA ServeStopTypeLog ==
  ASSUME IndInv, TypeInv, LogInv, NEW n \in All, ServeStop(n)
  PROVE  TypeInv' /\ LogInv'
<1>1. /\ UNCHANGED <<fired, ev, pc, sid, conn, view, up, life, started, minted,
                     file, logErrors, shown>>
      /\ <<n, "call">> \in pending /\ ev[n].hook = "SessionStop"
      /\ pending' = pending \ {<<n, "call">>}
      /\ DOMAIN reply' = DOMAIN reply \cup {n}
      /\ \A m \in DOMAIN reply : m # n => reply'[m] = reply[m]
      /\ reply'[n].bound = EmptyMap /\ reply'[n].out = EmptyMap
  BY DEF ServeStop, process, log, MapPut
<1>2. All' = All /\ Ids' = Ids
  BY <1>1 DEF All, Ids
<1>3. \A m \in All : ProcType(m)'
  BY <1>1, <1>2, ProcTypeKept DEF TypeInv
<1>4. AnswerType(ev[n], reply'[n])
  BY <1>1 DEF AnswerType, IsMap, EmptyMap
<1>5. TypeInv'
  <2>1. ASSUME NEW m \in DOMAIN reply' PROVE AnswerType(ev[m], reply[m])'
    BY <1>1, <1>4 DEF TypeInv, AnswerType
  <2>2. QED BY <1>1, <1>2, <1>3, <2>1 DEF TypeInv
<1>6. LogInv'
  <2>1. ASSUME logErrors = 0, NEW m \in DOMAIN reply', NEW name \in DOMAIN reply'[m].bound
        PROVE  HasLine(name, sid[m])
    <3>1. m # n
      BY <1>1, <2>1 DEF EmptyMap
    <3>2. QED BY <1>1, <2>1, <3>1 DEF LogInv
  <2>2. QED BY <1>1, <2>1 DEF LogInv, HasLine
<1>7. QED BY <1>5, <1>6

(* The answer to a pending hook call, as the daemon would give it now       *)
LEMMA PendingAnswer ==
  ASSUME IndInv, TypeInv, NEW n \in All, <<n, "call">> \in pending,
         ev[n].hook # "SessionStop"
  PROVE  LET a == Answer(resolveAgent(ev[n]), ev[n], getOrCreate(sid[n])[sid[n]])
         IN  /\ AnswerType(ev[n], a)
             /\ Written(sid[n], ev[n], a.names) \in Seq(Writes)
             /\ DOMAIN Written(sid[n], ev[n], a.names) = DOMAIN a.names
             /\ \A i \in DOMAIN a.names :
                  LET w == Written(sid[n], ev[n], a.names)[i]
                  IN  w.part = "whole" /\ w.line.name = a.names[i] /\ w.line.sid = sid[n]
<1> DEFINE e == ev[n]
           s == getOrCreate(sid[n])[sid[n]]
           a == Answer(resolveAgent(e), e, s)
           ws == Written(sid[n], e, a.names)
<1>1. /\ e \in AllEvents /\ Known(n) /\ sid[n] \in Ids
      /\ e.hook \in {"PromptSubmit", "PreToolUse", "PostToolUse"}
  <2>1. e \in AllEvents /\ Known(n) /\ e.hook # "SessionStart"
    BY DEF IndInv, ProcInv, PendingInv
  <2>2. e.hook \in HookTypes
    BY <2>1, EventType
  <2>3. QED BY <2>1, <2>2 DEF HookTypes, TypeInv, ProcType
<1>2. Sound(s)
  BY NewSessionConsistent DEF getOrCreate, MapPut, IndInv, DaemonInv, Sound
<1>3. AnswerType(e, a) /\ a.names \in Seq(Names)
  BY <1>1, <1>2, AnswerIsTyped DEF Known
<1> HIDE DEF a, e
<1> DEFINE names == a.names
<1>4. names \in Seq(Names) /\ e.hook \in HookTypes /\ sid[n] \in SessionIds \cup Nat
  BY <1>1, <1>3 DEF HookTypes, Ids
<1>5. ws = [i \in DOMAIN names |->
             [line |-> [sid |-> sid[n], hook |-> e.hook, name |-> names[i]], part |-> "whole"]]
  BY DEF Written
<1> HIDE DEF names, ws
<1>6. \A i \in DOMAIN names : ws[i] \in Writes
  BY <1>4, <1>5 DEF Writes, Line
<1>7. ws \in Seq(Writes) /\ DOMAIN ws = DOMAIN names
  <2>1. DOMAIN names = 1 .. Len(names) /\ Len(names) \in Nat
    BY <1>4
  <2>2. ws \in [1 .. Len(names) -> Writes]
    BY <1>5, <1>6, <2>1
  <2>3. QED BY <1>5, <2>1, <2>2
<1>8. \A i \in DOMAIN names :
        /\ ws[i].part = "whole" /\ ws[i].line.name = names[i]
        /\ ws[i].line.sid = sid[n]
  BY <1>5
<1>9. QED BY <1>3, <1>7, <1>8 DEF a, e, names, ws

(* What the log holds after an Append: lines, and all of them if it did not *)
(* fail.                                                                    *)
LEMMA AppendsType ==
  ASSUME LogInv, NEW ws \in Seq(Writes), NEW left \in Appends(ws)
  PROVE  /\ left.file \in Seq(Writes) /\ left.errors \in Nat
         /\ left.errors = 0 => logErrors = 0 /\ left.file = file \o ws
<1>1. file \in Seq(Writes) /\ logErrors \in Nat
  BY DEF LogInv
<1>2. \A i \in 0 .. Len(ws) - 1 : SubSeq(ws, 1, i) \in Seq(Writes) /\ ws[i + 1] \in Writes
  OBVIOUS
<1>3. CASE left = [file |-> file \o ws, errors |-> logErrors]
  BY <1>1, <1>3
<1>4. ASSUME NEW i \in 0 .. Len(ws) - 1, NEW rest \in Torn(ws[i + 1]),
             left = [file   |-> file \o SubSeq(ws, 1, i) \o rest,
                     errors |-> logErrors + 1]
      PROVE  left.file \in Seq(Writes) /\ left.errors \in Nat /\ left.errors # 0
  <2> DEFINE r == SubSeq(ws, 1, i)
  <2>1. rest \in Seq(Writes)
    <3>1. CASE rest = << >>
      BY <3>1
    <3>2. ASSUME NEW part \in {"bare", "cut"}, rest = <<[ws[i + 1] EXCEPT !.part = part]>>
          PROVE  rest \in Seq(Writes)
      <4>1. [ws[i + 1] EXCEPT !.part = part] \in Writes
        BY <1>2 DEF Writes
      <4>2. QED BY <3>2, <4>1
    <3>3. QED BY <3>1, <3>2 DEF Torn
  <2>2. r \in Seq(Writes)
    BY <1>2
  <2> HIDE DEF r
  <2>3. file \o r \o rest \in Seq(Writes)
    BY <1>1, <2>1, <2>2
  <2>4. left.file = file \o r \o rest /\ left.errors = logErrors + 1
    BY <1>4 DEF r
  <2>5. QED BY <1>1, <2>3, <2>4
<1>5. QED BY <1>3, <1>4 DEF Appends

(* Lines go to the end of the log and stay where they are.                  *)
LEMMA LinesStay ==
  ASSUME NEW f \in Seq(Writes), NEW ws \in Seq(Writes)
  PROVE  /\ \A i \in DOMAIN f : i \in DOMAIN (f \o ws) /\ (f \o ws)[i] = f[i]
         /\ \A i \in DOMAIN ws : /\ Len(f) + i \in DOMAIN (f \o ws)
                                 /\ (f \o ws)[Len(f) + i] = ws[i]
         /\ \A i \in DOMAIN (f \o ws) :
              (\E j \in DOMAIN f : (f \o ws)[i] = f[j]) \/ (\E j \in DOMAIN ws : (f \o ws)[i] = ws[j])
<1>1. \A i \in DOMAIN f : i \in DOMAIN (f \o ws) /\ (f \o ws)[i] = f[i]
  OBVIOUS
<1>2. \A i \in DOMAIN ws : /\ Len(f) + i \in DOMAIN (f \o ws)
                           /\ (f \o ws)[Len(f) + i] = ws[i]
  OBVIOUS
<1>3. ASSUME NEW i \in DOMAIN (f \o ws)
      PROVE  (\E j \in DOMAIN f : (f \o ws)[i] = f[j]) \/ (\E j \in DOMAIN ws : (f \o ws)[i] = ws[j])
  <2>1. CASE i \in DOMAIN f
    BY <1>1, <2>1
  <2>2. CASE i \notin DOMAIN f
    <3>1. i - Len(f) \in DOMAIN ws /\ Len(f) + (i - Len(f)) = i
      BY <2>2
    <3>2. QED BY <1>2, <3>1
  <2>3. QED BY <2>1, <2>2
<1>4. QED BY <1>1, <1>2, <1>3

(* The daemon serves a hook call: it writes a line for every name it tells. *)
LEMMA ServeHookTypeLog ==
  ASSUME IndInv, TypeInv, LogInv, NEW n \in All, ServeHook(n)
  PROVE  TypeInv' /\ LogInv'
<1> DEFINE e == ev[n]
           a == Answer(resolveAgent(e), e, getOrCreate(sid[n])[sid[n]])
           ws == Written(sid[n], e, a.names)
<1>1. /\ UNCHANGED <<fired, ev, pc, sid, conn, view, up, life, started, minted, shown>>
      /\ <<n, "call">> \in pending /\ e.hook # "SessionStop"
      /\ pending' = pending \ {<<n, "call">>}
      /\ DOMAIN reply' = DOMAIN reply \cup {n}
      /\ \A m \in DOMAIN reply : m # n => reply'[m] = reply[m]
      /\ reply'[n].out = a.out /\ DOMAIN reply'[n].bound = NamesOf(a)
      /\ \E left \in Appends(ws) : file' = left.file /\ logErrors' = left.errors
  BY DEF ServeHook, process, MapPut
<1>2. /\ AnswerType(e, a) /\ ws \in Seq(Writes) /\ DOMAIN ws = DOMAIN a.names
      /\ \A i \in DOMAIN a.names :
           ws[i].part = "whole" /\ ws[i].line.name = a.names[i] /\ ws[i].line.sid = sid[n]
  BY <1>1, PendingAnswer
<1> HIDE DEF a, ws
<1>3. All' = All /\ Ids' = Ids
  BY <1>1 DEF All, Ids
<1>4. \A m \in All : ProcType(m)'
  BY <1>1, <1>3, ProcTypeKept DEF TypeInv
<1>5. TypeInv'
  <2>1. ASSUME NEW m \in DOMAIN reply' PROVE AnswerType(ev[m], reply[m])'
    BY <1>1, <1>2 DEF TypeInv, AnswerType
  <2>2. QED BY <1>1, <1>3, <1>4, <2>1 DEF TypeInv
<1>6. /\ file' \in Seq(Writes) /\ logErrors' \in Nat
      /\ logErrors' = 0 => logErrors = 0 /\ file' = file \o ws
  BY <1>1, <1>2, AppendsType
<1>7. ASSUME logErrors' = 0
      PROVE  /\ \A i \in DOMAIN file' : file'[i].part = "whole"
             /\ \A m \in DOMAIN reply' : \A name \in DOMAIN reply'[m].bound :
                  HasLine(name, sid[m])'
             /\ \A x \in shown' : HasLine(x.name, x.sid)'
  <2>1. /\ file \in Seq(Writes) /\ file' = file \o ws
        /\ \A i \in DOMAIN file : file[i].part = "whole"
        /\ \A m \in DOMAIN reply : \A name \in DOMAIN reply[m].bound :
             HasLine(name, sid[m])
        /\ \A x \in shown : HasLine(x.name, x.sid)
    BY <1>6, <1>7 DEF LogInv
  <2>2. /\ \A i \in DOMAIN file : i \in DOMAIN file' /\ file'[i] = file[i]
        /\ \A i \in DOMAIN ws : Len(file) + i \in DOMAIN file' /\ file'[Len(file) + i] = ws[i]
        /\ \A i \in DOMAIN file' :
             (\E j \in DOMAIN file : file'[i] = file[j]) \/ (\E j \in DOMAIN ws : file'[i] = ws[j])
    BY <1>2, <2>1, LinesStay
  <2>3. \A name, id : HasLine(name, id) =>
          \E i \in DOMAIN file' : file'[i].line.name = name /\ file'[i].line.sid = id
    BY <2>2 DEF HasLine
  <2>4. \A i \in DOMAIN file' : file'[i].part = "whole"
    BY <1>2, <2>1, <2>2
  <2>5. ASSUME NEW m \in DOMAIN reply', NEW name \in DOMAIN reply'[m].bound
        PROVE  \E i \in DOMAIN file' : file'[i].line.name = name /\ file'[i].line.sid = sid[m]
    <3>1. CASE m # n
      <4>1. m \in DOMAIN reply /\ name \in DOMAIN reply[m].bound
        BY <1>1, <2>5, <3>1
      <4>2. HasLine(name, sid[m])
        BY <2>1, <4>1
      <4>3. QED BY <2>3, <4>2
    <3>2. CASE m = n
      <4>1. PICK i \in DOMAIN a.names : a.names[i] = name
        BY <1>1, <2>5, <3>2 DEF NamesOf
      <4>2. QED BY <1>2, <2>2, <3>2, <4>1
    <3>3. QED BY <3>1, <3>2
  <2>6. \A x \in shown' : \E i \in DOMAIN file' :
          file'[i].line.name = x.name /\ file'[i].line.sid = x.sid
    BY <1>1, <2>1, <2>3
  <2>7. sid' = sid
    BY <1>1
  <2>8. QED BY <2>4, <2>5, <2>6, <2>7 DEF HasLine
<1>8. LogInv'
  BY <1>1, <1>6, <1>7 DEF LogInv
<1>9. QED BY <1>5, <1>8

(* A death of the daemon leaves whole lines only.                           *)
LEMMA KillTypeLog ==
  ASSUME IndInv, TypeInv, LogInv, Kill
  PROVE  TypeInv' /\ LogInv'
<1>1. /\ UNCHANGED <<fired, ev, pc, sid, conn, view, life, started, reply, minted,
                     logErrors, shown>>
      /\ ~up' /\ pending' = {}
  BY DEF Kill, process
<1>2. All' = All /\ Ids' = Ids
  BY <1>1 DEF All, Ids
<1>3. \A m \in All : ProcType(m)'
  BY <1>1, <1>2, ProcTypeKept DEF TypeInv
<1>4. TypeInv'
  BY <1>1, <1>2, <1>3 DEF TypeInv, AnswerType
<1>5. CASE UNCHANGED file
  BY <1>1, <1>4, <1>5, LogKept
<1>6. ASSUME NEW n \in All, <<n, "call">> \in pending, ev[n].hook # "SessionStop",
             LET a == Answer(resolveAgent(ev[n]), ev[n], getOrCreate(sid[n])[sid[n]])
                 lines == Written(sid[n], ev[n], a.names)
             IN  \E i \in DOMAIN lines : file' = file \o SubSeq(lines, 1, i)
      PROVE  LogInv'
  <2> DEFINE a == Answer(resolveAgent(ev[n]), ev[n], getOrCreate(sid[n])[sid[n]])
             lines == Written(sid[n], ev[n], a.names)
  <2>1. /\ lines \in Seq(Writes) /\ DOMAIN lines = DOMAIN a.names
        /\ \A i \in DOMAIN a.names : lines[i].part = "whole"
    BY <1>6, PendingAnswer
  <2>2. PICK i \in DOMAIN lines : file' = file \o SubSeq(lines, 1, i)
    BY <1>6
  <2> HIDE DEF a, lines
  <2> DEFINE ws == SubSeq(lines, 1, i)
  <2>3. ws \in Seq(Writes) /\ \A j \in DOMAIN ws : ws[j].part = "whole"
    BY <2>1
  <2> HIDE DEF ws
  <2>4. file \in Seq(Writes) /\ file' = file \o ws
    BY <2>2 DEF ws, LogInv
  <2>5. /\ \A j \in DOMAIN file : j \in DOMAIN file' /\ file'[j] = file[j]
        /\ \A j \in DOMAIN file' :
             (\E k \in DOMAIN file : file'[j] = file[k]) \/ (\E k \in DOMAIN ws : file'[j] = ws[k])
    BY <2>3, <2>4, LinesStay
  <2>6. file' \in Seq(Writes)
    BY <2>3, <2>4
  <2>7. \A name, id : HasLine(name, id) =>
          \E j \in DOMAIN file' : file'[j].line.name = name /\ file'[j].line.sid = id
    BY <2>5 DEF HasLine
  <2>8. logErrors = 0 => \A j \in DOMAIN file' : file'[j].part = "whole"
    BY <2>3, <2>5 DEF LogInv
  <2>9. ASSUME NEW name, NEW id, HasLine(name, id) PROVE HasLine(name, id)'
    <3>1. \E j \in DOMAIN file' : file'[j].line.name = name /\ file'[j].line.sid = id
      BY <2>7, <2>9
    <3>2. QED BY <3>1 DEF HasLine
  <2>10. logErrors' = 0 =>
           /\ \A m \in DOMAIN reply' : \A name \in DOMAIN reply'[m].bound :
                HasLine(name, sid[m])'
           /\ \A x \in shown' : HasLine(x.name, x.sid)'
    BY <1>1, <2>9 DEF LogInv
  <2>11. logErrors' \in Nat
    BY <1>1 DEF LogInv
  <2>12. QED BY <1>1, <2>6, <2>8, <2>10, <2>11 DEF LogInv
<1>7. QED BY <1>4, <1>5, <1>6 DEF Kill

(* The types of all variables and the state of the log.                     *)
THEOREM TypeLogInv == Spec => [](IndInv /\ TypeInv /\ LogInv)
<1>1. ASSUME IndInv, TypeInv, LogInv, [Next]_vars PROVE TypeInv' /\ LogInv'
  <2>1. ASSUME NEW e \in Events \cup LoneEvents, Fire(e) PROVE TypeInv' /\ LogInv'
    BY <1>1, <2>1, FireTypeLog DEF AllEvents
  <2>2. ASSUME NEW n \in All, Step(n) PROVE TypeInv' /\ LogInv'
    BY <1>1, <2>2, BeginTypeLog, EnsureSessionTypeLog, StartAnsweredTypeLog,
      PrintAnswerTypeLog, CallFailsTypeLog DEF Step
  <2>3. ASSUME NEW n \in All, Serve(n) PROVE TypeInv' /\ LogInv'
    BY <1>1, <2>3, ServeStartTypeLog, ServeStopTypeLog, ServeHookTypeLog DEF Serve
  <2>4. CASE Kill
    BY <1>1, <2>4, KillTypeLog
  <2>5. CASE UNCHANGED vars
    <3>1. UNCHANGED <<fired, ev, pc, sid, conn, view, up, life, pending, reply,
                      started, minted, file, logErrors, shown>>
      BY <2>5 DEF vars, process, daemon, log
    <3>2. All' = All /\ Ids' = Ids
      BY <3>1 DEF All, Ids
    <3>3. TypeInv'
      BY <1>1, <3>1, <3>2 DEF TypeInv, ProcType, AnswerType
    <3>4. QED BY <1>1, <3>1, <3>3, LogKept
  <2>6. QED BY <1>1, <2>1, <2>2, <2>3, <2>4, <2>5 DEF Next
<1>2. QED BY InitTypeLog, CommandIndInv, <1>1, PTL DEF Spec

(* The variables hold what the comments say, for any instance.              *)
THEOREM TypeCorrect == Spec => []TypeOK
<1>1. ASSUME IndInv, TypeInv, LogInv PROVE TypeOK
  <2>1. {DOMAIN ev, DOMAIN pc, DOMAIN sid, DOMAIN conn, DOMAIN view} = {All}
    BY <1>1 DEF IndInv, ProcInv
  <2>2. ASSUME NEW n \in All
        PROVE  /\ IsEvent(ev[n])
               /\ pc[n] \in {"begin", "dial", "starting", "calling"} \cup Ended
               /\ sid[n] \in SessionIds \cup {NoId} \cup (1 .. minted)
               /\ conn[n] \in 0 .. life
               /\ IsMap(view[n], Fields \cup Inputs \cup {"text"}, String \cup {NotString})
    BY <1>1, EventType DEF IndInv, ProcInv, TypeInv, ProcType, Ids, PayloadKeys
  <2>3. fired \in 0 .. MaxHooks /\ up \in BOOLEAN /\ life \in Nat /\ (up => life > 0)
    BY <1>1 DEF IndInv, DaemonInv, TypeInv
  <2>4. \A id \in DOMAIN sessions : IsSession(sessions[id]) /\ Consistent(sessions[id])
    BY <1>1 DEF IndInv, DaemonInv, Sound
  <2>5. /\ pending \subseteq All \X {"start", "call"}
        /\ DOMAIN started \subseteq All /\ DOMAIN reply \subseteq All
    BY <1>1 DEF IndInv, PendingInv, StartedInv, ReplyInv
  <2>6. \A i \in DOMAIN file : file[i] \in Writes
    BY <1>1 DEF LogInv
  <2>7. QED BY <2>1, <2>2, <2>3, <2>4, <2>5, <2>6 DEF TypeOK
<1>2. QED BY TypeLogInv, <1>1, PTL

(* Whatever name a host is shown has a line in the log, which can be read:  *)
(* however many hooks run at once and however often the daemon is killed.   *)
THEOREM AuditToldHolds == Spec => []AuditTold
<1>1. ASSUME LogInv PROVE AuditTold
  <2>1. SUFFICES ASSUME logErrors = 0
                 PROVE  /\ Readable(file)
                        /\ \A x \in shown : \E i \in DOMAIN ReadLog(file, x.name) :
                             ReadLog(file, x.name)[i].line.sid = x.sid
    BY DEF AuditTold
  <2>2. Readable(file)
    BY <1>1, <2>1 DEF LogInv, Readable
  <2>3. ASSUME NEW x \in shown
        PROVE  \E i \in DOMAIN ReadLog(file, x.name) :
                 ReadLog(file, x.name)[i].line.sid = x.sid
    <3> DEFINE keep == {w \in Writes : w.line.name = x.name}
    <3>1. file \in Seq(Writes)
      BY <1>1 DEF LogInv
    <3>2. PICK j \in DOMAIN file : file[j].line.name = x.name /\ file[j].line.sid = x.sid
      BY <1>1, <2>1, <2>3 DEF LogInv, HasLine
    <3>3. file[j] \in keep
      BY <3>1, <3>2
    <3>4. ReadLog(file, x.name) = Filter(file, keep)
      BY DEF ReadLog
    <3> HIDE DEF keep
    <3>5. PICK i \in DOMAIN Filter(file, keep) : Filter(file, keep)[i] = file[j]
      BY <3>1, <3>3, FilterHas
    <3>6. QED BY <3>2, <3>4, <3>5
  <2>4. QED BY <2>2, <2>3
<1>2. QED BY TypeLogInv, <1>1, PTL
=============================================================================
