---------------------------- MODULE HookCommand -----------------------------
(* The hook commands a host starts (src/internal/cli/hook.go): one process  *)
(* per event, which finds out the host, decodes the event, makes sure that  *)
(* the daemon runs, calls it twice and prints an answer in the host's form  *)
(* (src/internal/agent/claudecode/event.go, .../cursor/event.go), or fails  *)
(* and prints nothing.  And the log the daemon writes of what it redacted   *)
(* (src/internal/audit/log.go).                                             *)
(*                                                                          *)
(* The daemon serves a request in one step; HookSessions has the steps.  A  *)
(* string is a secret (the detector finds it whole), a placeholder name,    *)
(* Plain or Empty.                                                          *)
EXTENDS Naturals, Sequences, FiniteSets, SessionMap, GoSlices

CONSTANTS SessionIds,    \* session ids of the hosts
          NoId,          \* "", for a session id that is not given
          Plain, Empty,  \* a string without a secret, and ""
          NotString,     \* a JSON value that is no string
          Events,        \* events that may follow on each other
          LoneEvents,    \* bound: events looked at on their own
          MaxHooks,      \* bound: events
          MaxAtOnce,     \* bound: hook processes at a time
          MaxKills,      \* bound: deaths of the daemon
          MaxLogErrors   \* bound: failing writes of the log

ASSUME ValuesAssumption ==
  /\ Cardinality({NoId, Plain, Empty, NotString}) = 4
  /\ {NoId, Plain, Empty, NotString} \cap (SessionIds \cup Literals) = {}
  /\ \A v \in Literals \cup {Plain, Empty} : v \notin Names
ASSUME PrefixAssumption == "S" \in Prefixes
ASSUME BoundsAssumption ==
  {MaxHooks, MaxAtOnce, MaxKills, MaxLogErrors} \subseteq Nat

VARIABLES
  fired,     \* number of events so far: each has a hook process
  ev,        \* the event of each
  pc,        \* where each process is
  sid,       \* the session id it uses with the daemon
  conn,      \* which life of the daemon its connection is with, or 0
  view,      \* what the host goes on with: the event's payload, or what
             \* the process printed in its place
  up,        \* does a daemon listen?
  life,      \* how many daemons there have been
  sessions,  \* the daemon's sessions
  pending,   \* requests the daemon has not served: <<process, "start"/"call">>
  started,   \* answers to session.start: process -> session id
  reply,     \* answers to the hook calls: process -> answer
  minted,    \* session ids the daemon has made up
  file,      \* audit.log, as the writes that made it
  logErrors, \* failing writes, for MaxLogErrors
  stops,     \* ghost: session.stop requests served, per session id
  shown      \* ghost: names that reached a host, with their secrets

process == <<fired, ev, pc, sid, conn, view>>
daemon  == <<up, life, sessions, pending, started, reply, minted>>
log     == <<file, logErrors>>
vars    == <<process, daemon, log, stops, shown>>

-----------------------------------------------------------------------------
(* Events as the hosts send them.  A payload is a map: a prompt or a string *)
(* for a tool's answer has the key "text".                                  *)

String == Literals \cup Names \cup {Plain, Empty}

(* fields the adapters know in a tool's answer, and another one *)
Fields == {"stdout", "stderr", "content", "fileContent", "diff", "other"}
Slots  == {"stdout", "stderr", "content", "diff"}

(* keys of a tool's input, and one of Lockie's own *)
Inputs == {"command", "__lockie_"}

Hosts == {"claude-code", "cursor"}

HookTypes ==
  {"SessionStart", "PromptSubmit", "PreToolUse", "PostToolUse", "SessionStop"}

(* kind: what a tool's answer is in JSON.  Both hosts may leave out the     *)
(* session id, and the user may pin the agent (LOCKIE_AGENT).               *)
IsEvent(e) ==
  /\ e.host \in Hosts /\ e.hook \in HookTypes
  /\ e.sid \in SessionIds \cup {NoId} /\ e.pinned \in BOOLEAN
  /\ e.kind \in {"string", "object", "other"}
  /\ IsMap(e.payload, Fields \cup Inputs \cup {"text"}, String \cup {NotString})
  /\ e.hook = "PostToolUse" =>
       CASE e.kind = "string" -> DOMAIN e.payload = {"text"}
         [] e.kind = "object" -> DOMAIN e.payload \subseteq Fields
         [] OTHER             -> DOMAIN e.payload = {}

ASSUME EventsAssumption == \A e \in Events \cup LoneEvents : IsEvent(e)

IsNamed(e) == e.sid # NoId

(* resolveAgent: Claude Code names the hook in the event, Cursor does not,  *)
(* so without an id and a pin a Cursor event is not recognised              *)
Keys(e) == IF e.host = "claude-code"
           THEN {"hook_event_name"} \cup (IF IsNamed(e) THEN {"session_id"} ELSE {})
           ELSE IF IsNamed(e) THEN {"sessionId"} ELSE {}

(* mutant: any event with a session id is taken for Cursor's *)
resolveAgentById(e) ==
  IF e.pinned THEN e.host
  ELSE IF Keys(e) \cap {"sessionId", "session_id"} # {} THEN "cursor"
  ELSE IF "hook_event_name" \in Keys(e) THEN "claude-code" ELSE "none"

resolveAgent(e) ==
  IF e.pinned THEN e.host
  ELSE IF "hook_event_name" \in Keys(e) THEN "claude-code"
  ELSE IF "sessionId" \in Keys(e) THEN "cursor"
  ELSE IF "session_id" \in Keys(e) THEN "claude-code"
  ELSE "none"

(* DecodeEvent: each adapter reads the id under its own key *)
decodedId(agent, e) ==
  IF (IF agent = "cursor" THEN "sessionId" ELSE "session_id") \in Keys(e)
  THEN e.sid ELSE NoId

stringField(m, key) ==
  IF key \in DOMAIN m /\ m[key] # NotString THEN m[key] ELSE Empty

firstNonEmpty(vals) ==
  LET full == {i \in DOMAIN vals : vals[i] # Empty}
  IN  IF full = {} THEN Empty
      ELSE vals[CHOOSE i \in full : \A j \in full : i <= j]

(* What an adapter finds of the payload: the hosts share the key of a       *)
(* prompt and no other                                                      *)
mapField(agent, e) ==
  IF agent = e.host \/ e.hook = "PromptSubmit" THEN e.payload ELSE EmptyMap

NoOutput == [slot \in Slots |-> Empty]

(* mutant: the content of a file is not looked for under its second name *)
decodeToolResponseNoFile(kind, m) ==
  CASE kind = "object" -> [slot \in Slots |-> stringField(m, slot)]
    [] kind = "string" -> [NoOutput EXCEPT !["content"] = stringField(m, "text")]
    [] OTHER -> NoOutput

(* Claude's adapter: the four strings the daemon is sent of an answer       *)
decodeToolResponse(kind, m) ==
  CASE kind = "object" ->
         [slot \in Slots |->
            IF slot = "content"
            THEN firstNonEmpty(<<stringField(m, "content"),
                                 stringField(m, "fileContent")>>)
            ELSE stringField(m, slot)]
    [] kind = "string" -> [NoOutput EXCEPT !["content"] = stringField(m, "text")]
    [] OTHER -> NoOutput

(* Cursor's adapter takes objects only and knows no fileContent *)
decodeToolOutput(kind, m) ==
  IF kind = "object" THEN [slot \in Slots |-> stringField(m, slot)] ELSE NoOutput

decodedOutput(agent, e) ==
  IF agent = "cursor" THEN decodeToolOutput(e.kind, mapField(agent, e))
  ELSE decodeToolResponse(e.kind, mapField(agent, e))

-----------------------------------------------------------------------------
(* The daemon's handlers *)

(* Redact of one string, after others: the session, the answer so far and   *)
(* the placeholders minted or met, in order *)
Redacted(done, slot, v) ==
  IF v \notin Literals THEN [done EXCEPT !.out = MapPut(@, slot, v)]
  ELSE LET r == PlaceholderFor(done.session, v, "S")
       IN  [session |-> r.session,
            out     |-> MapPut(done.out, slot, r.name),
            names   |-> Append(done.names, r.name)]

NothingYet(s) == [session |-> s, out |-> EmptyMap, names |-> << >>]

(* redactOutput, field by field in the order of its table *)
redactOutput(s, m) ==
  LET a == Redacted(NothingYet(s), "stdout", m["stdout"])
      b == Redacted(a, "stderr", m["stderr"])
      c == Redacted(b, "content", m["content"])
  IN  Redacted(c, "diff", m["diff"])

rehydrateMap(s, m) ==
  [k \in DOMAIN m |->
     IF m[k] \in Names /\ Registered(s, m[k]) THEN ResolveAlias(s, m[k]) ELSE m[k]]

(* stripLockieMeta *)
stripLockieMeta(m) == [k \in DOMAIN m \ {"__lockie_"} |-> m[k]]

(* A hook request to a session: session after it, answer, names to log *)
Answer(agent, e, s) ==
  CASE e.hook = "PromptSubmit" ->
         LET r == Redacted(NothingYet(s), "text", stringField(mapField(agent, e), "text"))
         IN  [session |-> r.session, names |-> r.names, out |-> r.out,
              modified |-> r.names # << >>]
    [] e.hook = "PostToolUse" ->
         LET r == redactOutput(s, decodedOutput(agent, e))
         IN  [session |-> r.session, names |-> r.names, out |-> r.out,
              modified |-> r.names # << >>]
    [] e.hook = "PreToolUse" ->
         LET m == stripLockieMeta(mapField(agent, e))
             r == rehydrateMap(s, m)
         IN  [session |-> s, names |-> << >>, out |-> r, modified |-> r # m]

-----------------------------------------------------------------------------
(* EncodeResponse: what takes the payload's place, unless nothing does *)

primaryOutputText(out) ==
  firstNonEmpty(<<out["content"], out["stdout"], out["stderr"], out["diff"]>>)

(* mutant: the one string that hosts without fields get, in every field *)
mergeToolOutputShifted(raw, out) ==
  [k \in DOMAIN raw |->
     IF k \in Slots THEN primaryOutputText(out) ELSE raw[k]]

(* mergeToolOutput: a field of the tool's answer is replaced by the daemon's *)
(* string for it, fileContent by the one for content                        *)
mergeToolOutput(raw, out) ==
  LET source(k) == IF k = "fileContent" THEN "content" ELSE k
      replaced  == {k \in Slots \cup {"fileContent"} :
                      /\ out[source(k)] # Empty
                      /\ k \in DOMAIN raw \cup {"stdout", "content"}}
  IN  [k \in DOMAIN raw \cup replaced |->
         IF k \in replaced THEN out[source(k)] ELSE raw[k]]

(* ResponseFromPostTool, encodeUpdatedToolOutput: the shape of the answer   *)
encodeUpdatedToolOutput(e, out) ==
  IF e.kind = "string" THEN MapPut(EmptyMap, "text", primaryOutputText(out))
  ELSE mergeToolOutput(e.payload, out)

(* Cursor's modifiedOutput has one string *)
modifiedOutput(out) == MapPut(EmptyMap, "content", primaryOutputText(out))

encodeResponse(agent, e, r) ==
  IF ~r.modified THEN e.payload
  ELSE IF e.hook # "PostToolUse" THEN r.out
  ELSE IF agent = "cursor" THEN modifiedOutput(r.out)
  ELSE encodeUpdatedToolOutput(e, r.out)

-----------------------------------------------------------------------------
(* The log: one write per line.  A write that fails may leave part of its   *)
(* line, or all but the newline, and the next one goes on right behind.     *)

Line == [sid : SessionIds \cup Nat, hook : HookTypes, name : Names]

Writes == [line : Line, part : {"whole", "bare", "cut"}]

(* mutant: one line for the request instead of one per finding *)
WrittenOnce(id, e, names) ==
  [i \in DOMAIN names \cap {1} |->
     [line |-> [sid |-> id, hook |-> e.hook, name |-> names[i]], part |-> "whole"]]

Written(id, e, names) ==
  [i \in DOMAIN names |->
     [line |-> [sid |-> id, hook |-> e.hook, name |-> names[i]], part |-> "whole"]]

(* Read, with the filter of `lockie audit --name`: a line that does not     *)
(* parse fails it                                                           *)
Readable(f) ==
  \A i \in DOMAIN f : f[i].part = "whole" \/ (f[i].part = "bare" /\ i = Len(f))

ReadLog(f, name) == Filter(f, {w \in Writes : w.line.name = name})

(* What a write that fails may leave of its line *)
Torn(w) == {<< >>} \cup {<<[w EXCEPT !.part = part]>> : part \in {"bare", "cut"}}

(* What Append may leave of these lines: all; or, when it fails, the first  *)
(* few and what is left of the next one                                     *)
Appends(writes) ==
  {[file |-> file \o writes, errors |-> logErrors]}
    \cup IF logErrors = MaxLogErrors THEN {}
         ELSE UNION {{[file   |-> file \o SubSeq(writes, 1, i) \o rest,
                       errors |-> logErrors + 1] : rest \in Torn(writes[i + 1])} :
                      i \in 0 .. Len(writes) - 1}

-----------------------------------------------------------------------------
(* The hook processes *)

All == 1 .. fired

Goto(n, label) == pc' = [pc EXCEPT ![n] = label]

Init ==
  /\ fired = 0
  /\ ev = << >> /\ pc = << >> /\ sid = << >> /\ conn = << >>
  /\ view = << >>
  /\ up = FALSE /\ life = 0  \* the first hook starts the daemon
  /\ sessions = EmptyMap /\ pending = {} /\ minted = 0
  /\ started = EmptyMap /\ reply = EmptyMap
  /\ file = << >> /\ logErrors = 0
  /\ stops = [s \in SessionIds |-> 0]
  /\ shown = {}

Ended == {"printed", "failed"}

(* The host starts a hook process *)
Fire(e) ==
  /\ fired < MaxHooks
  /\ fired > 0 => {ev[1], e} \subseteq Events
  /\ Cardinality({n \in All : pc[n] \notin Ended}) < MaxAtOnce
  /\ fired' = fired + 1
  /\ ev' = Append(ev, e)
  /\ pc' = Append(pc, "begin")
  /\ sid' = Append(sid, NoId)
  /\ conn' = Append(conn, 0)
  /\ view' = Append(view, e.payload)
  /\ UNCHANGED <<daemon, log, stops, shown>>

(* hookClient: EnsureRunning, which starts a daemon if none answers and     *)
(* fails if that does not help                                              *)
EnsureRunning(n) ==
  \/ Goto(n, "dial") /\ up' = TRUE /\ life' = (IF up THEN life ELSE life + 1)
  \/ Goto(n, "failed") /\ ~up /\ UNCHANGED <<up, life>>

(* resolveAgent, DecodeEvent and hookClient; a session without an id is not *)
(* stopped                                                                  *)
Begin(n) ==
  /\ pc[n] = "begin"
  /\ LET agent == resolveAgent(ev[n])
         id    == decodedId(agent, ev[n])
         idle  == ev[n].hook = "SessionStop" /\ id = NoId
     IN  /\ IF agent = "none" \/ idle
            THEN /\ Goto(n, IF idle /\ agent # "none" THEN "printed" ELSE "failed")
                 /\ UNCHANGED <<up, life>>
            ELSE EnsureRunning(n)
         /\ sid' = [sid EXCEPT ![n] = id]
  /\ UNCHANGED <<fired, ev, conn, view, sessions, pending, started, reply,
                 minted, log, stops, shown>>

(* Client.Call: dials for the first request and sends the second one over   *)
(* the same connection, which fails if that daemon is gone                  *)
Send(n, request) ==
  IF up /\ conn[n] \in {0, life}
  THEN /\ conn' = [conn EXCEPT ![n] = life]
       /\ pending' = pending \cup {<<n, request>>}
       /\ Goto(n, IF request = "start" THEN "starting" ELSE "calling")
  ELSE /\ conn' = [conn EXCEPT ![n] = 0]
       /\ pending' = pending
       /\ Goto(n, "failed")

(* ensureSession, which is all of session-start; session-stop has only the  *)
(* one call                                                                 *)
ensureSession(n) ==
  /\ pc[n] = "dial"
  /\ Send(n, IF ev[n].hook = "SessionStop" THEN "call" ELSE "start")
  /\ UNCHANGED <<fired, ev, sid, view, up, life, sessions, started, reply, minted,
                 log, stops, shown>>

(* The command returns: it closes its client, and no answer reaches it more *)
Return(n, label) ==
  /\ Goto(n, label)
  /\ conn' = [conn EXCEPT ![n] = 0]

(* The answer to session.start, with the id the daemon made up if need be;  *)
(* the hook call follows at once                                            *)
StartAnswered(n) ==
  /\ pc[n] = "starting" /\ n \in DOMAIN started
  /\ sid' = [sid EXCEPT ![n] = started[n]]
  /\ started' = MapDelete(started, n)
  /\ IF ev[n].hook = "SessionStart"
     THEN Return(n, "printed") /\ UNCHANGED pending
     ELSE Send(n, "call")
  /\ UNCHANGED <<fired, ev, view, up, life, sessions, reply, minted, log, stops,
                 shown>>

(* The daemon goes away or the deadline passes: the process gives up, and   *)
(* an answer still on its way reaches nobody                                *)
CallFails(n) ==
  /\ pc[n] \in {"starting", "calling"}
  /\ Return(n, "failed")
  /\ UNCHANGED <<fired, ev, sid, view, daemon, log, stops, shown>>

(* The process encodes the answer and prints it; the host takes it in place *)
(* of what it sent                                                          *)
PrintAnswer(n) ==
  /\ pc[n] = "calling" /\ n \in DOMAIN reply
  /\ view' = [view EXCEPT ![n] = encodeResponse(resolveAgent(ev[n]), ev[n], reply[n])]
  /\ shown' = shown \cup
       {[host |-> ev[n].sid, sid |-> sid[n], age |-> reply[n].age,
         name |-> name, lit |-> reply[n].bound[name]] :
           name \in DOMAIN reply[n].bound \cap {view'[n][k] : k \in DOMAIN view'[n]}}
  /\ Return(n, "printed")
  /\ UNCHANGED <<fired, ev, sid, daemon, log, stops>>

-----------------------------------------------------------------------------
(* The daemon *)

getOrCreate(id) ==
  IF id \in DOMAIN sessions THEN sessions ELSE MapPut(sessions, id, NewSession)

ServeStart(n) ==
  /\ <<n, "start">> \in pending
  /\ LET id == IF sid[n] = NoId THEN minted + 1 ELSE sid[n]
     IN  /\ minted' = IF sid[n] = NoId THEN minted + 1 ELSE minted
         /\ sessions' = getOrCreate(id)
         /\ started' = MapPut(started, n, id)
  /\ pending' = pending \ {<<n, "start">>}
  /\ UNCHANGED <<process, up, life, reply, log, stops, shown>>

ServeStop(n) ==
  /\ <<n, "call">> \in pending /\ ev[n].hook = "SessionStop"
  /\ sessions' = MapDelete(sessions, sid[n])
  /\ stops' = [stops EXCEPT ![sid[n]] = @ + 1]
  /\ reply' = MapPut(reply, n, [out |-> EmptyMap, modified |-> FALSE,
                                bound |-> EmptyMap, age |-> <<>>, due |-> {}])
  /\ pending' = pending \ {<<n, "call">>}
  /\ UNCHANGED <<process, up, life, started, minted, log, shown>>

(* ghost: which session the id stands for at the moment *)
Age(id) == <<life, IF id \in SessionIds THEN stops[id] ELSE 0>>

(* ghost: the inputs of a tool in which the host put a name of its session, *)
(* with the secrets that have to replace them                               *)
Due(e) ==
  {<<p[1], p[2].lit>> : p \in
     {q \in (DOMAIN e.payload \ {"__lockie_"}) \X shown :
        /\ e.hook = "PreToolUse" /\ IsNamed(e)
        /\ q[2].host = e.sid /\ q[2].age = Age(e.sid)
        /\ q[2].name = e.payload[q[1]]}}

NamesOf(a) == {a.names[i] : i \in DOMAIN a.names}

(* substituterFor, Redact or Rehydrate, recordRedactions *)
ServeHook(n) ==
  /\ <<n, "call">> \in pending /\ ev[n].hook # "SessionStop"
  /\ LET all == getOrCreate(sid[n])
         a   == Answer(resolveAgent(ev[n]), ev[n], all[sid[n]])
     IN  /\ sessions' = MapPut(all, sid[n], a.session)
         /\ reply' = MapPut(reply, n,
              [out |-> a.out, modified |-> a.modified,
               bound |-> [name \in NamesOf(a) |-> ResolveAlias(a.session, name)],
               age |-> Age(sid[n]), due |-> Due(ev[n])])
         /\ \E left \in Appends(Written(sid[n], ev[n], a.names)) :
              file' = left.file /\ logErrors' = left.errors
  /\ pending' = pending \ {<<n, "call">>}
  /\ UNCHANGED <<process, up, life, started, minted, stops, shown>>

(* The daemon dies, at worst between two lines of an Append; its sessions   *)
(* die with it                                                              *)
Kill ==
  /\ up /\ life <= MaxKills
  /\ up' = FALSE
  /\ sessions' = EmptyMap
  /\ pending' = {}
  /\ \/ UNCHANGED file
     \/ \E n \in All :
          /\ <<n, "call">> \in pending
          /\ ev[n].hook \in {"PromptSubmit", "PostToolUse"}
          /\ LET a == Answer(resolveAgent(ev[n]), ev[n], getOrCreate(sid[n])[sid[n]])
                 lines == Written(sid[n], ev[n], a.names)
             IN  \E i \in DOMAIN lines : file' = file \o SubSeq(lines, 1, i)
  /\ UNCHANGED <<process, life, reply, started, minted, logErrors, stops, shown>>

-----------------------------------------------------------------------------
Step(n) ==
  \/ Begin(n) \/ ensureSession(n) \/ StartAnswered(n) \/ PrintAnswer(n) \/ CallFails(n)

Serve(n) == ServeStart(n) \/ ServeStop(n) \/ ServeHook(n)

Next ==
  \/ \E e \in Events : Fire(e)
  \/ fired = 0 /\ \E e \in LoneEvents : Fire(e)
  \/ \E n \in All : Step(n) \/ Serve(n)
  \/ Kill

Spec == Init /\ [][Next]_vars

-----------------------------------------------------------------------------
(* Properties *)

Printed(hook) == {n \in All : pc[n] = "printed" /\ ev[n].hook = hook}

(* The variables hold what the comments say; every session is consistent.   *)
TypeOK ==
  /\ fired \in 0 .. MaxHooks
  /\ {DOMAIN ev, DOMAIN pc, DOMAIN sid, DOMAIN conn, DOMAIN view} = {All}
  /\ \A n \in All :
       /\ IsEvent(ev[n])
       /\ pc[n] \in {"begin", "dial", "starting", "calling"} \cup Ended
       /\ sid[n] \in SessionIds \cup {NoId} \cup (1 .. minted)
       /\ conn[n] \in 0 .. life
       /\ IsMap(view[n], Fields \cup Inputs \cup {"text"}, String \cup {NotString})
  /\ up \in BOOLEAN /\ life \in Nat /\ up => life > 0
  /\ \A id \in DOMAIN sessions :
       IsSession(sessions[id]) /\ Consistent(sessions[id])
  /\ pending \subseteq All \X {"start", "call"}
  /\ DOMAIN started \subseteq All /\ DOMAIN reply \subseteq All
  /\ \A i \in DOMAIN file : file[i] \in Writes

(* What a hook has printed hides the secrets: the prompt, and every field   *)
(* of the tool's answer that the host's adapter decodes; Claude's adapter   *)
(* takes fileContent only where there is no content.                        *)
SeenClean ==
  /\ \A n \in Printed("PromptSubmit") : stringField(view[n], "text") \notin Literals
  /\ \A n \in Printed("PostToolUse") :
       LET decoded == {"stdout", "stderr", "content", "diff"} \cup
             (IF ev[n].host = "cursor" THEN {}
              ELSE {"text"} \cup IF stringField(ev[n].payload, "content") = Empty
                                 THEN {"fileContent"} ELSE {})
       IN  \A k \in decoded : stringField(view[n], k) \notin Literals

(* Claude gets back every field of its tool's answer, each with what it had *)
(* or, in place of its secret, the name of that secret: none is lost and    *)
(* none gets another's.  Only content and fileContent, of which the daemon  *)
(* is sent one (decodeToolOutputObject), are as one field: both may become  *)
(* what the daemon made of it, and content is added where it was not there  *)
(* (event.go:190).                                                          *)
FieldsKept ==
  \A n \in Printed("PostToolUse") :
    LET raw    == ev[n].payload
        own(k) == IF k \in {"content", "fileContent"}
                  THEN firstNonEmpty(<<stringField(raw, "content"),
                                       stringField(raw, "fileContent")>>)
                  ELSE stringField(raw, k)
    IN  ev[n].host = "claude-code" =>
          /\ DOMAIN raw \subseteq DOMAIN view[n]
          /\ \A k \in DOMAIN view[n] :
               \/ k \in DOMAIN raw /\ view[n][k] = raw[k]
               \/ view[n][k] = own(k)
               \/ view[n][k] \in Names /\ reply[n].bound[view[n][k]] = own(k)

(* "The original tool_response shape is preserved" (event.go:28): violated, *)
(* as an answer that has only fileContent gets a content beside it.         *)
ShapeKept ==
  \A n \in Printed("PostToolUse") :
    ev[n].host = "claude-code" => DOMAIN view[n] = DOMAIN ev[n].payload

(* A name that a hook has shown the host turns back into its secret when    *)
(* the host hands it to a tool of the same session, unless the session was  *)
(* stopped or its daemon has died in between: the round trip of             *)
(* hook_roundtrip_test.go, whatever runs beside it.                         *)
ToolGetsSecret ==
  \A n \in Printed("PreToolUse") :
    \A due \in reply[n].due : view[n][due[1]] = due[2]

(* Whatever name a host was shown, `lockie audit` lists with the session,   *)
(* unless the log could not be written: kills of the daemon leave it        *)
(* readable.                                                                *)
AuditTold ==
  logErrors = 0 =>
    /\ Readable(file)
    /\ \A x \in shown : \E i \in DOMAIN ReadLog(file, x.name) :
         ReadLog(file, x.name)[i].line.sid = x.sid
=============================================================================
