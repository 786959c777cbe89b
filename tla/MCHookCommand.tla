--------------------------- MODULE MCHookCommand ----------------------------
(* HookCommand on a small instance: events of many forms on their own, and  *)
(* a few that meet what the others left.                                    *)
EXTENDS HookCommand

CONSTANTS s1, k1, k2

Event(host, hook, id, pinned, kind, payload) ==
  [host |-> host, hook |-> hook, sid |-> id, pinned |-> pinned, kind |-> kind,
   payload |-> payload]

Only(k, v) == MapPut(EmptyMap, k, v)

(* Two fields of a tool's answer, together or alone *)
Objects ==
  {MapPut(Only(p[1], p[3]), p[2], p[4]) :
     p \in Fields \X Fields \X {k1, Plain, Empty} \X {k1, k2, NotString}}

LoneEvents1 ==
  {Event(host, "PostToolUse", s1, FALSE, "object", m) : host \in Hosts, m \in Objects}
    \cup {Event(host, "PostToolUse", id, pinned, "string", Only("text", k1)) :
            host \in Hosts, id \in {s1, NoId}, pinned \in BOOLEAN}
    \cup {Event("claude-code", hook, id, FALSE, "other", EmptyMap) :
            hook \in {"SessionStart", "SessionStop", "PostToolUse"},
            id \in {s1, NoId}}
    \cup {Event(host, "PromptSubmit", id, TRUE, "other", Only("text", v)) :
            host \in Hosts, id \in {s1, NoId}, v \in {k1, Empty}}

Name(n) == <<"S", n>>

Events1 ==
  {Event("claude-code", "PostToolUse", s1, FALSE, "string", Only("text", k1)),
   Event("claude-code", "PreToolUse", s1, FALSE, "other",
         MapPut(Only("command", Name(1)), "__lockie_", Plain)),
   Event("claude-code", "PromptSubmit", s1, FALSE, "other", Only("text", k2)),
   Event("claude-code", "SessionStop", s1, FALSE, "other", EmptyMap)}
=============================================================================
