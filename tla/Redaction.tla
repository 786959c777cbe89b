----------------------------- MODULE Redaction ------------------------------
(* What Substituter.Redact and Rehydrate (src/internal/substitute) do to a  *)
(* text: the findings of the detectors (src/internal/detect), the choice    *)
(* among overlapping ones, the rewriting, and the way back through the      *)
(* placeholder pattern (src/internal/placeholder/pattern.go).               *)
(*                                                                          *)
(* A text is a sequence of symbols.  Each counts as one byte, some stand    *)
(* for several, and the numbers of the rules are constants to that scale:   *)
(*   "ghp" "xox" "eyJ"  the letters GitHub and Slack tokens and the parts   *)
(*                      of a JWT begin with                                 *)
(*   "r"                a lower-case letter of something random             *)
(*   " password="       a keyword, with what sets it off from the rest      *)
(*   "_" "-" "+" "." " " themselves, as are digits and upper-case letters   *)
(* A placeholder is written out: a prefix is two equal letters and a number *)
(* is binary, so that two digits already make another number.               *)
(*                                                                          *)
(* Of the rules, GitHub stands for those that end at a \b, Slack for those  *)
(* that stop after SlackMax characters wherever that is (Anthropic).        *)
EXTENDS Naturals, Sequences, FiniteSets

CONSTANTS Payloads,    \* texts Redact is called with
          Earlier,     \* sequences of literals an earlier payload may have had
          GithubLen,   \* characters of a GitHub token behind its "_": 36
          SlackMin,    \* a Slack token's fewest behind its "-": 10
          SlackMax,    \* and its most: 200
          JwtMin,      \* fewest of each part of a JWT: 10
          EntropyMin,  \* defaultEntropyMinLen: 20
          Window,      \* proximityWindow, for a keyword before a run: 200
          NoName       \* what PlaceholderFor returns with an error

ASSUME BoundsAssumption ==
  /\ {GithubLen, SlackMin, SlackMax, JwtMin, Window} \subseteq Nat
  /\ EntropyMin \in Nat \ {0}

VARIABLES
  pc,     \* "scan", "resolve", "rewrite", "done", or "error"
  in,     \* the payload
  found,  \* what the detectors report, overlaps included
  work,   \* resolveOverlaps: findings not yet looked at
  kept,   \* resolveOverlaps: its out
  todo,   \* Redact: findings not yet replaced
  prev,   \* Redact: where the text not yet copied begins
  out,    \* Redact: its out
  sess    \* the session's placeholder map

vars == <<pc, in, found, work, kept, todo, prev, out, sess>>

-----------------------------------------------------------------------------
(* Characters *)

Prefixes == {"G", "X", "J", "S"}  \* GITHUB_TOKEN, SLACK_TOKEN, JWT, SECRET
KeywordPrefixes == {"G", "X", "S"}  \* contain "token" or "secret"

Upper  == Prefixes
Digits == {"0", "1"}
Heads  == {"ghp", "xox", "eyJ"}

(* The classes of the rules: [A-Za-z0-9], [A-Za-z0-9_] which is \w,         *)
(* [A-Za-z0-9-], [A-Za-z0-9_-], and that of candidatePattern                *)
Alnum          == Upper \cup Digits \cup Heads \cup {"r"}
Word           == Alnum \cup {"_"}
SlackClass     == Alnum \cup {"-"}
JwtClass       == Word \cup {"-"}
candidateClass == JwtClass \cup {"+"}

Char == candidateClass \cup {" password=", ".", " "}

Text == Seq(Char)

ASSUME PayloadsAssumption == Payloads \subseteq Text

INSTANCE SessionMap WITH Literals <- Text

At(t, i) == IF i \in DOMAIN t THEN t[i] ELSE "none"

(* \b matches between two characters of which exactly one is a word's       *)
InWord(t, i) == At(t, i) \in Word

AllIn(class, t, i, j) == \A x \in i .. j : At(t, x) \in class

(* FindAllIndex, given the ends of the match from each start (one at most): *)
(* every match from the leftmost start behind the one before, as a map from *)
(* starts to ends                                                           *)
FindAll(len, ends) ==
  LET upto[n \in 0 .. len] ==  \* of the starts up to n
        IF n = 0 THEN EmptyMap
        ELSE IF ends[n] = {} \/ \E i \in DOMAIN upto[n - 1] : upto[n - 1][i] >= n
             THEN upto[n - 1]
             ELSE MapPut(upto[n - 1], n, CHOOSE j \in ends[n] : TRUE)
  IN  upto[len]

-----------------------------------------------------------------------------
(* Placeholders *)

Seqs == INSTANCE SequencesExt

ASSUME SessionAssumption ==
  NoName \notin Names \cup Text /\ Earlier \subseteq Seq(Text)

numeral[n \in Nat] ==
  IF n < 2 THEN <<IF n = 0 THEN "0" ELSE "1">>
  ELSE numeral[n \div 2] \o numeral[n % 2]

NameText(name) == <<name[1], name[1], "_">> \o numeral[name[2]]

(* placeholderRE, [A-Z][A-Z0-9_]+_\d+, matches t[i] .. t[j]                 *)
Pattern(t, i, j) ==
  /\ t[i] \in Upper
  /\ \E k \in i + 2 .. j - 1 :
       /\ t[k] = "_"
       /\ \A x \in i + 1 .. k - 1 : t[x] \in Upper \cup Digits \cup {"_"}
       /\ \A x \in k + 1 .. j : t[x] \in Digits

(* Both repetitions are greedy, so of the matches from i FindAllIndex takes *)
(* the longest                                                              *)
Greedy(t, i, j) ==
  Pattern(t, i, j) /\ \A k \in j + 1 .. Len(t) : ~Pattern(t, i, k)

MatchesAt(t, i) == {j \in i .. Len(t) : Greedy(t, i, j)}

Matches(t) == FindAll(Len(t), [i \in 1 .. Len(t) |-> MatchesAt(t, i)])

Named(s, text) == {name \in DOMAIN s.byName : NameText(name) = text}

(* mutant: an unknown candidate is tried again without its last digit *)
SpansBackOff(t, s) ==
  LET all == Matches(t)
      short(i) == Named(s, SubSeq(t, i, all[i] - 1)) # {}
      full(i)  == Named(s, SubSeq(t, i, all[i])) # {}
  IN  [i \in {x \in DOMAIN all : full(x) \/ short(x)} |->
         IF full(i) THEN all[i] ELSE all[i] - 1]

(* findRegisteredPlaceholders *)
Spans(t, s) ==
  LET all == Matches(t)
  IN  [i \in {x \in DOMAIN all : Named(s, SubSeq(t, x, all[x])) # {}} |-> all[i]]

Rehydrate(t, s) ==
  LET spans == Spans(t, s)
      inside(i) == \E x \in DOMAIN spans : x < i /\ i <= spans[x]
      literal(i) == s.byName[CHOOSE name \in Named(s, SubSeq(t, i, spans[i])) :
                                TRUE]
  IN  Seqs!FlattenSeq([i \in 1 .. Len(t) |->
                    IF i \in DOMAIN spans THEN literal(i)
                    ELSE IF inside(i) THEN <<>> ELSE <<t[i]>>])

-----------------------------------------------------------------------------
(* Detection *)

(* DefaultRules and NewEntropyDetector, the id as its place in their order *)
RuleOf == [entropy |-> [id |-> 1, prefix |-> "S", priority |-> 100],
           github  |-> [id |-> 2, prefix |-> "G", priority |-> 10],
           jwt     |-> [id |-> 3, prefix |-> "J", priority |-> 20],
           slack   |-> [id |-> 4, prefix |-> "X", priority |-> 10]]

Finding == [start : Nat, end : Nat, rule : DOMAIN RuleOf]

(* t[i] .. t[j] matches (?:ghp|...)_[A-Za-z0-9]{36} between two \b          *)
GithubEnds(t, i) ==
  {j \in {i + 1 + GithubLen} \cap DOMAIN t :
     /\ t[i] = "ghp" /\ ~InWord(t, i - 1) /\ At(t, i + 1) = "_"
     /\ AllIn(Alnum, t, i + 2, j) /\ ~InWord(t, j + 1)}

(* \bxox[abprs]-[A-Za-z0-9-]{10,200}: as many as there are, with no \b      *)
SlackEnds(t, i) ==
  {j \in (i + 1 + SlackMin .. i + 1 + SlackMax) \cap DOMAIN t :
     /\ t[i] = "xox" /\ ~InWord(t, i - 1) /\ At(t, i + 1) = "-"
     /\ AllIn(SlackClass, t, i + 2, j)
     /\ j = i + 1 + SlackMax \/ At(t, j + 1) \notin SlackClass}

(* \beyJ[A-Za-z0-9_-]{10,}\.eyJ[A-Za-z0-9_-]{10,}\.[A-Za-z0-9_-]{10,},      *)
(* with its dots at t[a] and t[b]                                           *)
JwtEnds(t, i) ==
  {j \in i .. Len(t) :
     /\ t[i] = "eyJ" /\ ~InWord(t, i - 1)
     /\ \E a, b \in i + 1 .. j :
          /\ t[a] = "." /\ i + JwtMin < a /\ AllIn(JwtClass, t, i + 1, a - 1)
          /\ At(t, a + 1) = "eyJ"
          /\ t[b] = "." /\ a + 1 + JwtMin < b /\ AllIn(JwtClass, t, a + 2, b - 1)
          /\ b + JwtMin <= j /\ AllIn(JwtClass, t, b + 1, j)
     /\ At(t, j + 1) \notin JwtClass}

(* candidatePattern takes a run of its class whole, from its first character *)
CandidateEnds(t, i) ==
  {j \in i .. Len(t) :
     /\ At(t, i - 1) \notin candidateClass
     /\ i - 1 + EntropyMin <= j /\ AllIn(candidateClass, t, i, j)
     /\ At(t, j + 1) \notin candidateClass}

Report(rule, all) ==
  {[start |-> i, end |-> all[i] + 1, rule |-> rule] : i \in DOMAIN all}

ScanGithub(t) ==
  Report("github", FindAll(Len(t), [i \in 1 .. Len(t) |-> GithubEnds(t, i)]))

ScanSlack(t) ==
  Report("slack", FindAll(Len(t), [i \in 1 .. Len(t) |-> SlackEnds(t, i)]))

ScanJwt(t) ==
  Report("jwt", FindAll(Len(t), [i \in 1 .. Len(t) |-> JwtEnds(t, i)]))

(* A keyword wholly within the window before t[start] *)
keywordNear(t, start) ==
  \E k \in 1 .. start - 1 :
    /\ start <= k + Window
    /\ \/ t[k] = " password="
       \/ t[k] \in KeywordPrefixes /\ k + 1 < start /\ t[k + 1] = t[k]

ScanEntropy(t) ==
  {f \in Report("entropy",
                FindAll(Len(t), [i \in 1 .. Len(t) |-> CandidateEnds(t, i)])) :
     /\ \E x \in f.start .. f.end - 1 : t[x] = "r"  \* shannonEntropy
     /\ keywordNear(t, f.start)}

Scan(t) == ScanGithub(t) \cup ScanSlack(t) \cup ScanJwt(t) \cup ScanEntropy(t)

Length(f) == f.end - f.start

(* mutant: a shorter match goes first *)
lessShortest(a, b) ==
  \/ Length(a) < Length(b)
  \/ Length(a) = Length(b) /\ RuleOf[a.rule].priority < RuleOf[b.rule].priority

less(a, b) ==
  LET x == RuleOf[a.rule]
      y == RuleOf[b.rule]
  IN  \/ Length(a) > Length(b)
      \/ Length(a) = Length(b) /\ x.priority < y.priority
      \/ Length(a) = Length(b) /\ x.priority = y.priority /\ x.id < y.id
      \/ Length(a) = Length(b) /\ x.priority = y.priority /\ x.id = y.id
                               /\ a.start < b.start

(* mutant: only a start inside the other counts as an overlap *)
OverlapByStart(f, e) == e.start <= f.start /\ f.start < e.end

Overlap(f, e) == f.start < e.end /\ e.start < f.end

-----------------------------------------------------------------------------
(* Redact, one action per round of a loop *)

(* What payloads before this one have left in the session *)
SessionAfter(literals) ==
  LET after[i \in 0 .. Len(literals)] ==
        IF i = 0 THEN NewSession
        ELSE PlaceholderFor(after[i - 1], literals[i], "G").session
  IN  after[Len(literals)]

Init ==
  /\ pc = "scan"
  /\ in \in Payloads
  /\ found = {} /\ work = {} /\ kept = {} /\ todo = {}
  /\ prev = 1 /\ out = <<>>
  /\ sess \in {SessionAfter(literals) : literals \in Earlier}

(* Engine.Scan; with no finding at all the text is copied as it is *)
Detect ==
  /\ pc = "scan"
  /\ found' = Scan(in)
  /\ work' = found'
  /\ pc' = IF found' = {} THEN "rewrite" ELSE "resolve"
  /\ UNCHANGED <<in, kept, todo, prev, out, sess>>

(* mutant: a finding goes to the result whatever it overlaps *)
PlaceRegardless ==
  /\ pc = "resolve"
  /\ \E f \in work :
       /\ \A g \in work \ {f} : less(f, g)
       /\ work' = work \ {f}
       /\ kept' = kept \cup {f}
  /\ UNCHANGED <<pc, in, found, todo, prev, out, sess>>

(* resolveOverlaps: the next finding in the order of less is dropped if it  *)
(* overlaps one already kept, unless it should win over that one            *)
Place ==
  /\ pc = "resolve"
  /\ \E f \in work :
       /\ \A g \in work \ {f} : less(f, g)
       /\ work' = work \ {f}
       /\ LET rivals == {e \in kept : Overlap(f, e)}
          IN  \/ rivals = {} /\ kept' = kept \cup {f}
              \/ \E e \in rivals :
                   kept' = IF less(f, e) THEN (kept \ {e}) \cup {f} ELSE kept
  /\ UNCHANGED <<pc, in, found, todo, prev, out, sess>>

Resolved ==
  /\ pc = "resolve" /\ work = {}
  /\ todo' = kept
  /\ pc' = "rewrite"
  /\ UNCHANGED <<in, found, work, kept, prev, out, sess>>

(* mutant: what lies between two findings is not copied *)
RewriteNoGap ==
  /\ pc = "rewrite"
  /\ \E f \in todo :
       /\ \A g \in todo : f.start <= g.start
       /\ todo' = todo \ {f}
       /\ LET lit   == SubSeq(in, f.start, f.end - 1)
              named == PlaceholderFor(sess, lit, RuleOf[f.rule].prefix)
          IN  /\ sess' = named.session
              /\ out' = out \o NameText(named.name)
              /\ prev' = f.end
  /\ UNCHANGED <<pc, in, found, work, kept>>

(* Redact: the finding that starts first; one that starts before the last   *)
(* one ended is an error                                                    *)
Rewrite ==
  /\ pc = "rewrite"
  /\ \E f \in todo :
       /\ \A g \in todo : f.start <= g.start
       /\ IF f.start < prev
          THEN pc' = "error" /\ UNCHANGED <<todo, sess, out, prev>>
          ELSE LET lit   == SubSeq(in, f.start, f.end - 1)
                   named == PlaceholderFor(sess, lit, RuleOf[f.rule].prefix)
               IN  /\ sess' = named.session
                   /\ out' = out \o SubSeq(in, prev, f.start - 1)
                                 \o NameText(named.name)
                   /\ prev' = f.end
                   /\ todo' = todo \ {f}
                   /\ UNCHANGED pc
  /\ UNCHANGED <<in, found, work, kept>>

Finish ==
  /\ pc = "rewrite" /\ todo = {}
  /\ out' = out \o SubSeq(in, prev, Len(in))
  /\ pc' = "done"
  /\ UNCHANGED <<in, found, work, kept, todo, prev, sess>>

Next == Detect \/ Place \/ Resolved \/ Rewrite \/ Finish

Spec == Init /\ [][Next]_vars

-----------------------------------------------------------------------------
(* Properties *)

(* The variables hold texts, findings of the payload and a session; what is *)
(* kept was found and what is left to replace was kept.                     *)
TypeOK ==
  /\ pc \in {"scan", "resolve", "rewrite", "done", "error"}
  /\ in \in Text /\ out \in Text
  /\ found \subseteq Finding /\ work \subseteq found /\ kept \subseteq found
  /\ todo \subseteq kept
  /\ prev \in 1 .. Len(in) + 1
  /\ IsSession(sess) /\ Consistent(sess)

(* "Detector contract (priority.go) guarantees ascending Start and          *)
(* non-overlapping spans" (substitute.go:101): Redact never fails on it.    *)
Accepted == pc # "error"

(* The findings kept are those that beat every kept one they overlap, which *)
(* fixes them whatever the order the detectors report in: "substitution     *)
(* must be deterministic" (priority.go:9).                                  *)
Determined ==
  pc \in {"rewrite", "done"} =>
    \A f \in found :
      f \in kept <=> \A e \in kept \ {f} : Overlap(f, e) => less(f, e)

(* A candidate next to a keyword is hidden whole, whatever tokens of named  *)
(* rules begin or end inside it, cut off or overlapping: "a missed secret   *)
(* reaching the model is not" recoverable (entropy.go:11).  Only a JWT,     *)
(* whose dots are in no run, may win over a part of it.                     *)
RunsHidden ==
  pc = "done" =>
    \A f \in found :
      f.rule = "entropy" =>
        \/ \E e \in kept : e.start <= f.start /\ f.end <= e.end
        \/ \E e \in found : e.rule = "jwt" /\ Overlap(f, e)

(* "Redact replaces detected secrets with stable session-scoped             *)
(* placeholders" (substitute.go:4): violated, as a finding that loses to a  *)
(* longer one is dropped whole and may reach beyond it.                     *)
Hidden ==
  pc = "done" =>
    \A f \in found : \E e \in kept : e.start <= f.start /\ f.end <= e.end

(* Where a placeholder can be told from what follows: behind the finding    *)
(* begins no other, and no character a placeholder may have.  A token ends  *)
(* elsewhere only if cut off after SlackMax characters, or for the '_' that *)
(* a Slack token stops at.                                                  *)
EndsClear ==
  \A f \in kept : /\ At(in, f.end) \notin Upper \cup Digits \cup {"_"}
                  /\ \A g \in kept : g.start # f.end

(* "Redact then Rehydrate returns the exact original bytes"                 *)
(* (substitute_test.go:35), unless the payload has the look of a            *)
(* placeholder itself or goes on as one where a token ends.                 *)
RoundTrip ==
  pc = "done" /\ Matches(in) = EmptyMap /\ EndsClear => Rehydrate(out, sess) = in

(* "if RE2 matches STRIPE_KEY_10 and the session knows only STRIPE_KEY_1,   *)
(* the entire candidate is treated as unknown" (longest_match.go:27): a     *)
(* placeholder the agent puts a digit behind is the longer number's or none.*)
LongestMatch ==
  pc = "done" =>
    \A name \in DOMAIN sess.byName, d \in Digits :
      LET text == NameText(name) \o <<d>>
      IN  Rehydrate(text, sess) =
            IF Named(sess, text) = {} THEN text
            ELSE sess.byName[CHOOSE n \in Named(sess, text) : TRUE]

(* "redacted output passed back through Redact produces zero further        *)
(* findings" (substitute.go:74): violated, as a placeholder may bring its   *)
(* keyword before a run that had none near it.                              *)
Idempotent == pc = "done" => Scan(out) = {}
=============================================================================
