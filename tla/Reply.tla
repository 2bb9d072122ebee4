--------------------------------- MODULE Reply ---------------------------------
(* How the JSON object is found in what the model has answered: ExtractJSON   *)
(* and ValidateInto of llm/parse.go. A text is a sequence of symbols: "{",    *)
(* "}", a quote, a backslash, a fence of three backticks, a line break, a     *)
(* name of a field, and "x" for any other character.                          *)
EXTENDS Integers, Sequences, FiniteSets, SequencesExt, Lists

CONSTANTS Symbols,  \* what a text is made of
          Objects,  \* the objects the model writes, functions from names to values
          Replies,  \* its answers: [open, before, object, after, close]; open and
                    \* close are the lines of a fence, before and after are prose
          Required  \* the fields the caller cannot do without

VARIABLES reply,     \* the answer
          extracted  \* what is made of it: Pending, Failed or an object's text

replyVars == <<reply, extracted>>

Fence == "fence"
Quote == "quote"
Escape == "escape"
Line == "nl"
Space == {Line}
Pending == <<"pending">>
Failed == <<>>

(* The first and the last place of a symbol, 0 when there is none.            *)
First(text, c) == LET at == {i \in DOMAIN text : text[i] = c} IN IF at = {} THEN 0 ELSE CHOOSE i \in at : \A j \in at : i <= j
Final(text, c) == LET at == {i \in DOMAIN text : text[i] = c} IN IF at = {} THEN 0 ELSE CHOOSE i \in at : \A j \in at : j <= i
From(text, i) == SubSeq(text, i, Len(text))
Trim(text) ==
    LET kept == {i \in DOMAIN text : text[i] \notin Space}
    IN  IF kept = {} THEN <<>>
        ELSE SubSeq(text, CHOOSE i \in kept : \A j \in kept : i <= j, CHOOSE i \in kept : \A j \in kept : j <= i)

StripFence(raw) ==
    LET text == Trim(raw)
        line == First(text, Line)
        inner == Trim(From(text, line + 1))
        end == Final(inner, Fence)
    IN  IF text = <<>> \/ text[1] /= Fence \/ line = 0 THEN text
        ELSE IF end = 0 THEN inner ELSE Trim(SubSeq(inner, 1, end - 1))

Braces(depth, c) == IF c = "{" THEN depth + 1 ELSE IF c = "}" THEN depth - 1 ELSE depth
Outside(depth) == [depth |-> depth, inString |-> FALSE, escaped |-> FALSE]

(* Mutant: a brace in a string counts.                                        *)
ScanBlind(text, start) ==
    LET scan[k \in 0..(Len(text) - start + 1)] ==
          IF k = 0 THEN Outside(0) ELSE Outside(Braces(scan[k - 1].depth, text[start + k - 1]))
    IN  scan

(* matchBrace: the state of the scan after each symbol from start on.         *)
Step(s, c) ==
    IF s.inString
    THEN [s EXCEPT !.escaped = ~s.escaped /\ c = Escape, !.inString = s.escaped \/ c /= Quote]
    ELSE [s EXCEPT !.inString = c = Quote, !.depth = Braces(s.depth, c)]
Scan(text, start) ==
    LET scan[k \in 0..(Len(text) - start + 1)] ==
          IF k = 0 THEN Outside(0) ELSE Step(scan[k - 1], text[start + k - 1])
    IN  scan

MatchBrace(text, start) ==
    LET scan == Scan(text, start)
        closed == {k \in DOMAIN scan : k > 0 /\ scan[k].depth = 0}
    IN  IF closed = {} THEN 0 ELSE start - 1 + CHOOSE k \in closed : \A j \in closed : k <= j

(* How an object is written, and read again by the JSON package: in parts,   *)
(* each one symbol or a string, that is a content between quotes. A value     *)
(* other than a string is given by its parts.                                 *)
Quoted(content) == <<Quote>> \o content \o <<Quote>>
Written(v) == IF v.kind = "string" THEN <<Quoted(v.text)>> ELSE v.parts
Field(name, v) == <<Quoted(<<name>>), <<":">>>> \o Written(v)
Parts(o) ==
    LET names == SetToSeq(DOMAIN o)
    IN  <<<<"{">>>> \o Joined([i \in DOMAIN names |-> Field(names[i], o[names[i]])]) \o <<<<"}">>>>
Render(o) == Joined(Parts(o))
Unmarshal(text) == {o \in Objects : Render(o) = text}

(* Mutant: what stands behind the object is not looked at.                    *)
ExtractFirst(raw) ==
    LET text == StripFence(raw)
        start == First(text, "{")
        end == IF start = 0 THEN 0 ELSE MatchBrace(text, start)
        candidate == SubSeq(text, start, end)
    IN  IF end = 0 \/ Unmarshal(candidate) = {} THEN Failed ELSE candidate

ExtractJSON(raw) ==
    LET text == StripFence(raw)
        start == First(text, "{")
        end == IF start = 0 THEN 0 ELSE MatchBrace(text, start)
        candidate == SubSeq(text, start, end)
    IN  IF end = 0 \/ "{" \in ToSet(From(text, end + 1)) \/ Unmarshal(candidate) = {} THEN Failed ELSE candidate

(* A number or a boolean is never empty, whatever it is.                      *)
IsEmpty(v) == CASE v.kind = "string" -> v.text = <<>>
                [] v.kind = "null" -> TRUE
                [] v.kind \in {"array", "object"} -> Len(v.parts) = 2
                [] OTHER -> FALSE

ValidateInto(raw) ==
    LET doc == ExtractJSON(raw)
        o == CHOOSE x \in Unmarshal(doc) : TRUE
    IN  IF doc = Failed \/ \E f \in Required : f \notin DOMAIN o \/ IsEmpty(o[f]) THEN Failed ELSE doc

Raw(r) == r.open \o r.before \o Render(r.object) \o r.after \o r.close
Fenced(r) == r.open /= <<>>

(* ---------------------------- what the model writes ------------------------ *)

(* The content of a string: the places of the escapes that escape what stands *)
(* behind them; every quote in it is escaped, and its end is not.             *)
Escapes(content) ==
    LET escape[k \in 0..Len(content)] == k > 0 /\ content[k] = Escape /\ ~escape[k - 1]
    IN  escape
IsContent(content) ==
    /\ content \in Seq(Symbols)
    /\ \A k \in 1..Len(content) : content[k] = Quote => Escapes(content)[k - 1]
    /\ ~Escapes(content)[Len(content)]

IsPart(p) ==
    /\ p \in Seq(Symbols) /\ p /= <<>>
    /\ IF p[1] = Quote THEN Len(p) > 1 /\ Last(p) = Quote /\ IsContent(SubSeq(p, 2, Len(p) - 1)) ELSE Len(p) = 1

(* How deep in braces the first k parts lead. All braces of a value close in  *)
(* it, none closes more.                                                      *)
Depths(parts) ==
    LET depth[k \in 0..Len(parts)] ==
          IF k = 0 THEN 0 ELSE IF Len(parts[k]) = 1 THEN Braces(depth[k - 1], parts[k][1]) ELSE depth[k - 1]
    IN  depth
IsBalanced(parts) ==
    /\ \A k \in DOMAIN parts : IsPart(parts[k])
    /\ \A k \in 0..Len(parts) : Depths(parts)[k] >= 0
    /\ Depths(parts)[Len(parts)] = 0

IsValue(v) == IF v.kind = "string" THEN IsContent(v.text) ELSE v.parts \in Seq(Seq(Symbols)) /\ IsBalanced(v.parts)
IsObject(o) ==
    IsFiniteSet(DOMAIN o) /\ \A name \in DOMAIN o : name \in Symbols \ {Quote, Escape} /\ IsValue(o[name])

(* A fence, if there is one, stands in front of all else; its line is the     *)
(* first one, or none of its own; and behind another fence opens no object.   *)
FencesWell(r) ==
    LET raw == Raw(r)
        line == First(raw, Line)
        rest == r.after \o r.close
    IN  /\ \A i \in DOMAIN r.before : r.before[i] = Fence => ~Fenced(r) /\ \E j \in 1..(i - 1) : r.before[j] \notin Space
        /\ Fenced(r) =>
             /\ r.open[1] = Fence
             /\ \A i \in 2..Len(r.open) : r.open[i] \notin {Fence, "{"} /\ (r.open[i] = Line => i = Len(r.open))
             /\ "{" \notin ToSet(SubSeq(raw, 1, line)) \/ "{" \notin ToSet(From(raw, line + 1))
             /\ \A i, j \in DOMAIN rest : rest[i] = Fence /\ i < j => rest[j] /= "{"

(* The prose in front opens no object that the model's would be a part of.    *)
Outermost(r) ==
    LET raw == Raw(r)
        front == Len(r.open \o r.before)
        texts == {Render(o) : o \in Objects}
    IN  \A i \in 1..front, j \in (front + 1)..Len(raw) : raw[i] = "{" => SubSeq(raw, i, j) \notin texts

ASSUME ReplyAssumption ==
    /\ {"{", "}", ":", Fence, Quote, Escape, Line} \subseteq Symbols
    /\ \A o \in Objects : IsObject(o)
    /\ \A o, p \in Objects : Render(o) = Render(p) => o = p
    /\ Replies \subseteq [open : Seq(Symbols), before : Seq(Symbols), object : Objects, after : Seq(Symbols),
                          close : {<<>>, <<Line, Fence>>}]
    /\ \A r \in Replies : FencesWell(r) /\ Outermost(r)

(* ---------------------------------- an answer ------------------------------ *)

ReplyIdle == reply = <<>> /\ extracted = Pending
ReplyInit == reply \in Replies /\ extracted = Pending
Parse == /\ reply /= <<>> /\ extracted = Pending
         /\ extracted' = ValidateInto(Raw(reply))
         /\ UNCHANGED reply

(* -------------------------------- properties -------------------------------- *)

Complete(o) == \A f \in Required : f \in DOMAIN o /\ ~IsEmpty(o[f])

(* What comes out of an answer is the object the model wrote, whole, with     *)
(* every field that is asked for; never a part of it, an object of the prose, *)
(* or one of two. And it does come out, whatever its strings hold, if the     *)
(* prose opens no other object, the fence's first line is the fence alone,    *)
(* and a fence that is opened is closed (or no string holds one).             *)
ReplyTaken ==
    extracted /= Pending =>
      /\ extracted /= Failed => extracted = Render(reply.object) /\ Complete(reply.object)
                                /\ "{" \notin ToSet(reply.before \o reply.after)
      /\ /\ Complete(reply.object) /\ "{" \notin ToSet(reply.before \o reply.after)
         /\ Fenced(reply) => Last(reply.open) = Line
         /\ Fenced(reply) /\ reply.close = <<>> => Fence \notin ToSet(Render(reply.object) \o reply.after)
         => extracted /= Failed
=============================================================================
