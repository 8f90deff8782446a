------------------------------- MODULE Translate -------------------------------
(***************************************************************************)
(* What the gateway does to the bytes of a call: the request converted to  *)
(* the upstream's protocol, the upstream's event stream rewritten while it *)
(* is copied to the client, a buffered reply converted at once, and what   *)
(* the call costs.                                                         *)
(*                                                                         *)
(* The proxy hands the stream to a chain of writers in pieces that end     *)
(* anywhere.  A line of the stream has three bytes, the last of which is   *)
(* its newline; what it says is a record.  The Claude and the Gemini       *)
(* writers collect lines and write events; the plain relay replaces the    *)
(* model's name, the first two bytes of a line, piece by piece, and keeps  *)
(* the tail of what it wrote for the usage in it.  A stream may break off  *)
(* between two pieces, and then the handler unwinds; so it does after a    *)
(* piece whose length a name of another length changed.                    *)
(***************************************************************************)
EXTENDS Integers, Sequences, SequencesExt, FiniteSets, FiniteSetsExt, Functions

CONSTANTS
  LineKinds,     \* the lines a stream of each kind is made of, see Garbage
  MaxLines,      \* bound: lines of a stream
  Requests,      \* conversations: [system, messages]
  Replies,       \* buffered replies
  Statuses,      \* of an upstream's answer to a call for a stream, 0 for none
  Estimate,      \* input tokens estimated from the length of the request
  TailBytes,     \* streamTailBytes
  BytesPerToken, \* 4
  EventBytes     \* bytes of an event the Claude writer writes

StreamKinds == {"claude", "gemini", "relay"}
ReplyKinds  == {"claudeReply", "geminiReply", "embedReply", "relayReply"}
Finishes    == {"", "stop", "length", "content_filter"}

ASSUME NumberAssumption == {Estimate, TailBytes, BytesPerToken, EventBytes} \subseteq Nat \ {0}
ASSUME LineAssumption ==
  \A k \in StreamKinds : \A l \in LineKinds[k] : {l.text, l.prompt, l.comp} \subseteq Nat /\ l.finish \in Finishes

VARIABLES
  call,
  stage,   \* "convert", "forward", "copy", "bill", "done", "aborted"
  sent,    \* the messages sent upstream: [role, texts]
  pos,     \* bytes of the stream that were copied
  writer,  \* fields of the stream writer
  out,     \* what the client was sent
  bytes,   \* what the counting writer counted
  tail,    \* what tailBufferWriter kept
  cost,
  cuts     \* history, of the relay: where its pieces ended

vars == <<call, stage, sent, pos, writer, out, bytes, tail, cost, cuts>>

AtLeastOne(n) == Max({1, n})

-------------------------------------------------------------------------------
(* Requests                                                                *)

(* A message is [role, parts]; a part is [type, text], and text 0 is the empty one. *)
TextOf(part) == [type |-> part.type, text |-> IF part.type = "image" THEN 0 ELSE part.text]

(* anthropicContentToString and the loops over parts: texts that are not empty, and a word for *)
(* each image; parts of other types are left out.                                              *)
Said(part) == part.type = "image" \/ (part.type = "text" /\ part.text # 0)

TextsOf(parts) == LET said == SelectSeq(parts, Said) IN [i \in DOMAIN said |-> TextOf(said[i])]

Message(role, parts) == [role |-> role, texts |-> TextsOf(parts)]

System(request) ==
  LET texts == TextsOf(request.system)
  IN  IF texts = <<>> THEN <<>> ELSE <<[role |-> "system", texts |-> texts]>>

(* Slip: the system's words follow the conversation. *)
ClaudeRequestSystemLast(request) ==
  LET named == SelectSeq(request.messages, LAMBDA m : m.role # "")
  IN  [i \in DOMAIN named |-> Message(named[i].role, named[i].parts)] \o System(request)

(* anthropicToOpenAI: a message without a role is left out. *)
ClaudeRequest(request) ==
  LET named == SelectSeq(request.messages, LAMBDA m : m.role # "")
  IN  System(request) \o [i \in DOMAIN named |-> Message(named[i].role, named[i].parts)]

GeminiRole(role) ==
  CASE role = "model"              -> "assistant"
    [] role \in {"system", "tool", "function"} -> role
    [] OTHER                       -> "user"

(* geminiToOpenAI; without any message an empty one is sent. *)
GeminiRequest(request) ==
  LET all == System(request) \o [i \in DOMAIN request.messages |->
                 Message(GeminiRole(request.messages[i].role), request.messages[i].parts)]
  IN  IF all = <<>> THEN <<[role |-> "user", texts |-> <<>>]>> ELSE all

(* geminiEmbedToOpenAI joins the texts of the one content, images left out. *)
EmbedRequest(request) ==
  LET texts == SelectSeq(FlattenSeq([i \in DOMAIN request.messages |-> TextsOf(request.messages[i].parts)]),
                         LAMBDA p : p.type = "text")
  IN  <<[role |-> "input", texts |-> texts]>>

(* injectSystemPrompt puts the prompt of a virtual model first, unless it is there already. *)
Injected(request) ==
  LET plain  == [i \in DOMAIN request.messages |->
                   [role |-> request.messages[i].role, texts |-> request.messages[i].parts]]
      prompt == [role |-> "system", texts |-> request.system]
  IN  IF request.system = <<>> \/ (plain # <<>> /\ Head(plain) = prompt) THEN plain
                                                                        ELSE <<prompt>> \o plain

Converted(kind, request) ==
  CASE kind \in {"claude", "claudeReply"} -> ClaudeRequest(request)
    [] kind \in {"gemini", "geminiReply"} -> GeminiRequest(request)
    [] kind = "embedReply"                -> EmbedRequest(request)
    [] OTHER                              -> Injected(request)

Convert ==
  /\ stage = "convert"
  /\ sent' = Converted(call.kind, call.request)
  /\ stage' = "forward"
  /\ UNCHANGED <<call, pos, writer, out, bytes, tail, cost, cuts>>

-------------------------------------------------------------------------------
(* The stream                                                              *)

(* The bytes of the stream: of line i the two of its text, and its newline, which the last line *)
(* may lack.                                                                                    *)
Stream ==
  LET Line(i) == IF i < Len(call.lines) \/ call.ended THEN <<<<i, 1>>, <<i, 2>>, <<i, 3>>>>
                                                      ELSE <<<<i, 1>>, <<i, 2>>>>
  IN  FlattenSeq([i \in DOMAIN call.lines |-> Line(i)])

NewlinesIn(data) == SetToSortSeq({k \in DOMAIN data : data[k][2] = 3}, <)

(* The lines that data ends, each as the bytes before its newline, and what is left. *)
LinesIn(data) ==
  LET ends == NewlinesIn(data)
      From(k) == IF k = 1 THEN 1 ELSE ends[k - 1] + 1
  IN  [k \in DOMAIN ends |-> SubSeq(data, From(k), ends[k] - 1)]

Rest(data) ==
  LET ends == NewlinesIn(data)
  IN  IF ends = <<>> THEN data ELSE SubSeq(data, Last(ends) + 1, Len(data))

Garbage == [data |-> FALSE, done |-> FALSE, json |-> FALSE, id |-> 0, choices |-> FALSE, text |-> 0,
            finish |-> "", prompt |-> 0, comp |-> 0]

(* What a line says; a piece of a line says nothing. *)
Parsed(seg) ==
  IF Len(seg) = 2 /\ seg[1][1] = seg[2][1] /\ seg[1][2] = 1
    THEN [call.lines[seg[1][1]] EXCEPT !.id = seg[1][1]] ELSE Garbage

NewWriter == [buf |-> <<>>, start |-> FALSE, block |-> FALSE, texts |-> 0, in |-> 0, out |-> 0,
              raw |-> FALSE, events |-> <<>>]

Emit(w, event) == [w EXCEPT !.events = Append(@, event)]

(* Slip: the usage of a line replaces what an earlier one said. *)
ClaudeUsageOverwritten(w, line) == [w EXCEPT !.in = line.prompt, !.out = line.comp]

ClaudeUsage(w, line) ==
  [w EXCEPT !.in = IF line.prompt > 0 THEN line.prompt ELSE @,
            !.out = IF line.comp > 0 THEN line.comp ELSE @]

ClaudeStart(w) ==
  IF w.start THEN w
  ELSE [Emit(w, [ev |-> "message_start", n |-> IF w.in = 0 THEN Estimate ELSE w.in]) EXCEPT !.start = TRUE]

(* Slip: every text opens a block. *)
ClaudeBlockEach(w) == Emit(w, [ev |-> "content_block_start", n |-> 0])

ClaudeBlock(w) ==
  IF w.block THEN w ELSE [Emit(w, [ev |-> "content_block_start", n |-> 0]) EXCEPT !.block = TRUE]

ClaudeText(w, line) ==
  IF ~line.choices \/ line.text = 0 THEN w
  ELSE [Emit(ClaudeBlock(w), [ev |-> "content_block_delta", n |-> line.id]) EXCEPT !.texts = @ + line.text]

(* handleChunk *)
ClaudeChunk(w, line) == ClaudeText(ClaudeStart(ClaudeUsage(w, line)), line)

(* handleDone: no block is stopped, and the reason is end_turn whatever the upstream said. *)
ClaudeDone(w) ==
  Emit(Emit(w, [ev |-> "message_delta",
                n |-> IF w.out = 0 THEN AtLeastOne(w.texts \div BytesPerToken) ELSE w.out]),
       [ev |-> "message_stop", n |-> 0])

ClaudeLine(w, line) ==
  CASE ~line.data             -> w
    [] line.data /\ line.done -> ClaudeDone(w)
    [] OTHER                  -> IF line.json THEN ClaudeChunk(w, line) ELSE w

(* handleLine of the Gemini writer does not ask for "data:". *)
GeminiUsage(w, line) ==
  LET prompt == IF line.prompt > 0 THEN line.prompt ELSE Estimate
      comp   == IF line.comp > 0 THEN line.comp ELSE AtLeastOne(w.texts \div BytesPerToken)
  IN  [prompt |-> prompt, comp |-> comp, total |-> prompt + comp]

NoUsage == [prompt |-> 0, comp |-> 0, total |-> 0]

(* Slip: the line that stops is sent without its text. *)
GeminiLineStops(w, line) ==
  IF line.done \/ ~line.json \/ ~line.choices \/ (line.text = 0 /\ line.finish # "stop") THEN w
  ELSE LET v == [w EXCEPT !.texts = @ + line.text]
       IN  Emit(v, [ev |-> "part", n |-> IF line.finish = "stop" THEN 0 ELSE line.id,
                    usage |-> IF line.finish = "stop" THEN GeminiUsage(v, line) ELSE NoUsage])

GeminiLine(w, line) ==
  IF line.done \/ ~line.json \/ ~line.choices \/ (line.text = 0 /\ line.finish # "stop") THEN w
  ELSE LET v == [w EXCEPT !.texts = @ + line.text]
       IN  Emit(v, [ev |-> "part", n |-> IF line.text = 0 THEN 0 ELSE line.id,
                    usage |-> IF line.finish = "stop" THEN GeminiUsage(v, line) ELSE NoUsage])

LineOf(w, line) == IF call.kind = "claude" THEN ClaudeLine(w, line) ELSE GeminiLine(w, line)

(* process and Write: every line that a newline ends is handled, the rest waits. *)
Collect(w, piece) ==
  LET data == w.buf \o piece
  IN  [FoldLeft(LAMBDA v, seg : LineOf(v, Parsed(seg)), [w EXCEPT !.events = <<>>], LinesIn(data))
         EXCEPT !.buf = Rest(data)]

(* Bytes as they came, and bytes of a model's name that was replaced. *)
Plain(piece) == [k \in DOMAIN piece |-> [line |-> piece[k][1], part |-> piece[k][2], public |-> FALSE]]

(* modelRewriteWriter: the name of a line is replaced where the whole of it is in the piece. *)
Replaced(piece) ==
  {k \in 1..(Len(piece) - 1) : /\ call.mapped /\ call.lines[piece[k][1]].json
                               /\ piece[k][2] = 1 /\ piece[k + 1] = <<piece[k][1], 2>>}

Rewritten(piece) ==
  [k \in DOMAIN piece |-> [Plain(piece)[k] EXCEPT !.public = {k - 1, k} \intersect Replaced(piece) # {}]]

(* What its Write returns: the length of what it wrote, not of what it was given. *)
Written(piece) == Len(piece) + call.grows * Cardinality(Replaced(piece))

(* tailBufferWriter *)
TailKept(kept, piece) ==
  LET all == kept \o piece IN SubSeq(all, Max({1, Len(all) - TailBytes + 1}), Len(all))

-------------------------------------------------------------------------------
(* Copying                                                                 *)

(* No answer came: the client is told, by a message without usage, and the call goes on to the bill. *)
RoundTripFails ==
  /\ stage = "forward" /\ call.kind \in StreamKinds /\ call.status = 0
  /\ out' = <<[ev |-> "error", n |-> 0]>>
  /\ bytes' = EventBytes
  /\ stage' = "bill"
  /\ UNCHANGED <<call, sent, pos, writer, tail, cost, cuts>>

(* WriteHeader: another answer than 200, of Gemini than one below 400, is passed as it is. *)
Header ==
  /\ stage = "forward" /\ call.kind \in StreamKinds /\ call.status # 0
  /\ writer' = [writer EXCEPT !.raw = \/ call.kind = "claude" /\ call.status # 200
                                      \/ call.kind = "gemini" /\ call.status >= 400]
  /\ stage' = "copy"
  /\ UNCHANGED <<call, sent, pos, out, bytes, tail, cost, cuts>>

Raw(piece) ==
  /\ out' = out \o Plain(piece)
  /\ bytes' = bytes + Len(piece)
  /\ UNCHANGED <<stage, writer, tail, cuts>>

(* The Claude writer's events are counted, of Gemini the upstream's bytes. *)
Converting(piece) ==
  LET w == Collect(writer, piece)
  IN  /\ writer' = [w EXCEPT !.events = <<>>]
      /\ out' = out \o w.events
      /\ bytes' = bytes + (IF call.kind = "claude" THEN EventBytes * Len(w.events) ELSE Len(piece))
      /\ UNCHANGED <<stage, tail, cuts>>

(* The proxy takes another length than the piece's for a short write, and panics. *)
Relaying(piece) ==
  /\ out' = out \o Rewritten(piece)
  /\ bytes' = bytes + Written(piece)
  /\ stage' = IF Written(piece) = Len(piece) THEN stage ELSE "aborted"
  /\ tail' = TailKept(tail, piece)
  /\ cuts' = cuts \union {pos + Len(piece)}
  /\ UNCHANGED writer

(* One Write of the proxy. *)
Copy ==
  /\ stage = "copy"
  /\ \E n \in 1..(Len(Stream) - pos) :
       LET piece == SubSeq(Stream, pos + 1, pos + n)
       IN  /\ pos' = pos + n
           /\ \/ writer.raw /\ Raw(piece)
              \/ ~writer.raw /\ call.kind # "relay" /\ Converting(piece)
              \/ ~writer.raw /\ call.kind = "relay" /\ Relaying(piece)
  /\ UNCHANGED <<call, sent, cost>>

StreamEnds ==
  /\ stage = "copy" /\ pos = Len(Stream)
  /\ stage' = "bill"
  /\ UNCHANGED <<call, sent, pos, writer, out, bytes, tail, cost, cuts>>

(* The upstream or the client breaks off: ReverseProxy panics and the handler unwinds. *)
Break ==
  /\ stage = "copy"
  /\ stage' = "aborted"
  /\ UNCHANGED <<call, sent, pos, writer, out, bytes, tail, cost, cuts>>

-------------------------------------------------------------------------------
(* Buffered replies                                                        *)

(* openAIReplyToAnthropic: the text and the calls of tools, or an empty text. *)
ClaudeReply(r) ==
  LET content == (IF r.text = 0 THEN <<>> ELSE <<r.text>>) \o r.tools
  IN  [content |-> IF content = <<>> THEN <<0>> ELSE content, finish |-> "end_turn",
       in |-> r.prompt, out |-> r.comp]

GeminiFinish(finish) ==
  CASE finish = "length"         -> "MAX_TOKENS"
    [] finish = "content_filter" -> "SAFETY"
    [] OTHER                     -> "STOP"

(* openAIChatToGemini: the calls of tools are left out. *)
GeminiReply(r) ==
  [content |-> <<r.text>>, finish |-> GeminiFinish(r.finish), in |-> r.prompt, out |-> r.comp]

(* openAIEmbedToGemini: the first vector. *)
EmbedReply(r) == [content |-> <<r.text>>, finish |-> "", in |-> 0, out |-> 0]

(* The Claude handler converts an answer of success, the relay one whose model has another name *)
(* here, the Gemini handler every one; a body that is not JSON stays as it is.                  *)
Converts(r) ==
  /\ r.json
  /\ \/ call.kind = "claudeReply" /\ r.status \in 200..299
     \/ call.kind = "relayReply" /\ call.mapped
     \/ call.kind \in {"geminiReply", "embedReply"}

ReplyBody(r) ==
  CASE call.kind = "claudeReply" -> ClaudeReply(r)
    [] call.kind = "geminiReply" -> GeminiReply(r)
    [] call.kind = "embedReply"  -> EmbedReply(r)
    [] OTHER -> [content |-> <<r.text>> \o r.tools, finish |-> r.finish, in |-> r.prompt, out |-> r.comp]

(* The headers of the upstream are copied, its Content-Length too, but not by the Gemini handler. *)
Reply ==
  /\ stage = "forward" /\ call.kind \in ReplyKinds
  /\ LET r == call.reply
     IN  out' = <<[body     |-> IF Converts(r) THEN ReplyBody(r) ELSE r,
                   declared |-> IF call.kind \in {"geminiReply", "embedReply"} THEN 0 ELSE r.length,
                   length   |-> IF Converts(r) THEN r.converted ELSE r.length]>>
  /\ stage' = "bill"
  /\ UNCHANGED <<call, sent, pos, writer, bytes, tail, cost, cuts>>

-------------------------------------------------------------------------------
(* The bill                                                                *)

(* parseSSEUsage: the first usage in what was kept; the last line needs no newline. *)
TailUsage ==
  LET segs  == Append(LinesIn(tail), Rest(tail))
      says  == [k \in DOMAIN segs |-> Parsed(segs[k])]
      usage == SelectSeq(says, LAMBDA l : l.data /\ l.json /\ l.prompt + l.comp > 0)
  IN  IF usage = <<>> THEN 0 ELSE Head(usage).prompt + Head(usage).comp

StreamCost ==
  CASE call.kind = "claude" -> Estimate + AtLeastOne(bytes \div BytesPerToken)
    [] call.kind = "gemini" -> AtLeastOne(bytes \div BytesPerToken)
    [] OTHER -> IF TailUsage > 0 THEN TailUsage ELSE AtLeastOne(bytes \div BytesPerToken)

(* parseUsage, and the sum of parseUsageParts; 0 where there is none. *)
TotalOf(r) == IF ~r.json THEN 0 ELSE IF r.total > 0 THEN r.total ELSE r.prompt + r.comp
PartsOf(r) == IF r.json THEN r.prompt + r.comp ELSE 0

(* The relay bills the body it rewrote, the other two the one that came. *)
BilledLength(r) == IF call.kind = "relayReply" /\ Converts(r) THEN r.converted ELSE r.length

(* relayEndpointCost; AnthropicHandler does the same for a chat. *)
EndpointCost(r) ==
  CASE TotalOf(r) = 0 -> (CASE r.endpoint = "embeddings"  -> Estimate
                            [] r.endpoint = "moderations" -> AtLeastOne(BilledLength(r))
                            [] OTHER                      -> AtLeastOne(BilledLength(r) \div BytesPerToken))
    [] OTHER -> IF r.endpoint = "chat" /\ PartsOf(r) > 0 THEN PartsOf(r) ELSE TotalOf(r)

Bill ==
  /\ stage = "bill"
  /\ cost' = IF call.kind \in StreamKinds THEN StreamCost ELSE EndpointCost(call.reply)
  /\ stage' = "done"
  /\ UNCHANGED <<call, sent, pos, writer, out, bytes, tail, cuts>>

Silence == [system |-> <<>>, messages |-> <<>>]
NoReply == [json |-> FALSE, length |-> 0, status |-> 200, endpoint |-> "chat"]

(* The calls: a stream, whose body is short unless it is a success; a conversation; a reply.  The *)
(* model's name here may be longer or shorter than the upstream's, by what it grows.              *)
StreamCall(k, lines, ended, status, mapped, grows) ==
  [kind |-> k, request |-> Silence, lines |-> lines, ended |-> ended, status |-> status,
   mapped |-> mapped, grows |-> grows, reply |-> NoReply]

ReplyCall(k, request, reply, mapped) ==
  [kind |-> k, request |-> request, lines |-> <<>>, ended |-> TRUE, status |-> reply.status,
   mapped |-> mapped, grows |-> 0, reply |-> reply]

InitCall ==
  \/ \E k \in StreamKinds, n \in 0..MaxLines, e, m \in BOOLEAN, g \in {-1, 0, 1}, s \in Statuses :
       /\ m => k = "relay"
       /\ g # 0 => m
       /\ s # 200 => n <= 1
       /\ \E lines \in [1..n -> LineKinds[k]] : call = StreamCall(k, lines, e, s, m, g)
  \/ \E k \in ReplyKinds, q \in Requests :
       /\ k = "embedReply" => Len(q.messages) <= 1
       /\ call = ReplyCall(k, q, NoReply, FALSE)
  \/ \E k \in ReplyKinds, r \in Replies, m \in BOOLEAN :
       /\ m => k = "relayReply"
       /\ k = "embedReply" => r.endpoint = "embeddings"
       /\ k \in {"claudeReply", "geminiReply"} => r.endpoint = "chat"
       /\ call = ReplyCall(k, Silence, r, m)

Init ==
  /\ InitCall
  /\ stage = "convert" /\ sent = <<>> /\ pos = 0 /\ writer = NewWriter
  /\ out = <<>> /\ bytes = 0 /\ tail = <<>> /\ cost = 0 /\ cuts = {}

Next == Convert \/ RoundTripFails \/ Header \/ Copy \/ StreamEnds \/ Break \/ Reply \/ Bill

Spec == Init /\ [][Next]_vars

-------------------------------------------------------------------------------
(* Properties                                                              *)

(* Types; a stream that is billed was copied to its end, or its round trip failed. *)
TypeOK ==
  /\ call.kind \in StreamKinds \union ReplyKinds /\ pos \in 0..Len(Stream) /\ {bytes, cost} \subseteq Nat
  /\ stage \in {"convert", "forward", "copy", "bill", "done", "aborted"}
  /\ Len(tail) <= TailBytes /\ writer.events = <<>>
  /\ \A k \in DOMAIN writer.buf : writer.buf[k] \in Range(Stream)
  /\ stage \in {"bill", "done"} /\ call.kind \in StreamKinds => pos = Len(Stream) \/ call.status = 0

Streaming(kind) == call.kind = kind /\ ~writer.raw /\ stage \in {"copy", "bill", "done"} /\ call.status # 0

(* Lines whose newline was copied, and of those the ones that say something. *)
Came  == {i \in DOMAIN call.lines : <<i, 3>> \in Range(SubSeq(Stream, 1, pos))}
Lines == call.lines

Chunks == {i \in Came : Lines[i].json /\ ~Lines[i].done /\ (Lines[i].data \/ call.kind = "gemini")}
Texts  == {i \in Chunks : Lines[i].choices /\ Lines[i].text # 0}
Dones  == {i \in Came : Lines[i].data /\ Lines[i].done}

InOrder(S) == SetToSortSeq(S, <)

EventsOf(ev) == SelectSeq(out, LAMBDA e : e.ev = ev)

Numbers(events) == [k \in DOMAIN events |-> events[k].n]

TextSum(S) == FoldSet(LAMBDA i, acc : acc + Lines[i].text, 0, S)

(* However the stream is cut into pieces, the client of a converted stream has every text whose line *)
(* was copied to its end, once and in order.  process and Write of the two stream writers.           *)
TextsAreConverted ==
  /\ Streaming("claude") => Numbers(EventsOf("content_block_delta")) = InOrder(Texts)
  /\ Streaming("gemini") => SelectSeq(Numbers(EventsOf("part")), LAMBDA n : n # 0) = InOrder(Texts)

(* The client of a relayed stream has the upstream's bytes in their order, and the public name of the *)
(* model in every line whose name no cut fell into.  If the two names differ in length the stream ends *)
(* with the first piece a name is replaced in: the client gets that piece, nothing after it, and no    *)
(* bill is written.  modelRewriteWriter.Write and the proxy's check of what it returns.                *)
BytesAreRelayed ==
  call.kind = "relay" /\ stage \in {"copy", "bill", "done", "aborted"} /\ call.status # 0 =>
    /\ Len(out) = pos
    /\ \A k \in DOMAIN out :
         /\ <<out[k].line, out[k].part>> = Stream[k]
         /\ out[k].public <=> /\ call.mapped /\ out[k].part # 3 /\ Lines[out[k].line].json
                              /\ LET first == k + 1 - out[k].part
                                 IN  first \notin cuts /\ first + 1 <= pos
         /\ out[k].public /\ call.grows # 0 => stage = "aborted" /\ cuts \intersect k..(pos - 1) = {}

(* What the upstream said reaches the client in order and once, converted or not, and whole unless the *)
(* stream is aborted, by either side or by a name of another length.                                   *)
TextsArrive == TextsAreConverted /\ BytesAreRelayed

(* A Claude stream starts its message once, before everything but an end that no chunk came before; *)
(* it opens one block, before the first text; and it ends as often as the upstream says so.         *)
(* handleChunk and handleDone.                                                                      *)
ClaudeStreamIsWellFormed ==
  Streaming("claude") =>
    /\ Len(EventsOf("message_start")) = (IF Chunks = {} THEN 0 ELSE 1)
    /\ Len(EventsOf("content_block_start")) = (IF Texts = {} THEN 0 ELSE 1)
    /\ Len(EventsOf("message_stop")) = Cardinality(Dones)
    /\ \A k \in DOMAIN out :
         /\ out[k].ev = "message_stop" <=> k > 1 /\ out[k - 1].ev = "message_delta"
         /\ out[k].ev = "content_block_delta" => \E j \in 1..(k - 1) : out[j].ev = "content_block_start"
         /\ out[k].ev = "content_block_start" => \E j \in 1..(k - 1) : out[j].ev = "message_start"

(* The usage a converted stream reports is the last the upstream gave before, of each kind, and    *)
(* otherwise an estimate of all the texts so far, on whatever lines they came; of Gemini it is the  *)
(* one of the line that stops.  handleChunk, handleDone and handleLine.                             *)
UsageIsReported ==
  /\ Streaming("claude") /\ Cardinality(Dones) = 1 =>
       LET end   == CHOOSE i \in Dones : TRUE
           comps == {i \in Chunks : i < end /\ Lines[i].comp > 0}
           texts == {i \in Texts : i < end}
       IN  Numbers(EventsOf("message_delta")) =
             <<IF comps = {} THEN AtLeastOne(TextSum(texts) \div BytesPerToken) ELSE Lines[Max(comps)].comp>>
  /\ Streaming("claude") /\ Chunks # {} =>
       Numbers(EventsOf("message_start")) =
         <<IF Lines[Min(Chunks)].prompt = 0 THEN Estimate ELSE Lines[Min(Chunks)].prompt>>
  /\ Streaming("gemini") =>
       LET stops == InOrder({i \in Chunks : Lines[i].choices /\ Lines[i].finish = "stop"})
           ends  == SelectSeq(EventsOf("part"), LAMBDA e : e.usage # NoUsage)
       IN  /\ Len(ends) = Len(stops)
           /\ \A k \in DOMAIN stops :
                LET l     == Lines[stops[k]]
                    texts == {i \in Texts : i <= stops[k]}
                IN  /\ ends[k].usage.total = ends[k].usage.prompt + ends[k].usage.comp
                    /\ ends[k].usage.comp = IF l.comp > 0 THEN l.comp
                                            ELSE AtLeastOne(TextSum(texts) \div BytesPerToken)

(* A call costs at least one token.  If the upstream gave one usage, all of it in the tail of a       *)
(* relayed stream, or one whose total is the sum of its parts in a reply of whatever endpoint, that    *)
(* usage is what is charged.  A converted stream is charged by estimate even when usage came: of       *)
(* Claude by the request and by the events the client was sent, of Gemini by the bytes the upstream    *)
(* sent, its prompt free.  tailBufferWriter, parseSSEUsage, relayEndpointCost, anthropicStream.        *)
UsageIsCharged ==
  stage = "done" =>
    /\ cost >= 1
    /\ call.kind = "relay" /\ call.status # 0 =>
         LET usage == {i \in DOMAIN Lines : Lines[i].data /\ Lines[i].json /\ Lines[i].prompt + Lines[i].comp > 0}
         IN  \A i \in usage :
               usage = {i} /\ <<i, 1>> \in Range(TailKept(<<>>, Stream))
                 => cost = Lines[i].prompt + Lines[i].comp
    /\ Streaming("claude") => cost = Estimate + AtLeastOne((EventBytes * Len(out)) \div BytesPerToken)
    /\ Streaming("gemini") => cost = AtLeastOne(Len(Stream) \div BytesPerToken)
    /\ call.kind \in ReplyKinds /\ call.reply.json /\ call.reply.total > 0
       /\ call.reply.total = call.reply.prompt + call.reply.comp => cost = call.reply.total

(* The usage the upstream gave is what the client of a converted stream is told, and what a relayed *)
(* stream and a buffered reply are charged; a converted stream is charged by its estimate.          *)
UsageIsReckoned == UsageIsReported /\ UsageIsCharged

(* Nothing that is said in a request is lost or changes its place: the system's words come first,   *)
(* once, then the texts of the messages in their order.  anthropicToOpenAI, geminiToOpenAI,         *)
(* geminiEmbedToOpenAI, injectSystemPrompt.                                                         *)
RequestIsKept ==
  stage \notin {"convert"} =>
    LET req    == call.request
        Words(ps) == SelectSeq(ps, LAMBDA p : p.type = "text" /\ p.text # 0)
        named  == IF call.kind \in {"claude", "claudeReply"} THEN SelectSeq(req.messages, LAMBDA m : m.role # "")
                  ELSE req.messages
        spoken == FlattenSeq([i \in DOMAIN named |-> Words(named[i].parts)])
        heard  == FlattenSeq([i \in DOMAIN sent |-> Words(sent[i].texts)])
    IN  /\ heard \in {Words(req.system) \o spoken} \union
                     (IF call.kind \in {"relay", "relayReply", "embedReply"} THEN {spoken} ELSE {})
        /\ call.kind # "embedReply" => IsPrefix(Words(req.system), heard)

===============================================================================
