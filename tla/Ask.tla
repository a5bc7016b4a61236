-------------------------------- MODULE Ask --------------------------------
(***************************************************************************)
(* Asking for SQL (src/app/ai/, src/app/tui/browser/ask.rs): a question is  *)
(* typed in a modal, a thread sends it with the names of the tables to the  *)
(* provider that is set up, and the answer is put in the editor, to be read *)
(* and run by hand.  A question can be given up while its thread goes on.   *)
(* JSON values are records: [o |-> fields], [a |-> items], [s |-> text].  A *)
(* text is a sequence of characters, words and embedded objects.            *)
(***************************************************************************)
EXTENDS Naturals, Sequences, SequencesExt, FiniteSets, TLC

CONSTANTS
  Setups,   \* what is configured and set: provider, model, url, key, env, tables, focus
  Columns,  \* of each table its columns
  Replies,  \* of each kind of request what may come back: status and body
  Limit,    \* how many tables are told of
  Width,    \* how long a comment line may be
  Across,   \* how wide the modal is
  MaxKeys, MaxAsks

VARIABLES
  setup,    \* one of Setups
  tql,      \* the modal, the editor behind it and the message line
  threads   \* the questions sent so far, in order, each with what came of it

askVars == <<setup, tql, threads>>

None == "none"
Null == [null |-> TRUE]
NoAnswer == [query |-> <<>>, explanation |-> <<>>, notes |-> <<>>]
Closed == [open |-> FALSE, text |-> <<>>, cursor |-> 0, waiting |-> None, thread |-> 0]

Init ==
  /\ setup \in Setups
  /\ tql = [modal |-> Closed, editor |-> <<>>, mode |-> "grid", said |-> None, keys |-> 0,
            put |-> [thread |-> 0, asked |-> <<>>, answer |-> NoAnswer]]
  /\ threads = <<>>

-----------------------------------------------------------------------------
\* Texts

IsSpace(c) == c \in {" ", "nl"}
Trim(text) ==
  LET filled == {i \in DOMAIN text : ~IsSpace(text[i])}
  IN IF filled = {} THEN <<>>
     ELSE SubSeq(text, CHOOSE i \in filled : \A j \in filled : i <= j, CHOOSE i \in filled : \A j \in filled : j <= i)

\* A text split at its line breaks
Lines(text) ==
  FoldLeft(LAMBDA lines, c :
             IF c = "nl" THEN Append(lines, <<>>) ELSE [lines EXCEPT ![Len(lines)] = Append(@, c)],
           <<<<>>>>, text)

\* How a line is broken at its spaces: of each piece where it starts and ends.  A space at which
\* it breaks is in neither; a word that is too long is cut, if asked for.
Pieces(line, width, cut) ==
  LET Step(s, current) ==
        IF line[current + 1] = " "
        THEN IF current - s.start >= width
             THEN [pieces |-> Append(s.pieces, <<s.start, current>>), start |-> current + 1, space |-> current]
             ELSE [s EXCEPT !.space = current]
        ELSE IF current - s.start >= width /\ cut /\ s.start >= s.space
        THEN [pieces |-> Append(s.pieces, <<s.start, current>>), start |-> current, space |-> current]
        ELSE IF current - s.start >= width /\ s.start < s.space
        THEN [pieces |-> Append(s.pieces, <<s.start, s.space>>), start |-> s.space + 1, space |-> s.space + 1]
        ELSE s
      end == FoldLeft(Step, [pieces |-> <<>>, start |-> 0, space |-> 0], [i \in DOMAIN line |-> i - 1])
  IN Append(end.pieces, <<end.start, Len(line)>>)

Wordwrap(text, width, cut) ==
  FlattenSeq([l \in DOMAIN Lines(text) |->
    LET line == Lines(text)[l]
        pieces == Pieces(line, width, cut)
    IN [p \in DOMAIN pieces |-> SubSeq(line, pieces[p][1] + 1, pieces[p][2])]])

\* A comment after the query is left out
TrimmedQuery(query) ==
  LET q == Trim(query)
      opened == {i \in DOMAIN q : q[i] = "/*"}
  IN IF q = <<>> \/ Last(q) # "*/" \/ opened = {} THEN q
     ELSE Trim(SubSeq(q, 1, (CHOOSE i \in opened : \A j \in opened : j <= i) - 1))

\* Only the first line of an explanation is made a comment (a mutant)
CommentedOnce(text) ==
  IF text = <<>> THEN <<>>
  ELSE <<<<"--">> \o Wordwrap(text, Width, FALSE)[1]>> \o Tail(Wordwrap(text, Width, FALSE)) \o <<<<"--">>>>

\* The explanation and the notes as comments above the query
Commented(text) ==
  IF text = <<>> THEN <<>>
  ELSE [l \in DOMAIN Wordwrap(text, Width, FALSE) |-> <<"--">> \o Wordwrap(text, Width, FALSE)[l]] \o <<<<"--">>>>

Annotate(answer) ==
  Commented(answer.explanation) \o Commented(answer.notes) \o Lines(TrimmedQuery(answer.query))

-----------------------------------------------------------------------------
\* Which provider is asked, where and with which key

Names == <<"anthropic", "azure", "deepseek", "gemini", "groq", "mistral", "ollama", "openai",
           "openai-compatible", "openrouter", "xai">>
WireOf(name) ==
  CASE name = "anthropic" -> "Anthropic"
    [] name \in {"openai", "azure", "xai"} -> "Responses"
    [] name = "gemini" -> "Gemini"
    [] name = "deepseek" -> "JsonObject"
    [] name = "ollama" -> "Ollama"
    [] OTHER -> "Chat"

\* An environment variable, and where a provider is when none says otherwise
KeyVariable(name) == <<name, "key">>
Filled(env, variable) == IF variable \in DOMAIN env THEN env[variable] ELSE ""
Address(env, name) == IF Filled(env, <<name, "url">>) # "" THEN Filled(env, <<name, "url">>) ELSE "api of " \o name

NoProvider == [name |-> None, wire |-> None, url |-> "", key |-> ""]

\* The key of one provider for the address of another (a mutant)
LocalWithKey(s) ==
  IF s.url = "" THEN NoProvider
  ELSE [name |-> "tql-local", wire |-> "Chat", url |-> s.url, key |-> IF s.key = "" THEN Filled(s.env, KeyVariable("openai")) ELSE s.key]

\* An address of one's own
Local(s) == IF s.url = "" THEN NoProvider ELSE [name |-> "tql-local", wire |-> "Chat", url |-> s.url, key |-> s.key]

Named(name, env) ==
  LET key == Filled(env, KeyVariable(name))
      needsUrl == name \in {"azure", "ollama", "openai-compatible"}
      needsKey == name \notin {"ollama", "openai-compatible"}
      missing == (needsUrl /\ Filled(env, <<name, "url">>) = "") \/ (needsKey /\ key = "")
  IN IF name \notin Range(Names) \/ missing THEN NoProvider
     ELSE [name |-> name, wire |-> WireOf(name), url |-> Address(env, name), key |-> key]

Chosen(s) ==
  LET named == Named(s.provider, s.env)
      any == SelectSeq(Names, LAMBDA name : Named(name, s.env) # NoProvider)
  IN IF s.provider \notin {"", "auto"} THEN IF named # NoProvider THEN named ELSE Local(s)
     ELSE IF Local(s) # NoProvider THEN Local(s)
     ELSE IF any # <<>> THEN Named(Head(any), s.env) ELSE NoProvider

ModelOf(s, name) ==
  IF s.model # "" THEN s.model ELSE IF name \in {"tql-local", "openai-compatible"} THEN "" ELSE "usual of " \o name

\* What is told of the tables: the one looked at first, then the others, up to the limit
Summary(tables, focus) ==
  LET ordered == SelectSeq(tables, LAMBDA t : t = focus) \o SelectSeq(tables, LAMBDA t : t # focus)
      told == SubSeq(ordered, 1, IF Len(ordered) < Limit THEN Len(ordered) ELSE Limit)
  IN [tables |-> [t \in DOMAIN told |-> [name |-> told[t], columns |-> Columns[told[t]]]], more |-> Len(ordered) - Len(told)]

\* Each kind of API has its own place for the key, the instructions and the schema of the answer
Request(q) ==
  LET p == q.provider
      path == CASE p.wire = "Anthropic" -> "messages" [] p.wire = "Responses" -> "responses" [] p.wire = "Gemini" -> "interactions"
                [] p.wire = "Ollama" -> "api/chat" [] OTHER -> "chat/completions"
      header == CASE p.wire = "Anthropic" -> "x-api-key" [] p.wire = "Gemini" -> "x-goog-api-key"
                  [] p.name = "azure" -> "api-key" [] OTHER -> "Authorization"
      always == p.wire \in {"Anthropic", "Gemini"} \/ p.name = "azure"
  IN [url |-> <<p.url, path>>, headers |-> IF p.key = "" /\ ~always THEN {} ELSE {<<header, p.key>>},
      model |-> q.model, system |-> q.summary, asked |-> q.question,
      schema |-> IF p.wire = "JsonObject" THEN {"instructions"} ELSE IF p.wire = "Ollama" THEN {"instructions", "body"} ELSE {"body"}]

-----------------------------------------------------------------------------
\* What came back, by kind of API

At(v, k) == IF "o" \in DOMAIN v /\ k \in DOMAIN v.o THEN v.o[k] ELSE Null
Items(v) == IF "a" \in DOMAIN v THEN v.a ELSE <<>>
AtFirst(v) == IF Items(v) # <<>> THEN Items(v)[1] ELSE Null
Str(v) == IF "s" \in DOMAIN v THEN v.s ELSE <<>>
IsStr(v, text) == "s" \in DOMAIN v /\ v.s = text
IsOf(v, kind) == IsStr(At(v, "type"), kind)

\* The texts of some items of a list, one after the other
TextsOf(items, field) == FlattenSeq([i \in DOMAIN items |-> Str(At(items[i], field))])
Blocks(content, kind, field) == TextsOf(SelectSeq(Items(content), LAMBDA b : IsOf(b, kind)), field)
Texts(items) == IF "a" \in DOMAIN items THEN TextsOf(items.a, "text") ELSE Str(items)

Overloaded(name) ==
  CASE name = "anthropic" -> {529, 502, 503, 504, 520, 522, 524}
    [] name = "groq" -> {498, 502, 503}
    [] OTHER -> {502, 503, 504, 520, 522, 524}

CreditPatterns == {"credit balance", "insufficient", "quota exceeded", "exceeded your current quota", "billing", "usage limit"}

Failure(p, reply) ==
  CASE reply.status = 429 -> "rate limited"
    [] reply.status = 402 -> "no credits"
    [] reply.status \in Overloaded(p.name) -> "overloaded"
    [] p.name = "anthropic" /\ Range(Str(At(At(reply.body, "error"), "message"))) \cap CreditPatterns # {} -> "no credits"
    [] OTHER -> "failed"

\* An error in a body that came with a status of success
Refused(p, data) ==
  \/ "o" \notin DOMAIN data
  \/ p.wire = "Anthropic" /\ IsOf(data, "error")
  \/ p.wire # "Anthropic" /\ At(data, "error") # Null
  \/ p.wire = "Gemini" /\ (IsStr(At(data, "status"), "failed") \/ IsStr(At(data, "status"), "cancelled"))
  \/ p.wire \in {"Responses", "Chat", "JsonObject"} /\ IsStr(At(data, "status"), "failed")

\* The last message, or else the last item, whatever it is
ResponseText(p, output) ==
  LET messages == SelectSeq(output, LAMBDA item : IsOf(item, "message"))
      of == IF messages # <<>> THEN Last(messages) ELSE IF p.name # "xai" /\ output # <<>> THEN Last(output) ELSE Null
  IN Str(At(AtFirst(At(of, "content")), "text"))

ResponseReasoning(output) ==
  LET thought == SelectSeq(output, LAMBDA item : IsOf(item, "reasoning"))
  IN FlattenSeq([i \in DOMAIN thought |-> Texts(At(thought[i], "summary")) \o Texts(At(thought[i], "content"))])

GeminiText(steps, kind) ==
  LET those == SelectSeq(steps, LAMBDA step : IsOf(step, kind))
  IN FlattenSeq([i \in DOMAIN those |->
       IF "a" \in DOMAIN At(those[i], "summary") THEN Texts(At(those[i], "summary")) ELSE Texts(At(those[i], "content"))])

ChatText(content) ==
  IF "a" \in DOMAIN content THEN TextsOf(SelectSeq(content.a, LAMBDA c : ~IsOf(c, "thinking")), "text") ELSE Str(content)

ChatReasoning(message) ==
  LET thoughts == SelectSeq(Items(At(message, "content")), LAMBDA c : IsOf(c, "thinking"))
      apart == SelectSeq(<<Str(At(message, "reasoning_content")), Str(At(message, "reasoning"))>>, LAMBDA r : r # <<>>)
  IN IF apart # <<>> THEN Head(apart) ELSE FlattenSeq([i \in DOMAIN thoughts |-> Texts(At(thoughts[i], "thinking"))])

Replied(p, data) ==
  LET message == IF p.wire = "Ollama" THEN At(data, "message") ELSE At(AtFirst(At(data, "choices")), "message")
  IN CASE p.wire = "Anthropic" ->
            [text |-> Blocks(At(data, "content"), "text", "text"), reasoning |-> Blocks(At(data, "content"), "thinking", "thinking")]
       [] p.wire = "Responses" ->
            [text |-> ResponseText(p, Items(At(data, "output"))), reasoning |-> ResponseReasoning(Items(At(data, "output")))]
       [] p.wire = "Gemini" ->
            [text |-> GeminiText(Items(At(data, "steps")), "model_output"), reasoning |-> GeminiText(Items(At(data, "steps")), "thought")]
       [] p.wire = "Ollama" -> [text |-> Str(At(message, "content")), reasoning |-> Str(At(message, "thinking"))]
       [] OTHER -> [text |-> ChatText(At(message, "content")), reasoning |-> ChatReasoning(message)]

-----------------------------------------------------------------------------
\* The query in an answer: the whole text is an object, or a fenced part of it is, or one is
\* found in the reasoning, or else somewhere in the text

WithQuery(v) == At(v, "query") # Null
IsFence(token, kind) == "w" \in DOMAIN token /\ token.w = kind

Fenced(text) ==
  LET opens == {i \in DOMAIN text : IsFence(text[i], "fence json")}
      start == CHOOSE i \in opens : \A j \in opens : i <= j
      closes == {i \in DOMAIN text : i > start /\ IsFence(text[i], "fence")}
  IN IF opens = {} THEN <<>>
     ELSE IF closes = {} THEN <<>> ELSE SubSeq(text, start + 1, (CHOOSE i \in closes : \A j \in closes : i <= j) - 1)

OneObject(text) == IF Len(text) = 1 /\ WithQuery(text[1]) THEN text[1] ELSE Null
Structured(text) == IF OneObject(text) # Null THEN OneObject(text) ELSE OneObject(Fenced(text))

Embedded(text) ==
  LET objects == SelectSeq(text, WithQuery) IN IF objects = <<>> THEN Null ELSE Head(objects)

Decode(replied) ==
  LET tries == SelectSeq(<<Structured(replied.text), Embedded(replied.reasoning), Embedded(replied.text)>>, LAMBDA v : v # Null)
      found == Head(tries)
  IN IF tries = <<>> THEN Null
     ELSE [query |-> Trim(Str(At(found, "query"))), explanation |-> Trim(Str(At(found, "explanation"))),
           notes |-> Trim(Str(At(found, "notes")))]

\* What the thread sends back: an answer, or why there is none
Outcome(p, reply) ==
  IF reply.status = 0 THEN [error |-> "could not connect"]
  ELSE IF reply.status >= 400 THEN [error |-> Failure(p, reply)]
  ELSE IF Refused(p, reply.body) THEN [error |-> "refused"]
  ELSE IF Decode(Replied(p, reply.body)) = Null THEN [error |-> "the model did not answer with a query"]
  ELSE [answer |-> Decode(Replied(p, reply.body))]

-----------------------------------------------------------------------------
\* The modal

\* `a` in the grid
Open ==
  /\ ~tql.modal.open /\ tql.mode = "grid" /\ tql.keys < MaxKeys
  /\ tql' = [tql EXCEPT !.modal = [Closed EXCEPT !.open = TRUE], !.said = None]
  /\ UNCHANGED <<setup, threads>>

Insert(m, c) == [m EXCEPT !.text = SubSeq(@, 1, m.cursor) \o <<c>> \o SubSeq(@, m.cursor + 1, Len(@)), !.cursor = @ + 1]

TypeIntoQuestion(m, key) ==
  IF m.waiting # None THEN m
  ELSE CASE key = "shift-enter" -> Insert(m, "nl")
         [] key = "enter" -> IF Trim(m.text) = <<>> THEN m ELSE [m EXCEPT !.waiting = "preparing"]
         [] key = "left" -> IF m.cursor = 0 THEN m ELSE [m EXCEPT !.cursor = @ - 1]
         [] OTHER -> Insert(m, key)

Press(key) ==
  /\ tql.modal.open /\ tql.keys < MaxKeys
  /\ tql' = IF key = "escape" THEN [tql EXCEPT !.modal = Closed, !.said = None]
            ELSE [tql EXCEPT !.modal = TypeIntoQuestion(@, key), !.keys = @ + 1]
  /\ UNCHANGED <<setup, threads>>

PasteIntoQuestion ==
  /\ tql.modal.open /\ tql.modal.waiting = None /\ tql.keys < MaxKeys
  /\ tql' = [tql EXCEPT !.modal = Insert(Insert(@, "y"), " "), !.keys = @ + 1]
  /\ UNCHANGED <<setup, threads>>

\* The question is prepared in the event loop and sent by a thread of its own
StartAsking ==
  LET provider == Chosen(setup)
      question == [provider |-> provider, model |-> ModelOf(setup, provider.name),
                   summary |-> Summary(setup.tables, setup.focus), question |-> Trim(tql.modal.text)]
  IN IF provider = NoProvider
     THEN tql' = [tql EXCEPT !.modal.waiting = None, !.said = "no model to ask"] /\ UNCHANGED threads
     ELSE /\ threads' = Append(threads, [sent |-> Request(question), provider |-> provider, outcome |-> [waits |-> TRUE]])
          /\ tql' = [tql EXCEPT !.modal.waiting = "answering", !.modal.thread = Len(threads) + 1]

\* One channel for every question: the latest answer that came is taken (a mutant)
ReceivedFromAny ==
  LET came == {t \in DOMAIN threads : "waits" \notin DOMAIN threads[t].outcome}
  IN IF came = {} THEN tql.modal.thread ELSE CHOOSE t \in came : \A u \in came : t <= u

\* Whose answer is looked for: that of the question on the screen
Received == tql.modal.thread

Answered(outcome) ==
  LET a == outcome.answer
      failed == "error" \in DOMAIN outcome
  IN tql' = CASE failed -> [tql EXCEPT !.modal.waiting = None, !.said = outcome.error]
              [] ~failed /\ a.query = <<>> ->
                   [tql EXCEPT !.modal.waiting = None, !.said = IF a.notes = <<>> THEN "no query for that" ELSE a.notes]
              [] OTHER -> [tql EXCEPT !.modal = Closed, !.editor = Annotate(a), !.mode = "query", !.said = "read it first",
                             !.put = [thread |-> Received, asked |-> Trim(tql.modal.text), answer |-> a]]

WaitForAnswer ==
  /\ tql.modal.open /\ UNCHANGED setup
  /\ \/ tql.modal.waiting = "preparing" /\ Len(threads) < MaxAsks /\ StartAsking
     \/ /\ tql.modal.waiting = "answering" /\ "waits" \notin DOMAIN threads[Received].outcome
        /\ Answered(threads[Received].outcome) /\ UNCHANGED threads

\* The provider answers, or the time set for it is over
Reply(t) ==
  /\ "waits" \in DOMAIN threads[t].outcome
  /\ \E reply \in Replies[threads[t].provider.wire] \cup {[status |-> 0, body |-> Null]} :
       threads' = [threads EXCEPT ![t].outcome = Outcome(threads[t].provider, reply)]
  /\ UNCHANGED <<setup, tql>>

\* Back to the grid from the editor
Leave ==
  /\ tql.mode = "query" /\ tql.keys < MaxKeys
  /\ tql' = [tql EXCEPT !.mode = "grid", !.said = None]
  /\ UNCHANGED <<setup, threads>>

Next ==
  \/ Open \/ PasteIntoQuestion \/ WaitForAnswer \/ Leave
  \/ \E key \in {"x", " ", "left", "shift-enter", "enter", "escape"} : Press(key)
  \/ \E t \in DOMAIN threads : Reply(t)

Spec == Init /\ [][Next]_askVars

-----------------------------------------------------------------------------
\* How the question is drawn: each line by where it starts and ends in the text, and on which the cursor is
Before(lines, l) == FoldLeft(LAMBDA n, line : n + Len(line) + 1, 0, SubSeq(lines, 1, l - 1))
DrawnFrom(pieces, start) == [p \in DOMAIN pieces |-> [from |-> start + pieces[p][1], to |-> start + pieces[p][2]]]
Drawn(lines) == FlattenSeq([l \in DOMAIN lines |-> DrawnFrom(Pieces(lines[l], Across, TRUE), Before(lines, l))])
CursorIn(drawn, cursor) == SelectInSeq(drawn, LAMBDA d : cursor >= d.from /\ cursor <= d.to)
Shown(drawn, cursor) == [drawn |-> drawn, at |-> CursorIn(drawn, cursor)]
QuestionLines(m) == Shown(Drawn(Lines(m.text)), m.cursor)

\* What is in the editor but not in a comment
Uncommented(text) == SelectSeq(text, LAMBDA line : line = <<>> \/ line[1] # "--")

\* The answer in the editor is that of the question on the screen, not of one given up before
AnswersWhatIsAsked ==
  tql.put.thread # 0 => /\ threads[tql.put.thread].sent.asked = tql.put.asked
                        /\ threads[tql.put.thread].outcome = [answer |-> tql.put.answer]

\* All that would run of what was put in the editor is the query of the answer
OnlyTheQueryRuns ==
  tql.put.thread # 0 => Uncommented(tql.editor) = SelectSeq(Lines(TrimmedQuery(tql.put.answer.query)), LAMBDA line : line = <<>> \/ line[1] # "--")

\* A key is sent to the provider it is the key of, and nowhere else
KeysStayApart ==
  \A t \in DOMAIN threads : \A h \in threads[t].sent.headers :
    \/ h[2] = setup.key /\ threads[t].sent.url[1] = setup.url
    \/ \E name \in Range(Names) : Filled(setup.env, KeyVariable(name)) = h[2] /\ Address(setup.env, name) = threads[t].sent.url[1]

\* The table that is looked at is told of, however many there are
FocusIsTold ==
  \A t \in DOMAIN threads : setup.focus \in Range(setup.tables) /\ Limit > 0 =>
    threads[t].sent.system.tables[1].name = setup.focus

\* The cursor is always drawn, nothing of the question is lost but the space a line is broken
\* at, and no line is wider than the modal
QuestionIsShown ==
  tql.modal.open =>
    \A shown \in {QuestionLines(tql.modal)} :
       /\ shown.at # 0
       /\ \A d \in Range(shown.drawn) : d.to - d.from <= Across
       /\ \A i \in DOMAIN tql.modal.text :
            IsSpace(tql.modal.text[i]) \/ \E d \in Range(shown.drawn) : d.from < i /\ i <= d.to

AnswersAreTrue == AnswersWhatIsAsked /\ OnlyTheQueryRuns /\ KeysStayApart /\ FocusIsTold /\ QuestionIsShown

=============================================================================
