--------------------------- MODULE ResponseStream ---------------------------
(***************************************************************************)
(* internal/llm/openai.go: Chat reads one response, ChatStream its events,  *)
(* and the next request repeats its calls with their outputs. ChatStream   *)
(* puts the text and the tool calls together. Servers differ in the ids    *)
(* their events carry, in what they repeat at the end and in whether they  *)
(* interleave the fragments of several calls; any stream may break off.    *)
(***************************************************************************)
EXTENDS Naturals, Sequences, SequencesExt

CONSTANTS
  Responses,  \* what a model answers: [text, calls : Seq([name, args])]
  Styles,     \* the servers' manners, see Manners
  NoName      \* "", the name of a call no item named

(* What a server may do: give item_id with the fragments, with the whole   *)
(* arguments and with the finished item, give the item an id of its own,   *)
(* give output_index, repeat the arguments in the finished item, stream    *)
(* the text, stream the calls.                                             *)
Manners == [fragmentId : BOOLEAN, argsId : BOOLEAN, itemId : BOOLEAN,
            ownId : BOOLEAN, index : BOOLEAN, itemArgs : BOOLEAN,
            speaks : BOOLEAN, calls : BOOLEAN]

(* Servers whose arguments can be traced to their item.                    *)
Traceable(s) ==
  /\ s.itemId => s.fragmentId /\ s.argsId
  /\ s.fragmentId \/ s.argsId => s.itemId \/ s.ownId

(* A model calls nothing without a name. *)
Proper(r) ==
  /\ r.text \in Seq(ToSet(r.text)) /\ r.calls \in Seq(ToSet(r.calls))
  /\ \A call \in ToSet(r.calls) :
       call.name # NoName /\ call.args \in Seq(ToSet(call.args))

VARIABLES
  response,   \* what the model answers
  style,      \* how the server tells it
  fragments,  \* how many argument fragments of each call were sent
  told,       \* calls whose arguments were sent in one piece
  finished,   \* calls whose item was sent
  full,       \* the text so far
  acc,        \* responsesStreamToolCallAccumulator: items and order
  completed,  \* response.completed was read
  pc,         \* "asked" by Chat, "reading" by ChatStream, "ok", "error"
  message     \* the message returned

server == <<response, style, fragments, told, finished>>
vars == <<server, full, acc, completed, pc, message>>

Indices == DOMAIN response.calls
Args(i) == response.calls[i].args

NoCall == [id |-> <<>>, name |-> NoName, args |-> <<>>]
NoMessage == [text |-> <<>>, calls |-> <<>>]

Init ==
  /\ response \in Responses
  /\ style \in Styles /\ Traceable(style)
  /\ fragments = [i \in Indices |-> 0]
  /\ told = {} /\ finished = {}
  /\ full = <<>>
  /\ acc = [items |-> <<>>, order |-> <<>>]
  /\ completed = FALSE
  /\ pc \in {"asked", "reading"}
  /\ message = NoMessage

-----------------------------------------------------------------------------
(* itemKey: an id, or the index where there is none. *)
Item(i) == <<"item", i>>
Output(i) == <<"output", IF style.index THEN i ELSE 0>>
Call(i) == <<"call", i>>
ItemKey(i, hasId) == IF hasId THEN Item(i) ELSE Output(i)

(* ensureWithKey *)
Ensure(a, key) ==
  IF key \in DOMAIN a.items THEN a
  ELSE [items |-> [k \in DOMAIN a.items \cup {key} |->
                     IF k = key THEN NoCall ELSE a.items[k]],
        order |-> Append(a.order, key)]

Without(a, key) == [k \in DOMAIN a.items \ {key} |-> a.items[k]]

(* The loops over the order: what of it is kept. *)
Kept(order, keys) ==
  LET kept[n \in 0..Len(order)] ==
        IF n = 0 THEN <<>>
        ELSE IF order[n] \in keys THEN Append(kept[n - 1], order[n]) ELSE kept[n - 1]
  IN  kept[Len(order)]

(* Mutant of Merged: what came under the old key is dropped. *)
MergedAway(a, from, to) ==
  IF from = to \/ from \notin DOMAIN a.items THEN a
  ELSE [items |-> Without(a, from),
        order |-> Kept(a.order, DOMAIN a.items \ {from})]

(* mergeKey: the new key takes over the old one's entry and place, or      *)
(* fills its own gaps from it.                                             *)
Joined(new, old) ==
  [id |-> IF new.id = <<>> THEN old.id ELSE new.id,
   name |-> IF new.name = NoName THEN old.name ELSE new.name,
   args |-> IF new.args = <<>> THEN old.args ELSE new.args]

Merged(a, from, to) ==
  IF from = to \/ from \notin DOMAIN a.items THEN a
  ELSE LET old == a.items[from]
           rest == Without(a, from)
       IN  IF to \notin DOMAIN a.items
           THEN [items |-> [k \in DOMAIN rest \cup {to} |->
                              IF k = to THEN old ELSE rest[k]],
                 order |-> [n \in DOMAIN a.order |->
                              IF a.order[n] = from THEN to ELSE a.order[n]]]
           ELSE [items |-> [rest EXCEPT ![to] = Joined(@, old)],
                 order |-> Kept(a.order, DOMAIN rest)]

(* AddArgumentsDelta, SetArguments; an empty piece is no event. *)
Added(a, key, piece) == [Ensure(a, key) EXCEPT !.items[key].args = Append(@, piece)]
Set(a, key, args) ==
  IF args = <<>> THEN a ELSE [Ensure(a, key) EXCEPT !.items[key].args = args]

(* SetItem: the finished item names the call and may repeat its arguments. *)
SetItem(a, i, args) ==
  LET key == IF style.itemId \/ style.ownId THEN Item(i) ELSE Call(i)
      b == Ensure(Merged(a, ItemKey(i, style.itemId), key), key)
  IN  [b EXCEPT !.items[key] =
         [id |-> Call(i), name |-> response.calls[i].name,
          args |-> IF args = <<>> THEN @.args ELSE args]]

(* An entry without name and arguments goes nowhere. *)
Listed(a) ==
  Kept(a.order, {k \in DOMAIN a.items : a.items[k].name # NoName \/ a.items[k].args # <<>>})

(* Mutant of List: an entry without id stays without. *)
ListBare(a) == LET keys == Listed(a) IN [n \in DOMAIN keys |-> a.items[keys[n]]]

(* List: an entry without id goes by its key.                              *)
List(a) ==
  LET keys == Listed(a)
  IN  [n \in DOMAIN keys |->
         [a.items[keys[n]] EXCEPT !.id = IF @ = <<>> THEN keys[n] ELSE @]]

(* responseToMessage, of a whole response. *)
Message(r) ==
  [text |-> r.text,
   calls |-> [i \in DOMAIN r.calls |->
                [id |-> Call(i), name |-> r.calls[i].name, args |-> r.calls[i].args]]]

(* responsesInput, of an answer and the outputs of its calls: an output     *)
(* that has no call to go to is sent as a text of the user's.              *)
Input(m) ==
  (IF m.text = <<>> THEN <<>> ELSE <<[type |-> "assistant", id |-> <<>>]>>)
  \o [n \in DOMAIN m.calls |-> [type |-> "call", id |-> m.calls[n].id]]
  \o [n \in DOMAIN m.calls |->
       [type |-> IF m.calls[n].id = <<>> THEN "user" ELSE "output",
        id |-> m.calls[n].id]]
-----------------------------------------------------------------------------
Reading == pc = "reading" /\ ~completed

(* Without item_id and output_index only order tells the calls apart.      *)
Turn(i) ==
  \/ style.index
  \/ style.fragmentId /\ style.argsId
  \/ \A k \in Indices : k < i => k \in finished

Telling(i) == Reading /\ style.calls /\ i \in Indices \ finished /\ Turn(i)

TextDelta(ok) ==
  /\ Reading /\ style.speaks /\ Len(full) < Len(response.text)
  /\ full' = Append(full, response.text[Len(full) + 1])
  /\ pc' = IF ok THEN pc ELSE "error"
  /\ UNCHANGED <<server, acc, completed, message>>

ArgumentsDelta(i) ==
  /\ Telling(i) /\ i \notin told /\ fragments[i] < Len(Args(i))
  /\ fragments' = [fragments EXCEPT ![i] = @ + 1]
  /\ acc' = Added(acc, ItemKey(i, style.fragmentId), Args(i)[fragments[i] + 1])
  /\ UNCHANGED <<response, style, told, finished, full, completed, pc, message>>

ArgumentsDone(i) ==
  /\ Telling(i) /\ i \notin told /\ fragments[i] \in {0, Len(Args(i))}
  /\ told' = told \cup {i}
  /\ acc' = Set(acc, ItemKey(i, style.argsId), Args(i))
  /\ UNCHANGED <<response, style, fragments, finished, full, completed, pc, message>>

(* Before an item without arguments these have been sent in full. *)
ItemDone(i) ==
  /\ Telling(i)
  /\ style.itemArgs \/ i \in told \/ fragments[i] = Len(Args(i))
  /\ finished' = finished \cup {i}
  /\ acc' = SetItem(acc, i, IF style.itemArgs THEN Args(i) ELSE <<>>)
  /\ UNCHANGED <<response, style, fragments, told, full, completed, pc, message>>

Spoken == full = response.text
Called == finished = Indices

Completed ==
  /\ Reading
  /\ style.speaks => Spoken
  /\ style.calls => Called
  /\ completed' = TRUE
  /\ UNCHANGED <<server, full, acc, pc, message>>

(* Mutant of Return: the completed response is kept out of it. *)
ReturnStreamed ==
  /\ pc = "reading"
  /\ pc' = "ok"
  /\ message' = [text |-> full, calls |-> List(acc)]
  /\ UNCHANGED <<server, full, acc, completed>>

(* [DONE], or the end of the body wherever it comes: the end marker is not *)
(* asked for. The completed response fills what the stream left empty.     *)
Return ==
  /\ pc = "reading"
  /\ pc' = "ok"
  /\ message' =
       LET calls == List(acc)
           last == IF completed THEN Message(response) ELSE NoMessage
       IN  [text |-> IF full = <<>> THEN last.text ELSE full,
            calls |-> IF calls = <<>> THEN last.calls ELSE calls]
  /\ UNCHANGED <<server, full, acc, completed>>

(* Chat: the response comes as a whole. *)
Chat ==
  /\ pc = "asked"
  /\ pc' = "ok" /\ completed' = TRUE
  /\ message' = Message(response)
  /\ UNCHANGED <<server, full, acc>>

(* A status, a failed event, a line that does not parse or a broken connection. *)
Fail ==
  /\ pc \in {"asked", "reading"}
  /\ pc' = "error"
  /\ UNCHANGED <<server, full, acc, completed, message>>

Next ==
  \/ \E ok \in BOOLEAN : TextDelta(ok)
  \/ \E i \in Indices : ArgumentsDelta(i) \/ ArgumentsDone(i) \/ ItemDone(i)
  \/ Completed \/ Return \/ Chat \/ Fail

Spec == Init /\ [][Next]_vars
-----------------------------------------------------------------------------
Whole == completed \/ (Spoken /\ Called)
Calls(m) == {m.calls[n] : n \in DOMAIN m.calls}

(* A stream told to its end gives every call of the response once, with    *)
(* all its arguments, and the text, whichever way the server put it.       *)
ResponseReassembled ==
  pc = "ok" /\ Whole =>
    /\ message.text = response.text
    /\ Len(message.calls) = Len(response.calls)
    /\ Calls(message) = Calls(Message(response))

(* Even of a stream that breaks off, no call that has a name, and so would *)
(* be run, has only half its arguments.                                    *)
NamedCallsWhole ==
  \A c \in Calls(message) : c.name # NoName => c \in Calls(Message(response))

(* However a stream ended, the request that follows has one output for     *)
(* each call it repeats.                                                   *)
CallsPaired ==
  LET input == Input(message)
      at(type, id) == {n \in DOMAIN input : input[n].type = type /\ input[n].id = id}
  IN  \A n \in DOMAIN input : input[n].type = "call" =>
        /\ at("call", input[n].id) = {n}
        /\ \E k \in DOMAIN input : at("output", input[n].id) = {k}
=============================================================================
