--------------------------- MODULE FeishuHistory ---------------------------
(***************************************************************************)
(* internal/feishuhistory/store.go: the session store that keeps nothing   *)
(* and reads a topic back from Feishu, its newest messages first.          *)
(***************************************************************************)
EXTENDS Integers, Sequences

CONSTANTS
  MinPage, MaxPage, Factor,  \* 20, 50, 4
  DefaultLimit,              \* 20, where MAX_HISTORY_MESSAGES sets no limit
  Untold                     \* what a message says that is no history: the
                             \* placeholder, or nothing as it was recalled

ASSUME PagesAssumption == {MinPage, MaxPage, Factor, DefaultLimit} \subseteq Nat

Newest(s, n) == IF Len(s) > n THEN SubSeq(s, Len(s) - n + 1, Len(s)) ELSE s

FetchLimit(limit) == IF limit <= 0 THEN DefaultLimit ELSE limit

PageSize(limit) ==
  LET wanted == FetchLimit(limit) * Factor
  IN  IF wanted < MinPage THEN MinPage ELSE IF wanted > MaxPage THEN MaxPage ELSE wanted

(* The loop over a page's messages, of which some are no history. *)
Told(page) ==
  LET told[n \in 0..Len(page)] ==
        IF n = 0 THEN <<>>
        ELSE IF page[n].text \in Untold THEN told[n - 1]
        ELSE Append(told[n - 1], page[n])
  IN  told[Len(page)]

(* RecentMessages: what is no history still takes its place on the page. *)
FromFeishu(topic, limit) ==
  Newest(Told(Newest(topic, PageSize(limit))), FetchLimit(limit))
=============================================================================
