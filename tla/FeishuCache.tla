----------------------------- MODULE FeishuCache -----------------------------
(****************************************************************************)
(* The lookups of feishu/notice.go, made by the workers that send messages: *)
(* the id of a user and the token that a lookup or an upload needs, both    *)
(* kept in one cache, and the requests of feishu/request.go that fill it.   *)
(*                                                                          *)
(* Times are kept as what is left of them, in units of which Timeout is one *)
(* or more.  Feishu is external: it answers a request within Timeout or not *)
(* at all, and a token is good for the life it gives with it.  The request  *)
(* of an upload alone has no timeout.  One address is looked up and one     *)
(* application has a token.                                                 *)
(****************************************************************************)
EXTENDS Integers

CONSTANTS
  Sender,     \* goroutines that send: the workers, and callers that add images
  Life,       \* the lives of tokens that Feishu may give
  Margin,     \* 5 minutes: what is taken off the life of a token
  DefaultTtl, \* 5 minutes: the expiry of the cache for a duration of 0
  SearchTtl,  \* 10 minutes
  Timeout     \* 1 second, of every request but an upload

ASSUME FeishuTimes ==
  /\ Life \subseteq Nat
  /\ Margin \in Nat /\ Timeout \in Nat /\ 2 * Timeout <= Margin
  /\ DefaultTtl \in Nat \ {0} /\ SearchTtl \in Nat \ {0}

VARIABLES
  doing,   \* per sender: "idle", "token", "issued", "search", "answered", "upload", "post"
  image,   \* per sender: it needs its token for an upload
  age,     \* per sender: how long its request is under way
  held,    \* per sender: its token
  found,   \* per sender: Feishu's answer
  token,   \* the token in the cache, and how long it stays there
  answer   \* the answer in the cache, and how long it stays there

feishuVars == <<doing, image, age, held, found, token, answer>>

Forever == -1

\* A token: the life Feishu gave it, and what is left of it.
Fresh(life) == [life |-> life, left |-> life]
NoToken == Fresh(0)
Short(tok) == tok.life <= Margin

FeishuInit ==
  /\ doing = [s \in Sender |-> "idle"]
  /\ image = [s \in Sender |-> FALSE]
  /\ age = [s \in Sender |-> 0]
  /\ held = [s \in Sender |-> NoToken]
  /\ found = [s \in Sender |-> "none"]
  /\ token = [tok |-> NoToken, ttl |-> 0]
  /\ answer = [res |-> "none", ttl |-> 0]

\* Set of go-cache: 0 stands for the default, a negative duration for ever.
Ttl(d) == IF d = 0 THEN DefaultTtl ELSE IF d < 0 THEN Forever ELSE d

\* Mutant: the whole life of a token.
WholeLife(life) == Ttl(life)

TokenTtl(life) == Ttl(life - Margin)

Begin(s, what) == doing' = [doing EXCEPT ![s] = what] /\ age' = [age EXCEPT ![s] = 0]
Later(s, what) == doing' = [doing EXCEPT ![s] = what] /\ UNCHANGED age

------------------------------------------------------------------------------
(* getToken, searchUserID, newFileUploadRequest *)

\* What a token is wanted for.
UseToken(s, tok) ==
  /\ held' = [held EXCEPT ![s] = tok]
  /\ Begin(s, IF image'[s] THEN "upload" ELSE "search")

GetToken(s) ==
  IF token.ttl # 0 THEN UseToken(s, token.tok)
  ELSE Begin(s, "token") /\ UNCHANGED held

\* send: the address is looked up in the cache first.  Without one, or when the
\* webhook is not of version 2, there is nothing to look up.
Send(s) ==
  /\ doing[s] = "idle" /\ image' = [image EXCEPT ![s] = FALSE]
  /\ \/ Begin(s, "post") /\ UNCHANGED <<found, held>>
     \/ IF answer.ttl # 0
        THEN Begin(s, "post") /\ found' = [found EXCEPT ![s] = answer.res] /\ UNCHANGED held
        ELSE GetToken(s) /\ UNCHANGED found
  /\ UNCHANGED <<token, answer>>

\* SetValue of an image uploads it.
SetValue(s) ==
  /\ doing[s] = "idle" /\ image' = [image EXCEPT ![s] = TRUE]
  /\ GetToken(s)
  /\ UNCHANGED <<found, token, answer>>

\* Feishu makes a token.
Issue(s) ==
  /\ doing[s] = "token" /\ Later(s, "issued")
  /\ \E life \in Life : held' = [held EXCEPT ![s] = Fresh(life)]
  /\ UNCHANGED <<image, found, token, answer>>

\* Its reply arrives.
TokenReply(s) ==
  /\ doing[s] = "issued"
  /\ token' = [tok |-> held[s], ttl |-> TokenTtl(held[s].life)]
  /\ Begin(s, IF image[s] THEN "upload" ELSE "search")
  /\ UNCHANGED <<image, held, found, answer>>

\* The answer to a search: a user, no such user, or a refusal.  A token whose
\* life is over is refused.
Answer(s) ==
  /\ doing[s] = "search" /\ Later(s, "answered")
  /\ found' \in {[found EXCEPT ![s] = r] :
                   r \in {"refused"} \cup (IF held[s].left > 0 THEN {"user", "nobody"} ELSE {})}
  /\ UNCHANGED <<image, held, token, answer>>

\* The reply arrives and is kept whatever it says.
SearchReply(s) ==
  /\ doing[s] = "answered" /\ Begin(s, "post")
  /\ answer' = [res |-> found[s], ttl |-> SearchTtl]
  /\ UNCHANGED <<image, held, found, token>>

\* Request: a timeout, another error, a status that is not 200, no body, and
\* for a token what is not JSON or has a code.  Nothing is kept, and the
\* message is sent without the user.
Fail(s) ==
  /\ doing[s] \in {"token", "issued", "search", "answered"} /\ Begin(s, "post")
  /\ UNCHANGED <<image, held, found, token, answer>>

\* sendV2, the upload, or its end without a token: what becomes of the request
\* changes nothing here.
Finish(s) ==
  /\ doing[s] \in {"post", "upload"} /\ Begin(s, "idle")
  /\ held' = [held EXCEPT ![s] = NoToken] /\ found' = [found EXCEPT ![s] = "none"]
  /\ UNCHANGED <<image, token, answer>>

------------------------------------------------------------------------------
(* Time *)

Less(t) == IF t > 0 THEN t - 1 ELSE t
Older(tok) == [tok EXCEPT !.left = Less(tok.left)]

\* Beyond the timeout ages are not told apart.
Aged(s) == CASE doing[s] = "idle"  -> 0
             [] age[s] > Timeout   -> age[s]
             [] OTHER              -> age[s] + 1

Pass ==
  /\ \A s \in Sender : doing[s] \notin {"idle", "upload"} => age[s] < Timeout
  /\ age' = [s \in Sender |-> Aged(s)]
  /\ held' = [s \in Sender |-> Older(held[s])]
  /\ token' = [tok |-> Older(token.tok), ttl |-> Less(token.ttl)]
  /\ answer' = [answer EXCEPT !.ttl = Less(answer.ttl)]
  /\ UNCHANGED <<doing, image, found>>

FeishuNext ==
  \/ \E s \in Sender : \/ Send(s) \/ SetValue(s) \/ Issue(s) \/ TokenReply(s)
                       \/ Answer(s) \/ SearchReply(s) \/ Fail(s) \/ Finish(s)
  \/ Pass

FeishuSpec == FeishuInit /\ [][FeishuNext]_feishuVars

------------------------------------------------------------------------------
(* Properties *)

Doing == {"idle", "token", "issued", "search", "answered", "upload", "post"}
Token == [life : Nat, left : Nat]

FeishuTypeOK ==
  /\ doing \in [Sender -> Doing] /\ image \in [Sender -> BOOLEAN]
  /\ age \in [Sender -> 0..Timeout + 1] /\ held \in [Sender -> Token]
  /\ token \in [tok : Token, ttl : Nat \cup {Forever}]

\* What is left of a token's life covers its time in the cache, the time of the
\* request it then goes into, and what its own reply may have taken.
CacheInv ==
  /\ ~Short(token.tok) => token.ttl \in Nat
  /\ ~Short(token.tok) /\ token.ttl # 0 => token.tok.left >= token.ttl + Margin - Timeout

SenderInv(s) ==
  /\ doing[s] # "upload" => age[s] <= Timeout
  /\ doing[s] = "issued" => held[s].left + age[s] >= held[s].life
  /\ doing[s] \in {"search", "upload"} /\ ~Short(held[s]) => held[s].left + age[s] > Timeout

FeishuInv == FeishuTypeOK /\ CacheInv /\ \A s \in Sender : SenderInv(s)

\* A token that the cache still gives out, and one in a request that began no
\* longer ago than the timeout, is good, however late its reply was and
\* whichever of two replies was kept last: unless Feishu gave it a life of five
\* minutes or less, when it may be kept for ever and every lookup refused for
\* ever after.
TokenUsable ==
  /\ token.ttl # 0 /\ ~Short(token.tok) => token.tok.left > 0
  /\ \A s \in Sender :
       doing[s] \in {"search", "upload"} /\ age[s] <= Timeout /\ ~Short(held[s]) =>
         held[s].left > 0
==============================================================================
