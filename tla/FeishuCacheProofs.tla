-------------------------- MODULE FeishuCacheProofs --------------------------
(****************************************************************************)
(* TokenUsable for every set of senders, every margin of at least twice the *)
(* timeout of a request, and all lives of tokens.  FeishuInv is inductive:  *)
(* it bounds what is left of a token from below by its time in the cache.   *)
(****************************************************************************)
EXTENDS FeishuCache, TLAPS

\* Of a token longer than the margin, the cache keeps the margin off; the
\* boundary at which go-cache takes its default, or for ever, is not reached.
LEMMA LongTokenTtl ==
  ASSUME NEW life \in Nat, life > Margin
  PROVE  TokenTtl(life) = life - Margin /\ TokenTtl(life) \in Nat \ {0}
<1> DEFINE d == life - Margin
<1>1. d \in Nat /\ d # 0 /\ ~(d < 0)
  BY FeishuTimes
<1>2. Ttl(d) = d
  BY <1>1 DEF Ttl
<1> QED
  BY <1>1, <1>2 DEF TokenTtl

LEMMA TokenTtlType ==
  ASSUME NEW life \in Nat
  PROVE  TokenTtl(life) \in Nat \cup {Forever}
BY FeishuTimes DEF TokenTtl, Ttl, Forever

LEMMA FeishuInitInv == FeishuInit => FeishuInv
<1> SUFFICES ASSUME FeishuInit PROVE FeishuInv
  OBVIOUS
<1>1. NoToken \in Token /\ Short(NoToken)
  BY FeishuTimes DEF NoToken, Fresh, Short, Token
<1>2. FeishuTypeOK
  BY <1>1, FeishuTimes DEF FeishuInit, FeishuTypeOK, Doing
<1>3. CacheInv
  BY <1>1 DEF FeishuInit, CacheInv
<1>4. ASSUME NEW s \in Sender PROVE SenderInv(s)
  <2>1. doing[s] = "idle" /\ age[s] = 0
    BY DEF FeishuInit
  <2>2. 0 <= Timeout
    BY FeishuTimes
  <2> QED
    BY <2>1, <2>2 DEF SenderInv
<1> QED
  BY <1>2, <1>3, <1>4 DEF FeishuInv

\* A token that the cache gives out is good for more than a request takes.
LEMMA GetTokenKeepsInv ==
  ASSUME FeishuInv, NEW s \in Sender, GetToken(s),
         image' \in [Sender -> BOOLEAN], UNCHANGED token
  PROVE  FeishuInv'
<1> USE FeishuTimes DEF FeishuInv, FeishuTypeOK, Doing
<1>1. FeishuTypeOK'
  BY DEF GetToken, UseToken, Begin, CacheInv
<1>2. CacheInv'
  BY DEF CacheInv, Short
<1>3. ASSUME NEW q \in Sender PROVE SenderInv(q)'
  <2>1. CASE q # s
    BY <2>1 DEF SenderInv, GetToken, UseToken, Begin, Short
  <2>2. CASE q = s /\ token.ttl = 0
    BY <2>2 DEF SenderInv, GetToken, UseToken, Begin, Short
  <2>3. CASE q = s /\ token.ttl # 0
    <3>1. held'[q] = token.tok /\ age'[q] = 0 /\ doing'[q] # "issued"
      BY <2>3 DEF GetToken, UseToken, Begin
    <3>2. ~Short(token.tok) => token.tok.left > Timeout
      BY <2>3 DEF CacheInv, Token
    <3> QED
      BY <3>1, <3>2 DEF SenderInv, Short, Token
  <2> QED
    BY <2>1, <2>2, <2>3
<1> QED
  BY <1>1, <1>2, <1>3

\* The other steps of a sender begin something, or go on, with the token it has.
LEMMA QuietKeepsInv ==
  ASSUME FeishuInv, NEW s \in Sender, NEW what \in {"idle", "answered", "post"},
         Begin(s, what) \/ (Later(s, what) /\ doing[s] # "upload"),
         UNCHANGED <<image, token>>,
         held' \in [Sender -> Token], \A q \in Sender \ {s} : held'[q] = held[q]
  PROVE  FeishuInv'
<1> USE FeishuTimes DEF FeishuInv, FeishuTypeOK, Doing
<1>1. FeishuTypeOK'
  BY DEF Begin, Later
<1>2. CacheInv'
  BY DEF CacheInv, Short
<1>3. ASSUME NEW q \in Sender PROVE SenderInv(q)'
  <2>1. CASE q # s
    <3>1. held'[q] = held[q] /\ doing'[q] = doing[q] /\ age'[q] = age[q]
      BY <2>1 DEF Begin, Later
    <3> QED
      BY <3>1 DEF SenderInv, Short
  <2>2. CASE q = s
    BY <2>2 DEF SenderInv, Begin, Later
  <2> QED
    BY <2>1, <2>2
<1> QED
  BY <1>1, <1>2, <1>3

LEMMA TokenReplyKeepsInv ==
  ASSUME FeishuInv, NEW s \in Sender, TokenReply(s)
  PROVE  FeishuInv'
<1> USE FeishuTimes DEF FeishuInv, FeishuTypeOK, Doing
<1> DEFINE tok == held[s]
<1>1. /\ tok \in Token /\ tok.life \in Nat /\ tok.left \in Nat
      /\ age[s] \in 0..Timeout /\ tok.left + age[s] >= tok.life
  BY DEF TokenReply, SenderInv, Token
<1>2. token' = [tok |-> tok, ttl |-> TokenTtl(tok.life)]
  BY DEF TokenReply
<1>3. FeishuTypeOK'
  BY <1>1, <1>2, TokenTtlType DEF TokenReply, Begin
<1>4. CacheInv'
  <2>1. CASE Short(tok)
    BY <1>2, <2>1 DEF CacheInv, Short
  <2>2. CASE ~Short(tok)
    <3>1. TokenTtl(tok.life) = tok.life - Margin /\ TokenTtl(tok.life) \in Nat
      BY <1>1, <2>2, LongTokenTtl DEF Short
    <3> QED
      BY <1>1, <1>2, <3>1 DEF CacheInv
  <2> QED
    BY <2>1, <2>2
<1>5. ASSUME NEW q \in Sender PROVE SenderInv(q)'
  <2>1. CASE q # s
    BY <2>1 DEF SenderInv, TokenReply, Begin, Short
  <2>2. CASE q = s
    <3>1. held'[q] = tok /\ age'[q] = 0 /\ doing'[q] # "issued"
      BY <2>2 DEF TokenReply, Begin
    <3>2. ~Short(tok) => tok.left > Timeout
      BY <1>1 DEF Short
    <3> QED
      BY <1>1, <3>1, <3>2 DEF SenderInv, Short
  <2> QED
    BY <2>1, <2>2
<1> QED
  BY <1>3, <1>4, <1>5

LEMMA IssueKeepsInv ==
  ASSUME FeishuInv, NEW s \in Sender, Issue(s)
  PROVE  FeishuInv'
<1> USE FeishuTimes DEF FeishuInv, FeishuTypeOK, Doing
<1> PICK life \in Life : held' = [held EXCEPT ![s] = Fresh(life)]
  BY DEF Issue
<1>1. life \in Nat /\ Fresh(life) \in Token
  BY DEF Fresh, Token
<1>2. FeishuTypeOK'
  BY <1>1 DEF Issue, Later
<1>3. CacheInv'
  BY DEF CacheInv, Short, Issue
<1>4. ASSUME NEW q \in Sender PROVE SenderInv(q)'
  <2>1. CASE q # s
    BY <2>1 DEF SenderInv, Issue, Later, Short
  <2>2. CASE q = s
    BY <1>1, <2>2 DEF SenderInv, Issue, Later, Fresh
  <2> QED
    BY <2>1, <2>2
<1> QED
  BY <1>2, <1>3, <1>4

LEMMA PassKeepsInv ==
  ASSUME FeishuInv, Pass
  PROVE  FeishuInv'
<1> USE FeishuTimes DEF FeishuInv, FeishuTypeOK, Doing
<1>1. ASSUME NEW tok \in Token
      PROVE  /\ Older(tok) \in Token /\ Older(tok).life = tok.life
             /\ Older(tok).left = IF tok.left > 0 THEN tok.left - 1 ELSE tok.left
  BY DEF Older, Less, Token
<1>2. Less(token.ttl) \in Nat \cup {Forever}
  BY DEF Less, Forever
<1>3. FeishuTypeOK'
  <2>1. ASSUME NEW q \in Sender PROVE Aged(q) \in 0..Timeout + 1
    BY DEF Aged
  <2> QED
    BY <1>1, <1>2, <2>1 DEF Pass
<1>4. CacheInv'
  <2>1. token' = [tok |-> Older(token.tok), ttl |-> Less(token.ttl)]
    BY DEF Pass
  <2>2. CASE Short(token.tok)
    BY <1>1, <2>1, <2>2 DEF CacheInv, Short
  <2>3. CASE ~Short(token.tok)
    <3>1. token.ttl \in Nat
      BY <2>3 DEF CacheInv
    <3>2. token.tok \in Token /\ token.tok.left \in Nat
      BY DEF Token
    <3> QED
      BY <1>1, <2>1, <2>3, <3>1, <3>2 DEF CacheInv, Less
  <2> QED
    BY <2>2, <2>3
<1>5. ASSUME NEW q \in Sender PROVE SenderInv(q)'
  <2>1. /\ held[q] \in Token /\ held[q].left \in Nat /\ held[q].life \in Nat
        /\ held'[q] = Older(held[q]) /\ doing'[q] = doing[q]
    BY DEF Pass, Token
  <2>2. age[q] \in Nat /\ age'[q] = Aged(q) /\ SenderInv(q)
    BY DEF Pass
  <2>3. CASE doing[q] = "upload"
    BY <1>1, <2>1, <2>2, <2>3 DEF SenderInv, Short, Aged
  <2>4. CASE doing[q] = "idle"
    BY <2>1, <2>2, <2>4 DEF SenderInv, Aged
  <2>5. CASE doing[q] \notin {"idle", "upload"}
    <3>1. age[q] < Timeout /\ age'[q] = age[q] + 1
      BY <2>2, <2>5 DEF Pass, Aged
    <3> QED
      BY <1>1, <2>1, <2>2, <2>5, <3>1 DEF SenderInv, Short
  <2> QED
    BY <2>3, <2>4, <2>5
<1> QED
  BY <1>3, <1>4, <1>5

LEMMA FeishuStepInv == FeishuInv /\ [FeishuNext]_feishuVars => FeishuInv'
<1> SUFFICES ASSUME FeishuInv, [FeishuNext]_feishuVars PROVE FeishuInv'
  OBVIOUS
<1>0. held \in [Sender -> Token] /\ image \in [Sender -> BOOLEAN]
  BY DEF FeishuInv, FeishuTypeOK
<1>1. ASSUME NEW s \in Sender, Send(s) PROVE FeishuInv'
  <2>1. image' \in [Sender -> BOOLEAN] /\ UNCHANGED token
    BY <1>0, <1>1 DEF Send
  <2>2. CASE GetToken(s)
    BY <2>1, <2>2, GetTokenKeepsInv
  <2>3. CASE Begin(s, "post") /\ UNCHANGED held
    <3> USE FeishuTimes DEF FeishuInv, FeishuTypeOK, Doing
    <3>1. FeishuTypeOK'
      BY <2>1, <2>3 DEF Begin
    <3>2. CacheInv'
      BY <2>1 DEF CacheInv, Short
    <3>3. \A q \in Sender : SenderInv(q)'
      BY <2>3 DEF SenderInv, Begin, Short
    <3> QED
      BY <3>1, <3>2, <3>3
  <2> QED
    BY <1>1, <2>2, <2>3 DEF Send
<1>2. ASSUME NEW s \in Sender, SetValue(s) PROVE FeishuInv'
  <2>1. GetToken(s) /\ image' \in [Sender -> BOOLEAN] /\ UNCHANGED token
    BY <1>0, <1>2 DEF SetValue
  <2> QED
    BY <2>1, GetTokenKeepsInv
<1>3. ASSUME NEW s \in Sender, Issue(s) PROVE FeishuInv'
  BY <1>3, IssueKeepsInv
<1>4. ASSUME NEW s \in Sender, TokenReply(s) PROVE FeishuInv'
  BY <1>4, TokenReplyKeepsInv
<1>5. ASSUME NEW s \in Sender, Answer(s) PROVE FeishuInv'
  <2>1. Later(s, "answered") /\ doing[s] # "upload" /\ UNCHANGED <<image, held, token>>
    BY <1>5 DEF Answer
  <2> QED
    BY <1>0, <2>1, QuietKeepsInv
<1>6. ASSUME NEW s \in Sender, SearchReply(s) \/ Fail(s) PROVE FeishuInv'
  <2>1. Begin(s, "post") /\ UNCHANGED <<image, held, token>>
    BY <1>6 DEF SearchReply, Fail
  <2> QED
    BY <1>0, <2>1, QuietKeepsInv
<1>7. ASSUME NEW s \in Sender, Finish(s) PROVE FeishuInv'
  <2>1. NoToken \in Token
    BY DEF NoToken, Fresh, Token
  <2>2. /\ Begin(s, "idle") /\ UNCHANGED <<image, token>>
        /\ held' = [held EXCEPT ![s] = NoToken]
    BY <1>7 DEF Finish
  <2>3. held' \in [Sender -> Token] /\ \A q \in Sender \ {s} : held'[q] = held[q]
    BY <1>0, <2>1, <2>2
  <2> QED
    BY <2>2, <2>3, QuietKeepsInv
<1>8. CASE Pass
  BY <1>8, PassKeepsInv
<1>9. CASE UNCHANGED feishuVars
  BY <1>9 DEF feishuVars, FeishuInv, FeishuTypeOK, CacheInv, SenderInv, Short
<1> QED
  BY <1>1, <1>2, <1>3, <1>4, <1>5, <1>6, <1>7, <1>8, <1>9 DEF FeishuNext

LEMMA FeishuInvUsable == FeishuInv => TokenUsable
<1> SUFFICES ASSUME FeishuInv PROVE TokenUsable
  OBVIOUS
<1> USE FeishuTimes DEF FeishuInv, FeishuTypeOK
<1>1. ASSUME token.ttl # 0, ~Short(token.tok) PROVE token.tok.left > 0
  <2>1. token.tok.left \in Nat /\ token.ttl \in Nat
    BY <1>1 DEF CacheInv, Token
  <2>2. token.tok.left >= token.ttl + Margin - Timeout
    BY <1>1 DEF CacheInv
  <2> QED
    BY <1>1, <2>1, <2>2
<1>2. ASSUME NEW s \in Sender, doing[s] \in {"search", "upload"}, ~Short(held[s]),
             age[s] <= Timeout
      PROVE  held[s].left > 0
  <2>0. age[s] \in Nat
    OBVIOUS
  <2>1. held[s].left \in Nat /\ age[s] \in 0..Timeout + 1 /\ held[s].left + age[s] > Timeout
    BY <1>2 DEF SenderInv, Token
  <2> QED
    BY <1>2, <2>0, <2>1
<1> QED
  BY <1>1, <1>2 DEF TokenUsable

\* FeishuInv holds always: types, and the bounds on what is left of a token in
\* the cache of notice.go and in the hands of its senders.
THEOREM FeishuInvHolds == FeishuSpec => []FeishuInv
BY FeishuInitInv, FeishuStepInv, PTL DEF FeishuSpec

\* A token that the cache of notice.go gives out is good until the request made
\* with it has arrived, if its life was longer than the margin of five minutes.
THEOREM TokensUsable == FeishuSpec => []TokenUsable
BY FeishuInvHolds, FeishuInvUsable, PTL
==============================================================================
