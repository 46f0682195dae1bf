------------------------------ MODULE BitcoinNet ------------------------------
(***************************************************************************)
(* The bitcoin tip that every signed message carries (bitcoin-net.ts).     *)
(* Off regtest, MempoolSpaceBitcoinNet gets the tip and the stable block   *)
(* with one request and keeps the promise of the answer for a while: calls *)
(* share a promise that may still be pending, may fail, and may be         *)
(* replaced while it is pending.  On regtest every call makes two requests *)
(* of its own, between which the chain may change.                         *)
(***************************************************************************)
EXTENDS Integers

CONSTANTS
  Caller,              \* calls of getLatestBlock that can be under way at once
  Fetch,               \* requests to mempool.space that can be under way at once
  NoFetch,             \* undefined, as a promise
  CacheSeconds,        \* how long a promise is reused
  StableConfirmations, \* how far below the tip the stable block is
  MaxTime,             \* bound of the model: the clock stops here
  MaxHeight,           \* bound of the model: the chain grows no higher
  MaxDepth             \* how many blocks a reorganisation replaces at most

ASSUME BitcoinNetAssumption ==
  /\ NoFetch \notin Fetch
  /\ CacheSeconds \in Nat \ {0}
  /\ {StableConfirmations, MaxTime, MaxHeight, MaxDepth} \subseteq Nat

VARIABLES
  network,       \* which BitcoinNetInstance this process has
  tip,           \* height of the best chain
  hashAt,        \* its blocks: which branch the block at each height is of
  branch,        \* the branch blocks are mined on
  now,           \* the clock
  lastBlockInfo, \* the promise that is kept
  lastFetchTime, \* when the fetch behind it was started
  fetch,         \* of each request: its stage, and when it was made and served
  excused,       \* no fetch was started yet, or one has failed since
  call           \* of each call: what it waits for, or what it was told

chainVars == <<tip, hashAt, branch>>
cacheVars == <<lastBlockInfo, lastFetchTime, fetch, excused>>
tipVars == <<network, chainVars, now, cacheVars, call>>

Time == 0 .. MaxTime
Heights == 0 .. MaxHeight

-----------------------------------------------------------------------------
(* State *)

\* asked: the request is out; served: the answer is on its way; kept: the
\* promise resolved and lastBlockInfo holds it.  A promise that was rejected,
\* or that nothing refers to any more, is unused.
FetchRecord == [stage : {"unused", "asked", "served", "kept"},
                started : Time, served : Time]

Unused == [stage |-> "unused", started |-> 0, served |-> 0]

\* waiting: for the promise "on"; tip and hash: for the two requests of the
\* regtest variant.  asOf is the age of the answer, stable the block it names;
\* expected is the block that was at stableHeight when the tip was read.
CallRecord ==
  [stage : {"idle", "waiting", "tip", "hash", "answered", "failed"},
   on : Fetch \cup {NoFetch}, called : Time, asOf : Time,
   height : Heights, stable : Nat, expected : Nat]

Idle == [stage |-> "idle", on |-> NoFetch, called |-> 0, asOf |-> 0,
         height |-> 0, stable |-> 0, expected |-> 0]

Free(c) == call[c].stage \in {"idle", "answered", "failed"}

Pending(f) == fetch[f].stage \in {"asked", "served"}

TipInit ==
  /\ network \in {"regtest", "mempool"}
  /\ tip \in Heights
  /\ hashAt = [h \in Heights |-> 0]
  /\ branch = 0
  /\ now = 0
  /\ lastBlockInfo = NoFetch /\ lastFetchTime = 0
  /\ fetch = [f \in Fetch |-> Unused]
  /\ excused = TRUE
  /\ call = [c \in Caller |-> Idle]

-----------------------------------------------------------------------------
(* MempoolSpaceBitcoinNet.getLatestBlock.  What the request returns is one   *)
(* snapshot of the chain, so that only its age is kept.                      *)

\* The promise that is kept is young enough to be used again.
CacheHitMutant == lastBlockInfo # NoFetch

CacheHit ==
  /\ lastBlockInfo # NoFetch
  /\ lastFetchTime > now - CacheSeconds

\* What a call is told by promise f, now or when it settles.
Told(c, f) == [Idle EXCEPT !.stage = "answered", !.called = call[c].called,
                           !.asOf = fetch[f].served]

\* Awaiting the promise that is kept: it resolved, it is out, or it was rejected,
\* which would fail the call at once.
GetCached(c) ==
  /\ network = "mempool" /\ Free(c) /\ CacheHit
  /\ call' = [call EXCEPT ![c] =
       CASE fetch[lastBlockInfo].stage = "kept" ->
              [Told(c, lastBlockInfo) EXCEPT !.called = now]
         [] Pending(lastBlockInfo) ->
              [Idle EXCEPT !.stage = "waiting", !.on = lastBlockInfo, !.called = now]
         [] OTHER -> [Idle EXCEPT !.stage = "failed"]]
  /\ UNCHANGED <<network, chainVars, now, cacheVars>>

\* lastBlockInfo lets go of a promise: once resolved, nothing refers to it.
Released(fs) == [f \in Fetch |-> IF f = lastBlockInfo /\ ~Pending(f)
                                   THEN Unused ELSE fs[f]]

\* What the time of the last request becomes when one is made now.
FetchTimeOfMutant(t) == lastFetchTime

FetchTimeOfMutantExpiry(t) == t + CacheSeconds

FetchTimeOf(t) == t

GetFetch(c, f) ==
  /\ network = "mempool" /\ Free(c) /\ ~CacheHit
  /\ fetch[f].stage = "unused"
  /\ lastFetchTime' = FetchTimeOf(now)
  /\ lastBlockInfo' = f
  /\ fetch' = [Released(fetch) EXCEPT ![f] =
                 [stage |-> "asked", started |-> now, served |-> 0]]
  /\ excused' = FALSE
  /\ call' = [call EXCEPT ![c] = [Idle EXCEPT !.stage = "waiting", !.on = f,
                                              !.called = now]]
  /\ UNCHANGED <<network, chainVars, now>>

Serve(f) ==
  /\ fetch[f].stage = "asked"
  /\ fetch' = [fetch EXCEPT ![f].stage = "served", ![f].served = now]
  /\ UNCHANGED <<network, chainVars, now, lastBlockInfo, lastFetchTime, excused, call>>

Waits(c, f) == call[c].stage = "waiting" /\ call[c].on = f

\* Keeping the answer when it comes, and not the promise when it is made.
SettleMutant(f) ==
  /\ fetch[f].stage = "served"
  /\ fetch' = [Released(fetch) EXCEPT ![f].stage = "kept"]
  /\ lastBlockInfo' = f
  /\ call' = [c \in Caller |-> IF Waits(c, f) THEN Told(c, f) ELSE call[c]]
  /\ UNCHANGED <<network, chainVars, now, lastFetchTime, excused>>

\* The answer arrives: every call that awaits the promise goes on.
Settle(f) ==
  /\ fetch[f].stage = "served"
  /\ fetch' = [fetch EXCEPT ![f] = IF lastBlockInfo = f
                                     THEN [@ EXCEPT !.stage = "kept"] ELSE Unused]
  /\ call' = [c \in Caller |-> IF Waits(c, f) THEN Told(c, f) ELSE call[c]]
  /\ UNCHANGED <<network, chainVars, now, lastBlockInfo, lastFetchTime, excused>>

\* What is kept after fetch f failed: nothing, be it f's promise or another's.
AfterFailureMutant(f) == lastBlockInfo

AfterFailure(f) == NoFetch

\* The request fails, or its answer cannot be read: the cached promise is
\* dropped, whichever it is, and every call that awaits this one fails.
Reject(f) ==
  /\ Pending(f)
  /\ lastBlockInfo' = AfterFailure(f)
  /\ fetch' = [Released(fetch) EXCEPT ![f] = Unused]
  /\ excused' = TRUE
  /\ call' = [c \in Caller |->
                IF Waits(c, f) THEN [Idle EXCEPT !.stage = "failed"] ELSE call[c]]
  /\ UNCHANGED <<network, chainVars, now, lastFetchTime>>

Tick ==
  /\ network = "mempool" /\ now < MaxTime
  /\ now' = now + 1
  /\ UNCHANGED <<network, chainVars, cacheVars, call>>

-----------------------------------------------------------------------------
(* RegtestBitcoinNet.getLatestBlock: the chain info, then a block hash.      *)

Ask(c) ==
  /\ network = "regtest" /\ Free(c)
  /\ call' = [call EXCEPT ![c] = [Idle EXCEPT !.stage = "tip"]]
  /\ UNCHANGED <<network, chainVars, now, cacheVars>>

\* The height whose hash is asked for, given the height that was read.
StableHeightMutant(h) == tip - StableConfirmations

StableHeight(h) == h - StableConfirmations

\* btcChainInfo arrives; below the genesis block there is nothing to expect.
TipAnswered(c) ==
  /\ call[c].stage = "tip"
  /\ call' = [call EXCEPT
       ![c].stage = "hash", ![c].height = tip,
       ![c].expected = IF tip < StableConfirmations THEN 0
                       ELSE hashAt[tip - StableConfirmations]]
  /\ UNCHANGED <<network, chainVars, now, cacheVars>>

\* The block hash arrives, of the chain as it is by now.
HashAnswered(c) ==
  /\ call[c].stage = "hash"
  /\ StableHeight(call[c].height) \in 0 .. tip
  /\ call' = [call EXCEPT ![c].stage = "answered",
                          ![c].stable = hashAt[StableHeight(call[c].height)]]
  /\ UNCHANGED <<network, chainVars, now, cacheVars>>

\* A request fails: bitcoind is not there, or has no block at that height.
RequestFails(c) ==
  /\ call[c].stage \in {"tip", "hash"}
  /\ call' = [call EXCEPT ![c] = [Idle EXCEPT !.stage = "failed"]]
  /\ UNCHANGED <<network, chainVars, now, cacheVars>>

\* Bitcoin: a block is added, or a longer branch replaces the last d blocks.
Mine ==
  /\ network = "regtest" /\ tip < MaxHeight
  /\ tip' = tip + 1
  /\ hashAt' = [hashAt EXCEPT ![tip + 1] = branch]
  /\ UNCHANGED <<network, branch, now, cacheVars, call>>

Reorganise(d) ==
  /\ network = "regtest" /\ tip < MaxHeight /\ d <= tip
  /\ tip' = tip + 1
  /\ branch' = branch + 1
  /\ hashAt' = [h \in Heights |-> IF h > tip - d THEN branch + 1 ELSE hashAt[h]]
  /\ UNCHANGED <<network, now, cacheVars, call>>

-----------------------------------------------------------------------------
TipNext ==
  \/ \E c \in Caller : GetCached(c) \/ Ask(c) \/ TipAnswered(c)
                         \/ HashAnswered(c) \/ RequestFails(c)
  \/ \E c \in Caller, f \in Fetch : GetFetch(c, f)
  \/ \E f \in Fetch : Serve(f) \/ Settle(f) \/ Reject(f)
  \/ Tick \/ Mine
  \/ \E d \in 1 .. MaxDepth : Reorganise(d)

TipSpec == TipInit /\ [][TipNext]_tipVars

-----------------------------------------------------------------------------
(* Properties *)

TipTypeOK ==
  /\ network \in {"regtest", "mempool"}
  /\ tip \in Heights
  /\ branch \in Nat
  /\ hashAt \in [Heights -> Nat]
  /\ now \in Time
  /\ lastBlockInfo \in Fetch \cup {NoFetch}
  /\ lastFetchTime \in Time
  /\ fetch \in [Fetch -> FetchRecord]
  /\ excused \in BOOLEAN
  /\ call \in [Caller -> CallRecord]

\* A promise that is kept, or that a call awaits, can still give an answer: a
\* failed one is never handed out, whoever else it was shared with
\* (bitcoin-net.ts, the catch clause of getLatestBlock).
NoFailedPromise ==
  /\ lastBlockInfo # NoFetch => fetch[lastBlockInfo].stage # "unused"
  /\ \A c \in Caller : call[c].stage = "waiting" => call[c].on \in Fetch /\ Pending(call[c].on)

\* A call is never told of a chain older than cacheBlockInfoSeconds at the time
\* of the call, though it may share a request that others made or that another
\* request has replaced since.
FreshEnough ==
  \A c \in Caller : network = "mempool" /\ call[c].stage = "answered"
                      => call[c].asOf > call[c].called - CacheSeconds

\* The promise that is kept is the last one made: an older request that is slow
\* to answer does not take its place.
NewestIsKept ==
  \A f \in Fetch : lastBlockInfo # NoFetch /\ Pending(f)
                     => fetch[f].started <= fetch[lastBlockInfo].started

\* On regtest the stable block of an answer is an ancestor of its tip, whatever
\* happens between the two requests, unless a reorganisation is deeper than
\* stableConfirmations (RegtestBitcoinNet.getLatestBlock).
StableIsAncestor ==
  MaxDepth <= StableConfirmations =>
    \A c \in Caller : network = "regtest" /\ call[c].stage = "answered"
                        => call[c].stable = call[c].expected

\* Unless a request failed, mempool.space is asked only when the last request
\* was made cacheBlockInfoSeconds ago: calls that come at once share one request.
RefetchIsExcused ==
  [][ \A f \in Fetch :
        fetch[f].stage = "unused" /\ fetch'[f].stage = "asked" =>
          \/ excused
          \/ /\ lastBlockInfo # NoFetch
             /\ fetch[lastBlockInfo].started + CacheSeconds <= now ]_tipVars
=============================================================================
