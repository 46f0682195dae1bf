--------------------------- MODULE BitcoinNetProofs ---------------------------
(***************************************************************************)
(* What BitcoinNet promises, for any number of calls and requests, any     *)
(* cache time and any chain.                                               *)
(***************************************************************************)
EXTENDS BitcoinNet, TLAPS

\* The time that is kept is that of the promise that is kept, no request was
\* made after it, and an answer is given after its request is made.
TimesAgree ==
  /\ lastFetchTime <= now
  /\ lastBlockInfo # NoFetch => fetch[lastBlockInfo].started = lastFetchTime
  /\ \A f \in Fetch : /\ Pending(f) => fetch[f].started <= lastFetchTime
                      /\ fetch[f].stage \in {"served", "kept"}
                           => fetch[f].started <= fetch[f].served

\* Without a promise there is an excuse for the next request.
NothingKeptIsExcused == lastBlockInfo = NoFetch => excused

\* Each network has its own kind of call, and what a call waits for is fresh
\* enough, or still at the depth where it was found.
CallsInOrder ==
  \A c \in Caller :
    /\ call[c].stage = "waiting" =>
         /\ network = "mempool"
         /\ fetch[call[c].on].started > call[c].called - CacheSeconds
    /\ call[c].stage \in {"tip", "hash"} => network = "regtest"
    /\ MaxDepth <= StableConfirmations /\ call[c].stage = "hash" =>
         /\ call[c].height <= tip
         /\ call[c].height >= StableConfirmations =>
              call[c].expected = hashAt[call[c].height - StableConfirmations]

\* The inductive invariant.
TipInv ==
  /\ TipTypeOK
  /\ NoFailedPromise
  /\ TimesAgree
  /\ NothingKeptIsExcused
  /\ CallsInOrder
  /\ FreshEnough
  /\ StableIsAncestor

USE BitcoinNetAssumption

\* Times and heights are natural numbers, and zero is one of each.
LEMMA TimesAndHeights ==
  /\ 0 \in Time /\ Time \subseteq Nat
  /\ 0 \in Heights /\ Heights \subseteq Nat
  BY DEF Time, Heights

\* The invariant holds initially.
LEMMA TipInitially == TipInit => TipInv
<1> SUFFICES ASSUME TipInit PROVE TipInv
  OBVIOUS
<1>1. TipTypeOK
  BY DEF TipInit, TipTypeOK, Time, Heights, Unused, FetchRecord, Idle, CallRecord
<1>2. NoFailedPromise /\ TimesAgree /\ NothingKeptIsExcused
  BY DEF TipInit, NoFailedPromise, TimesAgree, NothingKeptIsExcused, Unused, Idle, Pending
<1>3. CallsInOrder /\ FreshEnough /\ StableIsAncestor
  BY DEF TipInit, CallsInOrder, FreshEnough, StableIsAncestor, Idle
<1> QED
  BY <1>1, <1>2, <1>3 DEF TipInv

\* A call that shares the kept promise, which was not rejected.
LEMMA GetCachedKeeps ==
  ASSUME TipInv, NEW c \in Caller, GetCached(c)
  PROVE  TipInv'
<1> DEFINE told == IF fetch[lastBlockInfo].stage = "kept"
                 THEN [Told(c, lastBlockInfo) EXCEPT !.called = now]
                 ELSE [Idle EXCEPT !.stage = "waiting", !.on = lastBlockInfo,
                                   !.called = now]
<1>a. /\ lastBlockInfo \in Fetch /\ fetch[lastBlockInfo] \in FetchRecord
      /\ network = "mempool" /\ CacheHit
      /\ fetch[lastBlockInfo].stage # "kept" => Pending(lastBlockInfo)
  BY DEF TipInv, TipTypeOK, GetCached, CacheHit, NoFailedPromise, Pending, FetchRecord
<1>b. /\ told.stage = (IF fetch[lastBlockInfo].stage = "kept" THEN "answered" ELSE "waiting")
      /\ told.on = (IF fetch[lastBlockInfo].stage = "kept" THEN NoFetch ELSE lastBlockInfo)
      /\ told.called = now
      /\ fetch[lastBlockInfo].stage = "kept" => told.asOf = fetch[lastBlockInfo].served
  BY DEF Told, Idle
<1>c. told \in CallRecord
  BY <1>a, TimesAndHeights DEF Told, Idle, CallRecord, FetchRecord, TipInv, TipTypeOK
<1>d. call' = [call EXCEPT ![c] = told]
  BY <1>a DEF GetCached, Pending
<1> HIDE DEF told
<1>1. TipTypeOK'
  BY <1>c, <1>d DEF TipInv, TipTypeOK, GetCached, chainVars, cacheVars
<1>2. NoFailedPromise'
  BY <1>a, <1>b, <1>d DEF TipInv, TipTypeOK, NoFailedPromise, GetCached, Pending, cacheVars,
     FetchRecord
<1>3. TimesAgree'
  BY DEF TipInv, GetCached, TipTypeOK, TimesAgree, NoFailedPromise, Pending, Free,
     CacheHit, Told, cacheVars, chainVars
<1>4. NothingKeptIsExcused'
  BY DEF TipInv, GetCached, NothingKeptIsExcused, Free, CacheHit, Told, cacheVars,
     chainVars
<1>5. CallsInOrder'
  BY <1>a, <1>b, <1>d DEF TipInv, TipTypeOK, CallsInOrder, TimesAgree, GetCached, CacheHit,
     chainVars, cacheVars, Time, Heights
<1>6. FreshEnough'
  <2>1. fetch[lastBlockInfo].stage = "kept" =>
          fetch[lastBlockInfo].served > now - CacheSeconds
    BY <1>a DEF TipInv, TipTypeOK, TimesAgree, CacheHit, FetchRecord, Time
  <2> QED
    BY <2>1, <1>b, <1>d DEF TipInv, TipTypeOK, FreshEnough, GetCached, CallRecord
<1>7. StableIsAncestor'
  BY <1>a, <1>d DEF TipInv, StableIsAncestor, GetCached
<1> QED
  BY <1>1, <1>2, <1>3, <1>4, <1>5, <1>6, <1>7 DEF TipInv

\* A call that makes a request and replaces the kept promise.
LEMMA GetFetchKeeps ==
  ASSUME TipInv, NEW c \in Caller, NEW f \in Fetch, GetFetch(c, f)
  PROVE  TipInv'
<1> DEFINE asked == [stage |-> "asked", started |-> now, served |-> 0]
           waits == [Idle EXCEPT !.stage = "waiting", !.on = f, !.called = now]
<1>a. /\ network = "mempool" /\ lastBlockInfo' = f /\ lastFetchTime' = now
      /\ fetch' = [Released(fetch) EXCEPT ![f] = asked]
      /\ call' = [call EXCEPT ![c] = waits]
      /\ UNCHANGED <<network, tip, hashAt, branch, now>>
  BY DEF GetFetch, FetchTimeOf, chainVars
<1>b. asked \in FetchRecord /\ Unused \in FetchRecord
  BY TimesAndHeights DEF TipInv, TipTypeOK, FetchRecord, Unused
<1>c. /\ waits \in CallRecord /\ waits.stage = "waiting" /\ waits.on = f
      /\ waits.called = now
  BY TimesAndHeights DEF TipInv, TipTypeOK, CallRecord, Idle
<1>z. ~Pending(f)
  BY DEF GetFetch, Pending
<1>d. /\ fetch' \in [Fetch -> FetchRecord]
      /\ fetch'[f] = asked
      /\ \A g \in Fetch \ {f} : fetch'[g] = fetch[g] \/ (~Pending(g) /\ fetch'[g] = Unused)
  <2> DEFINE kept == Released(fetch)
  <2>1. kept \in [Fetch -> FetchRecord]
    BY <1>b DEF Released, TipInv, TipTypeOK
  <2>2. \A g \in Fetch : kept[g] = fetch[g] \/ (~Pending(g) /\ kept[g] = Unused)
    BY DEF Released, Pending
  <2>3. fetch' = [kept EXCEPT ![f] = asked]
    BY <1>a
  <2> HIDE DEF kept, asked
  <2> QED
    BY <1>b, <2>1, <2>2, <2>3
<1>e. /\ \A e \in Caller \ {c} : call'[e] = call[e]
      /\ call'[c] = waits
  BY <1>a DEF TipInv, TipTypeOK
<1> HIDE DEF asked, waits
<1>f. asked.stage = "asked" /\ asked.started = now /\ asked.served = 0
  BY DEF asked
<1>g. Unused.stage = "unused" /\ Unused.started = 0 /\ Unused.served = 0
  BY DEF Unused
<1>h. excused' = FALSE /\ call' \in [Caller -> CallRecord]
  BY <1>a, <1>c DEF GetFetch, TipInv, TipTypeOK
<1>1. TipTypeOK'
  BY <1>a, <1>c, <1>d, <1>h DEF TipInv, TipTypeOK
<1>2. NoFailedPromise'
  BY <1>a, <1>c, <1>d, <1>e, <1>f DEF TipInv, NoFailedPromise, Pending
<1>3. TimesAgree'
  BY <1>a, <1>d, <1>f, <1>g DEF TipInv, TipTypeOK, TimesAgree, Pending, Time, FetchRecord
<1>4. NothingKeptIsExcused'
  BY <1>a DEF TipInv, NothingKeptIsExcused
<1>5. CallsInOrder'
  <2>1. now > now - CacheSeconds
    BY DEF TipInv, TipTypeOK, Time
  <2>2. call'[c].stage = "waiting" /\ fetch'[call'[c].on].started > call'[c].called - CacheSeconds
    BY <2>1, <1>a, <1>c, <1>d, <1>e, <1>f
  <2>3. ASSUME NEW e \in Caller \ {c}, call[e].stage = "waiting"
        PROVE  fetch'[call[e].on] = fetch[call[e].on]
    BY <2>3, <1>d, <1>z DEF TipInv, NoFailedPromise, Pending
  <2> QED
    BY <2>2, <2>3, <1>a, <1>e DEF TipInv, CallsInOrder
<1>6. FreshEnough'
  BY <1>a, <1>c, <1>e DEF TipInv, FreshEnough
<1>7. StableIsAncestor'
  BY <1>a DEF TipInv, StableIsAncestor
<1> QED
  BY <1>1, <1>2, <1>3, <1>4, <1>5, <1>6, <1>7 DEF TipInv

\* An answer that sets out.
LEMMA ServeKeeps ==
  ASSUME TipInv, NEW f \in Fetch, Serve(f)
  PROVE  TipInv'
<1>1. TipTypeOK'
  BY DEF TipInv, Serve, TipTypeOK, chainVars, FetchRecord, Time
<1>2. NoFailedPromise'
  BY DEF TipInv, Serve, TipTypeOK, NoFailedPromise, Pending, chainVars
<1>3. TimesAgree'
  BY DEF TipInv, Serve, TipTypeOK, TimesAgree, NoFailedPromise, Pending, chainVars,
     FetchRecord, Time, Unused
<1>4. NothingKeptIsExcused'
  BY DEF TipInv, Serve, NothingKeptIsExcused, chainVars
<1>5. CallsInOrder'
  BY DEF TipInv, Serve, TipTypeOK, CallsInOrder, NoFailedPromise, Pending, TimesAgree,
     chainVars
<1>6. FreshEnough'
  BY DEF TipInv, Serve, TipTypeOK, FreshEnough, CallsInOrder, TimesAgree,
     NoFailedPromise, Pending, chainVars
<1>7. StableIsAncestor'
  BY DEF TipInv, Serve, StableIsAncestor, CallsInOrder, chainVars
<1> QED
  BY <1>1, <1>2, <1>3, <1>4, <1>5, <1>6, <1>7 DEF TipInv

\* An answer that arrives.
LEMMA SettleKeeps ==
  ASSUME TipInv, NEW f \in Fetch, Settle(f)
  PROVE  TipInv'
<1>a. /\ UNCHANGED <<network, tip, hashAt, branch, now, lastBlockInfo, lastFetchTime, excused>>
      /\ fetch[f].stage = "served" /\ fetch[f].served \in Time /\ Pending(f)
  BY DEF Settle, chainVars, Pending, TipInv, TipTypeOK, FetchRecord
<1>b. ASSUME NEW e \in Caller
      PROVE  /\ Told(e, f) \in CallRecord /\ Told(e, f).stage = "answered"
             /\ Told(e, f).called = call[e].called /\ Told(e, f).asOf = fetch[f].served
  BY <1>a, TimesAndHeights DEF Told, Idle, CallRecord, TipInv, TipTypeOK
<1>c. \A e \in Caller : IF Waits(e, f) THEN call'[e] = Told(e, f) ELSE call'[e] = call[e]
  BY DEF Settle
<1>d. call' \in [Caller -> CallRecord]
  BY <1>b DEF Settle, TipInv, TipTypeOK
<1>e. /\ fetch' \in [Fetch -> FetchRecord]
      /\ \A g \in Fetch \ {f} : fetch'[g] = fetch[g]
      /\ lastBlockInfo # f => fetch'[f] = Unused
      /\ lastBlockInfo = f => fetch'[f] = [fetch[f] EXCEPT !.stage = "kept"]
  BY DEF Settle, TipInv, TipTypeOK, Unused, FetchRecord, Time
<1>1. TipTypeOK'
  BY <1>a, <1>d, <1>e DEF TipInv, TipTypeOK
<1>2. NoFailedPromise'
  BY <1>a, <1>b, <1>c, <1>e DEF TipInv, TipTypeOK, NoFailedPromise, Pending, FetchRecord, Waits
<1>3. TimesAgree'
  BY <1>a, <1>e DEF TipInv, TipTypeOK, TimesAgree, Pending, FetchRecord, Unused
<1>4. NothingKeptIsExcused'
  BY DEF TipInv, Settle, NothingKeptIsExcused, Waits, Told, chainVars
<1>5. CallsInOrder'
  BY <1>a, <1>b, <1>c, <1>e DEF TipInv, TipTypeOK, CallsInOrder, NoFailedPromise, Pending,
     FetchRecord, Waits
<1>6. FreshEnough'
  <2>1. ASSUME NEW e \in Caller, Waits(e, f)
        PROVE  fetch[f].served > call[e].called - CacheSeconds
    BY <2>1, <1>a DEF TipInv, TipTypeOK, TimesAgree, CallsInOrder, Waits, FetchRecord,
       CallRecord, Time
  <2> QED
    BY <2>1, <1>a, <1>b, <1>c DEF TipInv, FreshEnough
<1>7. StableIsAncestor'
  BY <1>a, <1>c DEF TipInv, CallsInOrder, StableIsAncestor, Waits
<1> QED
  BY <1>1, <1>2, <1>3, <1>4, <1>5, <1>6, <1>7 DEF TipInv

\* A request that fails.
LEMMA RejectKeeps ==
  ASSUME TipInv, NEW f \in Fetch, Reject(f)
  PROVE  TipInv'
<1> DEFINE failed == [Idle EXCEPT !.stage = "failed"]
<1>a. failed \in CallRecord /\ failed.stage = "failed"
  BY TimesAndHeights DEF Idle, CallRecord
<1>b. Unused \in FetchRecord
  BY TimesAndHeights DEF Unused, FetchRecord
<1>c. /\ call' \in [Caller -> CallRecord]
      /\ fetch' \in [Fetch -> FetchRecord]
  BY <1>a, <1>b DEF Reject, Released, TipInv, TipTypeOK
<1>1. TipTypeOK'
  BY <1>c DEF Reject, AfterFailure, chainVars, TipInv, TipTypeOK
<1>2. NoFailedPromise'
  BY DEF TipInv, Reject, TipTypeOK, NoFailedPromise, Pending, Waits, Released,
     AfterFailure, chainVars
<1>3. TimesAgree'
  BY DEF TipInv, Reject, TipTypeOK, TimesAgree, NoFailedPromise, Pending, Waits,
     Released, AfterFailure, chainVars, FetchRecord, Time, Unused
<1>4. NothingKeptIsExcused'
  BY DEF TipInv, Reject, NothingKeptIsExcused, Waits, Released, AfterFailure,
     chainVars
<1>5. CallsInOrder'
  BY DEF TipInv, Reject, TipTypeOK, CallsInOrder, NoFailedPromise, Pending,
     TimesAgree, Waits, Released, AfterFailure, chainVars
<1>6. FreshEnough'
  BY DEF TipInv, Reject, TipTypeOK, FreshEnough, CallsInOrder, TimesAgree,
     NoFailedPromise, Pending, Waits, Released, AfterFailure, chainVars
<1>7. StableIsAncestor'
  BY DEF TipInv, Reject, StableIsAncestor, CallsInOrder, Waits, Released,
     AfterFailure, chainVars
<1> QED
  BY <1>1, <1>2, <1>3, <1>4, <1>5, <1>6, <1>7 DEF TipInv

\* The clock.
LEMMA TickKeeps ==
  ASSUME TipInv, Tick
  PROVE  TipInv'
<1>1. TipTypeOK'
  BY DEF TipInv, Tick, TipTypeOK, chainVars, cacheVars, FetchRecord, Time
<1>2. NoFailedPromise'
  BY DEF TipInv, Tick, TipTypeOK, NoFailedPromise, Pending, chainVars, cacheVars
<1>3. TimesAgree'
  BY DEF TipInv, Tick, TipTypeOK, TimesAgree, NoFailedPromise, Pending, chainVars,
     cacheVars, FetchRecord, Time, Unused
<1>4. NothingKeptIsExcused'
  BY DEF TipInv, Tick, NothingKeptIsExcused, chainVars, cacheVars
<1>5. CallsInOrder'
  BY DEF TipInv, Tick, TipTypeOK, CallsInOrder, NoFailedPromise, Pending, TimesAgree,
     chainVars, cacheVars
<1>6. FreshEnough'
  BY DEF TipInv, Tick, TipTypeOK, FreshEnough, CallsInOrder, TimesAgree,
     NoFailedPromise, Pending, chainVars, cacheVars
<1>7. StableIsAncestor'
  BY DEF TipInv, Tick, StableIsAncestor, CallsInOrder, chainVars, cacheVars
<1> QED
  BY <1>1, <1>2, <1>3, <1>4, <1>5, <1>6, <1>7 DEF TipInv

\* A call on regtest.
LEMMA AskKeeps ==
  ASSUME TipInv, NEW c \in Caller, Ask(c)
  PROVE  TipInv'
<1> DEFINE asks == [Idle EXCEPT !.stage = "tip"]
<1>a. asks \in CallRecord
  BY TimesAndHeights DEF Idle, CallRecord
<1>1. TipTypeOK'
  BY <1>a DEF TipInv, TipTypeOK, Ask, chainVars, cacheVars
<1>2. NoFailedPromise'
  BY DEF TipInv, Ask, TipTypeOK, NoFailedPromise, Pending, Free, chainVars, cacheVars
<1>3. TimesAgree'
  BY DEF TipInv, Ask, TipTypeOK, TimesAgree, NoFailedPromise, Pending, Free,
     chainVars, cacheVars
<1>4. NothingKeptIsExcused'
  BY DEF TipInv, Ask, NothingKeptIsExcused, Free, chainVars, cacheVars
<1>5. CallsInOrder'
  BY DEF TipInv, Ask, TipTypeOK, CallsInOrder, NoFailedPromise, Pending, TimesAgree,
     Free, chainVars, cacheVars
<1>6. FreshEnough'
  BY DEF TipInv, Ask, TipTypeOK, FreshEnough, CallsInOrder, TimesAgree,
     NoFailedPromise, Pending, Free, chainVars, cacheVars
<1>7. StableIsAncestor'
  BY DEF TipInv, Ask, StableIsAncestor, CallsInOrder, chainVars, cacheVars
<1> QED
  BY <1>1, <1>2, <1>3, <1>4, <1>5, <1>6, <1>7 DEF TipInv

\* The tip of the chain, as it was when it was asked for.
LEMMA TipAnsweredKeeps ==
  ASSUME TipInv, NEW c \in Caller, TipAnswered(c)
  PROVE  TipInv'
<1> DEFINE below == IF tip < StableConfirmations THEN 0 ELSE hashAt[tip - StableConfirmations]
           read == [call[c] EXCEPT !.stage = "hash", !.height = tip, !.expected = below]
<1>a. below \in Nat
  BY DEF TipInv, TipTypeOK, Heights
<1>b. read \in CallRecord
  BY <1>a DEF TipInv, TipTypeOK, CallRecord
<1>c. /\ call' = [call EXCEPT ![c] = read]
      /\ UNCHANGED <<network, tip, hashAt, branch, now, lastBlockInfo, lastFetchTime, fetch,
                     excused>>
  BY DEF TipAnswered, TipInv, TipTypeOK, chainVars, cacheVars
<1>d. /\ network = "regtest" /\ tip \in Nat
      /\ read.stage = "hash" /\ read.height = tip /\ read.expected = below
  BY TimesAndHeights DEF TipAnswered, TipInv, TipTypeOK, CallsInOrder, CallRecord
<1>e. /\ \A e \in Caller \ {c} : call'[e] = call[e]
      /\ call'[c] = read
  BY <1>c DEF TipInv, TipTypeOK
<1>1. TipTypeOK'
  BY <1>b, <1>c DEF TipInv, TipTypeOK
<1>2. NoFailedPromise'
  BY DEF TipInv, TipAnswered, TipTypeOK, NoFailedPromise, Pending, chainVars,
     cacheVars
<1>3. TimesAgree'
  BY DEF TipInv, TipAnswered, TipTypeOK, TimesAgree, NoFailedPromise, Pending,
     chainVars, cacheVars
<1>4. NothingKeptIsExcused'
  BY DEF TipInv, TipAnswered, NothingKeptIsExcused, chainVars, cacheVars
<1>5. CallsInOrder'
  <2> HIDE DEF read
  <2> QED
    BY <1>c, <1>d, <1>e DEF TipInv, CallsInOrder
<1>6. FreshEnough'
  BY DEF TipInv, TipAnswered, TipTypeOK, FreshEnough, CallsInOrder, TimesAgree,
     NoFailedPromise, Pending, chainVars, cacheVars
<1>7. StableIsAncestor'
  <2> HIDE DEF read
  <2> QED
    BY <1>c, <1>d, <1>e DEF TipInv, StableIsAncestor
<1> QED
  BY <1>1, <1>2, <1>3, <1>4, <1>5, <1>6, <1>7 DEF TipInv

\* The stable block, of the chain as it has become.
LEMMA HashAnsweredKeeps ==
  ASSUME TipInv, NEW c \in Caller, HashAnswered(c)
  PROVE  TipInv'
<1> DEFINE found == hashAt[call[c].height - StableConfirmations]
           told == [call[c] EXCEPT !.stage = "answered", !.stable = found]
<1>a. /\ call[c].stage = "hash" /\ call[c].height - StableConfirmations \in 0 .. tip
      /\ call[c] \in CallRecord /\ network = "regtest"
  BY DEF HashAnswered, StableHeight, TipInv, TipTypeOK, CallsInOrder
<1>b. found \in Nat
  BY <1>a DEF TipInv, TipTypeOK, Heights
<1>c. told \in CallRecord /\ told.stage = "answered" /\ told.stable = found
      /\ told.expected = call[c].expected
  BY <1>a, <1>b DEF CallRecord
<1>d. /\ call' = [call EXCEPT ![c] = told]
      /\ UNCHANGED <<network, tip, hashAt, branch, now, lastBlockInfo, lastFetchTime, fetch,
                     excused>>
  BY DEF HashAnswered, StableHeight, TipInv, TipTypeOK, chainVars, cacheVars
<1>e. /\ \A e \in Caller \ {c} : call'[e] = call[e]
      /\ call'[c] = told
  BY <1>d DEF TipInv, TipTypeOK
<1>1. TipTypeOK'
  BY <1>c, <1>d DEF TipInv, TipTypeOK
<1>2. NoFailedPromise'
  BY DEF TipInv, HashAnswered, TipTypeOK, NoFailedPromise, Pending, StableHeight,
     chainVars, cacheVars
<1>3. TimesAgree'
  BY DEF TipInv, HashAnswered, TipTypeOK, TimesAgree, NoFailedPromise, Pending,
     StableHeight, chainVars, cacheVars
<1>4. NothingKeptIsExcused'
  BY DEF TipInv, HashAnswered, NothingKeptIsExcused, StableHeight, chainVars,
     cacheVars
<1>5. CallsInOrder'
  BY DEF TipInv, HashAnswered, TipTypeOK, CallsInOrder, NoFailedPromise, Pending,
     TimesAgree, StableHeight, chainVars, cacheVars
<1>6. FreshEnough'
  BY DEF TipInv, HashAnswered, TipTypeOK, FreshEnough, CallsInOrder, TimesAgree,
     NoFailedPromise, Pending, StableHeight, chainVars, cacheVars
<1>7. StableIsAncestor'
  <2>1. MaxDepth <= StableConfirmations => found = call[c].expected
    <3>1. call[c].height \in Nat
      BY <1>a, TimesAndHeights DEF CallRecord
    <3>2. call[c].height >= StableConfirmations
      BY <1>a, <3>1
    <3> QED
      BY <1>a, <3>2 DEF TipInv, CallsInOrder
  <2> HIDE DEF found, told
  <2> QED
    BY <2>1, <1>c, <1>d, <1>e DEF TipInv, StableIsAncestor
<1> QED
  BY <1>1, <1>2, <1>3, <1>4, <1>5, <1>6, <1>7 DEF TipInv

\* One of the two requests that fails.
LEMMA RequestFailsKeeps ==
  ASSUME TipInv, NEW c \in Caller, RequestFails(c)
  PROVE  TipInv'
<1> DEFINE failed == [Idle EXCEPT !.stage = "failed"]
<1>a. failed \in CallRecord
  BY TimesAndHeights DEF Idle, CallRecord
<1>1. TipTypeOK'
  BY <1>a DEF TipInv, TipTypeOK, RequestFails, chainVars, cacheVars
<1>2. NoFailedPromise'
  BY DEF TipInv, RequestFails, TipTypeOK, NoFailedPromise, Pending, chainVars,
     cacheVars
<1>3. TimesAgree'
  BY DEF TipInv, RequestFails, TipTypeOK, TimesAgree, NoFailedPromise, Pending,
     chainVars, cacheVars
<1>4. NothingKeptIsExcused'
  BY DEF TipInv, RequestFails, NothingKeptIsExcused, chainVars, cacheVars
<1>5. CallsInOrder'
  BY DEF TipInv, RequestFails, TipTypeOK, CallsInOrder, NoFailedPromise, Pending,
     TimesAgree, chainVars, cacheVars
<1>6. FreshEnough'
  BY DEF TipInv, RequestFails, TipTypeOK, FreshEnough, CallsInOrder, TimesAgree,
     NoFailedPromise, Pending, chainVars, cacheVars
<1>7. StableIsAncestor'
  BY DEF TipInv, RequestFails, StableIsAncestor, CallsInOrder, chainVars, cacheVars
<1> QED
  BY <1>1, <1>2, <1>3, <1>4, <1>5, <1>6, <1>7 DEF TipInv

\* A block that is added.
LEMMA MineKeeps ==
  ASSUME TipInv, Mine
  PROVE  TipInv'
<1>1. TipTypeOK'
  BY DEF TipInv, Mine, TipTypeOK, cacheVars, Heights
<1>2. NoFailedPromise'
  BY DEF TipInv, Mine, TipTypeOK, NoFailedPromise, Pending, cacheVars
<1>3. TimesAgree'
  BY DEF TipInv, Mine, TipTypeOK, TimesAgree, NoFailedPromise, Pending, cacheVars
<1>4. NothingKeptIsExcused'
  BY DEF TipInv, Mine, NothingKeptIsExcused, cacheVars
<1>5. CallsInOrder'
  BY DEF TipInv, Mine, TipTypeOK, CallsInOrder, NoFailedPromise, Pending, TimesAgree,
     cacheVars, Heights, CallRecord
<1>6. FreshEnough'
  BY DEF TipInv, Mine, TipTypeOK, FreshEnough, CallsInOrder, TimesAgree,
     NoFailedPromise, Pending, cacheVars
<1>7. StableIsAncestor'
  BY DEF TipInv, Mine, StableIsAncestor, CallsInOrder, cacheVars
<1> QED
  BY <1>1, <1>2, <1>3, <1>4, <1>5, <1>6, <1>7 DEF TipInv

\* A reorganisation, which leaves what is deeper.
LEMMA ReorganiseKeeps ==
  ASSUME TipInv, NEW d \in 1 .. MaxDepth, Reorganise(d)
  PROVE  TipInv'
<1>1. TipTypeOK'
  BY DEF TipInv, Reorganise, TipTypeOK, cacheVars, Heights
<1>2. NoFailedPromise'
  BY DEF TipInv, Reorganise, TipTypeOK, NoFailedPromise, Pending, cacheVars
<1>3. TimesAgree'
  BY DEF TipInv, Reorganise, TipTypeOK, TimesAgree, NoFailedPromise, Pending,
     cacheVars
<1>4. NothingKeptIsExcused'
  BY DEF TipInv, Reorganise, NothingKeptIsExcused, cacheVars
<1>5. CallsInOrder'
  BY DEF TipInv, Reorganise, TipTypeOK, CallsInOrder, NoFailedPromise, Pending,
     TimesAgree, cacheVars, Heights, CallRecord
<1>6. FreshEnough'
  BY DEF TipInv, Reorganise, TipTypeOK, FreshEnough, CallsInOrder, TimesAgree,
     NoFailedPromise, Pending, cacheVars
<1>7. StableIsAncestor'
  BY DEF TipInv, Reorganise, StableIsAncestor, CallsInOrder, cacheVars
<1> QED
  BY <1>1, <1>2, <1>3, <1>4, <1>5, <1>6, <1>7 DEF TipInv

\* Every step keeps the invariant.
LEMMA TipInductive == TipInv /\ [TipNext]_tipVars => TipInv'
<1> SUFFICES ASSUME TipInv, [TipNext]_tipVars PROVE TipInv'
  OBVIOUS
<1>1. CASE UNCHANGED tipVars
  BY <1>1 DEF TipInv, TipTypeOK, NoFailedPromise, TimesAgree, NothingKeptIsExcused,
     CallsInOrder, FreshEnough, StableIsAncestor, Pending, tipVars, chainVars, cacheVars
<1>2. ASSUME NEW c \in Caller,
             GetCached(c) \/ Ask(c) \/ TipAnswered(c) \/ HashAnswered(c) \/ RequestFails(c)
      PROVE  TipInv'
  BY <1>2, GetCachedKeeps, AskKeeps, TipAnsweredKeeps, HashAnsweredKeeps, RequestFailsKeeps
<1>3. ASSUME NEW c \in Caller, NEW f \in Fetch, GetFetch(c, f)
      PROVE  TipInv'
  BY <1>3, GetFetchKeeps
<1>4. ASSUME NEW f \in Fetch, Serve(f) \/ Settle(f) \/ Reject(f)
      PROVE  TipInv'
  BY <1>4, ServeKeeps, SettleKeeps, RejectKeeps
<1>5. ASSUME Tick \/ Mine
      PROVE  TipInv'
  BY <1>5, TickKeeps, MineKeeps
<1>6. ASSUME NEW d \in 1 .. MaxDepth, Reorganise(d)
      PROVE  TipInv'
  BY <1>6, ReorganiseKeeps
<1> QED
  BY <1>1, <1>2, <1>3, <1>4, <1>5, <1>6 DEF TipNext

\* The inductive invariant, which the theorems below follow from.
THEOREM TipInvariant == TipSpec => []TipInv
  BY TipInitially, TipInductive, PTL DEF TipSpec

\* Every reachable state has its type: the time that is kept is never one that is
\* still to come.
THEOREM TipTypeCorrect == TipSpec => []TipTypeOK
<1>1. TipInv => TipTypeOK
  BY DEF TipInv
<1> QED
  BY <1>1, TipInvariant, PTL

\* No call is handed a promise that has failed (the catch clause of
\* getLatestBlock), whoever shares it and whichever request fails.
THEOREM FailedPromisesAreGone == TipSpec => []NoFailedPromise
<1>1. TipInv => NoFailedPromise
  BY DEF TipInv
<1> QED
  BY <1>1, TipInvariant, PTL

\* No answer is older than cacheBlockInfoSeconds when it is asked for.
THEOREM AnswersAreFresh == TipSpec => []FreshEnough
<1>1. TipInv => FreshEnough
  BY DEF TipInv
<1> QED
  BY <1>1, TipInvariant, PTL

\* No slow request takes the place of a later one.
THEOREM NewestPromise == TipSpec => []NewestIsKept
<1>1. TipInv => NewestIsKept
  BY DEF TipInv, TipTypeOK, TimesAgree, NewestIsKept, FetchRecord, Time
<1> QED
  BY <1>1, TipInvariant, PTL

\* On regtest the stable block belongs to the tip, for reorganisations of up to
\* stableConfirmations blocks between the two requests.
THEOREM StableBlockOfTip == TipSpec => []StableIsAncestor
<1>1. TipInv => StableIsAncestor
  BY DEF TipInv
<1> QED
  BY <1>1, TipInvariant, PTL

\* mempool.space is asked again only after cacheBlockInfoSeconds or a failure.
THEOREM RefetchingIsExcused == TipSpec => RefetchIsExcused
<1> DEFINE Excused ==
      \A f \in Fetch :
        fetch[f].stage = "unused" /\ fetch'[f].stage = "asked" =>
          \/ excused
          \/ /\ lastBlockInfo # NoFetch
             /\ fetch[lastBlockInfo].started + CacheSeconds <= now
<1>1. TipInv /\ [TipNext]_tipVars => [Excused]_tipVars
  <2> SUFFICES ASSUME TipInv, TipNext PROVE Excused
    OBVIOUS
  <2> SUFFICES ASSUME NEW f \in Fetch, fetch[f].stage = "unused",
                      fetch'[f].stage = "asked"
               PROVE  \/ excused
                      \/ /\ lastBlockInfo # NoFetch
                         /\ fetch[lastBlockInfo].started + CacheSeconds <= now
    OBVIOUS
  <2> USE DEF TipInv, TipTypeOK, FetchRecord
  <2>1. ASSUME NEW c \in Caller, NEW g \in Fetch, GetFetch(c, g)
        PROVE  ~CacheHit
    BY <2>1 DEF GetFetch
  <2>2. ASSUME NEW g \in Fetch, Serve(g) \/ Settle(g) \/ Reject(g)
        PROVE  FALSE
    <3>1. fetch'[f] = fetch[f] \/ fetch'[f] = Unused \/ f = g
      BY <2>2 DEF Serve, Settle, Reject, Released
    <3>2. f # g
      BY <2>2 DEF Serve, Settle, Reject, Pending
    <3> QED
      BY <3>1, <3>2 DEF Unused
  <2>3. ASSUME UNCHANGED fetch
        PROVE  FALSE
    BY <2>3
  <2>4. ~CacheHit
    BY <2>1, <2>2, <2>3 DEF TipNext, GetCached, Ask, TipAnswered, HashAnswered,
       RequestFails, Tick, Mine, Reorganise, cacheVars
  <2> QED
    BY <2>4 DEF CacheHit, TimesAgree, NothingKeptIsExcused, Time
<1> QED
  BY <1>1, TipInvariant, PTL DEF TipSpec, RefetchIsExcused
=============================================================================
