---------------------------- MODULE SaihuClient ----------------------------
(***************************************************************************)
(* Calls of the Saihu API: SaihuClient (saihu/client.py) with its retries  *)
(* and its call log, and TokenManager (saihu/token.py), whose refreshes    *)
(* are shared by the callers that need one at the same time.               *)
(*                                                                         *)
(* All coroutines run in one process; a step ends where the code awaits.   *)
(* Tokens are numbered in the order Saihu issues them; it accepts the last *)
(* one until it is withdrawn.                                              *)
(***************************************************************************)
EXTENDS Naturals, Sequences

CONSTANTS
    Callers,      \* coroutines that may call post at the same time
    MaxRetries,   \* saihu_max_retries
    MaxTokens,    \* bound: tokens issued
    MaxRows,      \* bound: rate limited answers that are logged
    NoCaller

ASSUME ClientAssumption == MaxRetries \in Nat \ {0} /\ NoCaller \notin Callers

VARIABLES
    live,         \* the token Saihu accepts, 0 for none
    issued,       \* tokens issued so far
    aged,         \* tokens within saihu_token_refresh_ahead_seconds of their expiry
    mem, cache,   \* TokenManager._token and the row of access_token_cache, 0 for none
    token_lock,   \* who holds TokenManager._lock across an await, or NoCaller
    future,       \* _refresh_future: the refresh whose result it will hold, or 0
    refresh,      \* the refresh tasks: none, http, upsert, clearing
    call,         \* the calls: what a caller is doing in post
    log           \* api_call_log: the original calls Saihu answered with 40019

token == <<live, issued, aged, mem, cache, token_lock, future, refresh>>
clientVars == <<token, call, log>>

Tasks == {1, 2}
NoCall == [pc |-> "idle"]

ClientInit ==
    /\ live = 1 /\ issued = 1
    /\ aged = {}
    /\ mem = 0 /\ cache \in {0, 1}
    /\ token_lock = NoCaller
    /\ future = 0
    /\ refresh = [r \in Tasks |-> "none"]
    /\ call = [c \in Callers |-> NoCall]
    /\ log = <<>>

To(c, pc) == call' = [call EXCEPT ![c].pc = pc]

-----------------------------------------------------------------------------
(* Saihu *)

\* A token comes close to its expiry, or Saihu does not accept it any more.
Expire ==
    /\ \/ aged' = aged \cup {issued} /\ live' = live
       \/ live' = 0 /\ aged' = aged
    /\ live # 0
    /\ UNCHANGED <<issued, mem, cache, token_lock, future, refresh, call, log>>

-----------------------------------------------------------------------------
(* TokenManager *)

Usable(t) == t # 0 /\ t \notin aged

\* _get_or_start_refresh_locked: the refresh that is under way, or a new one.
\* A future is done once its task has left http and upsert; what is left of that
\* task does nothing to a new future, so that its place may be taken.
JoinRefresh(c) ==
    \E r \in Tasks :
        /\ IF future # 0 /\ refresh[future] \in {"http", "upsert"}
           THEN r = future /\ UNCHANGED <<refresh, future>>
           ELSE /\ refresh[r] \in {"none", "clearing"}
                /\ refresh' = [refresh EXCEPT ![r] = "http"]
                /\ future' = r
        /\ call' = [call EXCEPT ![c].pc = "await", ![c].on = r]

\* get_token, when the token in memory decides.
GetToken(c) ==
    /\ call[c].pc = "token" /\ token_lock = NoCaller /\ mem # 0
    /\ IF Usable(mem)
       THEN /\ call' = [call EXCEPT ![c].pc = "send", ![c].tok = mem]
            /\ UNCHANGED <<future, refresh>>
       ELSE JoinRefresh(c)
    /\ UNCHANGED <<live, issued, aged, mem, cache, token_lock, log>>

\* get_token without a token in memory: _load_from_db, holding the lock.
GetTokenLoad(c) ==
    /\ call[c].pc = "token" /\ token_lock = NoCaller /\ mem = 0
    /\ token_lock' = c /\ To(c, "load")
    /\ UNCHANGED <<live, issued, aged, mem, cache, future, refresh, log>>

\* The row is there: it replaces whatever is in memory by now.
GetTokenLoaded(c) ==
    /\ call[c].pc = "load"
    /\ mem' = IF cache # 0 THEN cache ELSE mem
    /\ token_lock' = NoCaller
    /\ IF Usable(mem')
       THEN /\ call' = [call EXCEPT ![c].pc = "send", ![c].tok = mem']
            /\ UNCHANGED <<future, refresh>>
       ELSE JoinRefresh(c)
    /\ UNCHANGED <<live, issued, aged, cache, log>>

\* force_refresh after 40001.
ForceRefresh(c) ==
    /\ call[c].pc = "force" /\ token_lock = NoCaller
    /\ JoinRefresh(c)
    /\ UNCHANGED <<live, issued, aged, mem, cache, token_lock, log>>

\* How a call ends; an exception of a refresh is not among the retried ones.
Ended(c, res) == [pc |-> "done", res |-> res]

\* SaihuAuthExpired: post gives the call a second budget, outside the first.
AuthExpired(c) ==
    IF call[c].round = 1 THEN [call[c] EXCEPT !.pc = "token", !.round = 2, !.attempt = 1, !.tok = 0, !.on = 0]
    ELSE Ended(c, "auth")

\* The future of r is resolved, for all who wait for it; those who have sent a
\* request already have come from force_refresh.
Resolve(r, t, ok) ==
    call' = [c \in Callers |->
        IF call[c].pc # "await" \/ call[c].on # r THEN call[c]
        ELSE IF ~ok THEN Ended(c, "error")
        ELSE IF call[c].tok # 0 THEN AuthExpired(c)
        ELSE [call[c] EXCEPT !.pc = "send", !.tok = t, !.on = 0]]

\* _refresh: Saihu issues a token, which is in memory before it is saved.
RefreshIssued(r) ==
    /\ refresh[r] = "http" /\ issued < MaxTokens
    /\ issued' = issued + 1 /\ live' = issued + 1 /\ mem' = issued + 1
    /\ refresh' = [refresh EXCEPT ![r] = "upsert"]
    /\ UNCHANGED <<aged, cache, token_lock, future, call, log>>

\* The UPSERT of access_token_cache.
RefreshSaved(r) ==
    /\ refresh[r] = "upsert"
    /\ cache' = issued
    /\ refresh' = [refresh EXCEPT ![r] = "clearing"]
    /\ Resolve(r, issued, TRUE)
    /\ UNCHANGED <<live, issued, aged, mem, token_lock, future, log>>

\* No answer after all attempts, an answer without a token, or a failed UPSERT.
RefreshFails(r) ==
    /\ refresh[r] \in {"http", "upsert"}
    /\ refresh' = [refresh EXCEPT ![r] = "clearing"]
    /\ Resolve(r, 0, FALSE)
    /\ UNCHANGED <<live, issued, aged, mem, cache, token_lock, future, log>>

\* Mutant: the future is cleared whoever it belongs to.
ClearAny(r) ==
    /\ refresh[r] = "clearing" /\ token_lock = NoCaller
    /\ future' = 0
    /\ refresh' = [refresh EXCEPT ![r] = "none"]
    /\ UNCHANGED <<live, issued, aged, mem, cache, token_lock, call, log>>

\* The finally of _run_refresh, which needs the lock.
RefreshCleared(r) ==
    /\ refresh[r] = "clearing" /\ token_lock = NoCaller
    /\ future' = IF future = r THEN 0 ELSE future
    /\ refresh' = [refresh EXCEPT ![r] = "none"]
    /\ UNCHANGED <<live, issued, aged, mem, cache, token_lock, call, log>>

-----------------------------------------------------------------------------
(* SaihuClient.post *)

\* A call, of a sync job (source 0) or the replay of the logged call source.
Post(c, source) ==
    /\ call[c].pc = "idle"
    /\ call' = [call EXCEPT ![c] = [pc |-> "token", attempt |-> 1, round |-> 1,
                    tok |-> 0, on |-> 0, src |-> source]]
    /\ UNCHANGED <<token, log>>

\* Mutant: the budget does not end.
RetryAlways(c, res) == [call[c] EXCEPT !.pc = "token", !.tok = 0]

\* AsyncRetrying: rate limits and network errors are tried again.
Retry(c, res) ==
    IF call[c].attempt < MaxRetries
    THEN [call[c] EXCEPT !.pc = "token", !.attempt = @ + 1, !.tok = 0]
    ELSE Ended(c, res)

\* should_queue_retry of _log.
QueueRetry(c) == call[c].src = 0 /\ call[c].attempt >= MaxRetries

\* _log of a 40019.  The row of a replay is no original; a failure to write the
\* row is swallowed.
LogRateLimit(c) ==
    \/ log' = log
    \/ /\ call[c].src = 0 /\ Len(log) < MaxRows
       /\ log' = Append(log, [status |-> IF QueueRetry(c) THEN "queued" ELSE "none", tries |-> 0])

\* _do_request with a token: the answer, or a network error.
Send(c) ==
    /\ call[c].pc = "send"
    /\ \/ /\ call[c].tok = live
          /\ call' = [call EXCEPT ![c] = Ended(c, "ok")]
          /\ log' = log
       \/ /\ call[c].tok = live
          /\ call' = [call EXCEPT ![c] = Ended(c, "biz")]
          /\ log' = log
       \/ /\ call[c].tok = live
          /\ call' = [call EXCEPT ![c] = Retry(c, "rate")]
          /\ LogRateLimit(c)
       \/ /\ call' = [call EXCEPT ![c] = Retry(c, "network")]
          /\ log' = log
       \/ /\ call[c].tok # live
          /\ call' = [call EXCEPT ![c].pc = "force"]
          /\ log' = log
    /\ UNCHANGED token

\* The caller has its result.
PostReturns(c) == call' = [call EXCEPT ![c] = NoCall]

=============================================================================
