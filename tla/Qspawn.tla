------------------------------- MODULE Qspawn -------------------------------
(***************************************************************************)
(* PublicInbox::Qspawn on public-inbox-httpd: a request is answered from   *)
(* the output of a child process, started under a Limiter.                 *)
(*                                                                         *)
(* The contexts of the limiter are Qspawn objects.  Each refers to a PSGI  *)
(* env, named by the context the client's request came with; the write     *)
(* callback 'qspawn.wcb' lives in the env, and a command that is chained   *)
(* (yield_pass with a CODE ref) shares the env of its predecessor.  For    *)
(* psgi_qx the callback stands for {qx_cb_arg}.                            *)
(*                                                                         *)
(* Three things keep an object alive: the run_queue, the entry of its      *)
(* child in DS's %AWAIT_PIDS, and the InputStream reading its pipe.        *)
(***************************************************************************)
EXTENDS Limiter

CONSTANTS
    Qx,     \* contexts run by psgi_qx; the others by psgi_yield
    NoEnv   \* {env} of an object after finalize

ASSUME QxAssumption == Qx \subseteq Contexts
ASSUME NoEnvAssumption == NoEnv \notin Contexts

VARIABLES
    obj,      \* the fields of each Qspawn object, and its child
    wcb,      \* envs whose write callback has not been called
    answers   \* history: how often the callback of each env was called

qspawnVars == <<obj, wcb, answers>>
vars == <<limiterVars, qspawnVars>>

ChildStates == {"none", "live", "zombie", "reaped"}

Objects ==
    [env     : Contexts \union {NoEnv},
     rpipe   : BOOLEAN,    \* {rpipe} is set
     istream : BOOLEAN,    \* an InputStream is reading the pipe
     qfh     : BOOLEAN,    \* {qfh} is set: the response is being streamed
     err     : BOOLEAN,    \* {_err} is defined
     passed  : BOOLEAN,    \* {passed}
     child   : ChildStates]

QTypeOK ==
    /\ TypeOK
    /\ obj \in [Contexts -> Objects]
    /\ wcb \in SUBSET Contexts
    /\ answers \in [Contexts -> Nat]

new == [env |-> NoEnv, rpipe |-> FALSE, istream |-> FALSE, qfh |-> FALSE,
        err |-> FALSE, passed |-> FALSE, child |-> "none"]

QInit ==
    /\ Init
    /\ obj = [c \in Contexts |-> new]
    /\ wcb = {}
    /\ answers = [c \in Contexts |-> 0]

-----------------------------------------------------------------------------
\* finalize: {env} is deleted; its callback, if nobody called it before and
\* the env was not handed to a chained command, is called with an error.
Finalized(o) == [o EXCEPT !.env = NoEnv]

Answered(o, w) == IF ~o.passed /\ o.env \in w THEN {o.env} ELSE {}

\* The callbacks of the envs in es are called: wcb is what is left of w.
Answer(es, w) ==
    /\ wcb' = w \ es
    /\ answers' = [e \in Contexts |-> answers[e] + (IF e \in es THEN 1 ELSE 0)]

\* finish: {rpipe} goes; finalize if it was gone before or {_err} is defined.
Finishes(o) == ~o.rpipe \/ o.err

Finish(o) == LET p == [o EXCEPT !.rpipe = FALSE]
             IN  IF Finishes(o) THEN Finalized(p) ELSE p

\* _do_spawn: the object after start_cb.  popen_rd or run_await may die, and
\* so may _yield_start once the child runs; finish then finalizes.
Spawned(c, o) ==
    LET child == [o EXCEPT !.child = "live"]
        open  == [child EXCEPT !.rpipe = TRUE, !.istream = TRUE]
        dead  == [o EXCEPT !.err = TRUE]
        deaf  == [child EXCEPT !.rpipe = TRUE, !.err = TRUE]
    IN  IF c \in Qx THEN {child, Finish(dead)} ELSE {open, Finish(dead), Finish(deaf)}

\* What a step of the limiter does to the objects, given those before it (o)
\* and the callbacks (w): refused ones are finalized (_qsp_fail), the one
\* that was given a slot is spawned, and finals have been finalized already.
Limited(o, w, finals) ==
    LET refused == {c \in Contexts : code'[c] # code[c]}
        started == {c \in Contexts : phase'[c] = "held" /\ phase[c] # "held"}
    IN  \E s \in [started -> UNION {Spawned(c, o[c]) : c \in started}] :
          /\ \A c \in started : s[c] \in Spawned(c, o[c])
          /\ obj' = [c \in Contexts |->
                        IF c \in started THEN s[c]
                        ELSE IF c \in refused THEN Finalized(o[c]) ELSE o[c]]
          /\ Answer(UNION ({Answered(o[c], w) : c \in refused} \union
                           {Answered(o[c], w) : c \in {d \in started : s[d].env = NoEnv}} \union
                           {finals}), w)

\* _do_spawn catches what it calls, the limiter never sees it die.
NeverDies == \A c \in Contexts : code'[c] # 500

-----------------------------------------------------------------------------
\* psgi_yield or psgi_qx for a new client, then start -> may_start.
psgi_yield(c) ==
    /\ may_start(c) /\ NeverDies
    /\ Limited([obj EXCEPT ![c].env = c], wcb \union {c}, {})

\* External: the command ends, or dies of SIGPIPE.
ChildExits(c) ==
    /\ obj[c].child = "live"
    /\ obj' = [obj EXCEPT ![c].child = "zombie"]
    /\ UNCHANGED <<limiterVars, wcb, answers>>

\* reap_pids -> waitcb -> waitpid_err: {_err} is defined from now on; with
\* {rpipe} gone nobody else will finalize.
WaitpidErr(c, last) ==
    /\ obj[c].child = "zombie"
    /\ LET o == [obj[c] EXCEPT !.child = "reaped", !.err = TRUE]
       IN  /\ obj' = [obj EXCEPT ![c] = IF last THEN Finalized(o) ELSE o]
           /\ Answer(IF last THEN Answered(o, wcb) ELSE {}, wcb)
    /\ UNCHANGED limiterVars

Bug_AlwaysFinalize(c) == WaitpidErr(c, TRUE)

waitpid_err(c) == WaitpidErr(c, ~obj[c].rpipe)

\* istream_cb before the response began.  parse_hdr_done has a response:
\* yield_pass takes the callback out of the env and answers.  A header that
\* is incomplete changes nothing.
Reads(c) == obj[c].istream

Closed(o) == [o EXCEPT !.rpipe = FALSE, !.istream = FALSE]

Bug_KeepWcb(c) ==
    /\ Reads(c) /\ ~obj[c].qfh
    /\ \E early \in BOOLEAN :
         obj' = [obj EXCEPT ![c] = IF early THEN Closed(@) ELSE [@ EXCEPT !.qfh = TRUE]]
    /\ answers' = [answers EXCEPT ![obj[c].env] = @ + 1]
    /\ UNCHANGED <<limiterVars, wcb>>

yield_pass(c) ==
    /\ Reads(c) /\ ~obj[c].qfh
    /\ \E early \in BOOLEAN :  \* a 3-element response, else streaming starts
         obj' = [obj EXCEPT ![c] = IF early THEN Closed(@) ELSE [@ EXCEPT !.qfh = TRUE]]
    /\ Answer({obj[c].env}, wcb)
    /\ UNCHANGED limiterVars

\* yield_pass with a CODE ref: the pipe is closed and the callback given to
\* another command, which puts it back into the same env and starts.
yield_chain(c, d) ==
    /\ Reads(c) /\ ~obj[c].qfh
    /\ d \notin Qx
    /\ may_start(d) /\ NeverDies
    /\ Limited([obj EXCEPT ![c] = [Closed(@) EXCEPT !.passed = TRUE],
                           ![d].env = obj[c].env], wcb, {})

\* yield_chunk: at EOF finish, which finalizes when the child was reaped; on a
\* read error or when the client is gone the pipe is just closed.
yield_chunk(c) ==
    /\ Reads(c) /\ obj[c].qfh
    /\ \/ /\ obj' = [obj EXCEPT ![c] = Closed(Finish(@))]
          /\ Answer(IF Finishes(obj[c]) THEN Answered(obj[c], wcb) ELSE {}, wcb)
       \/ /\ obj' = [obj EXCEPT ![c] = Closed(@)]
          /\ UNCHANGED <<wcb, answers>>
    /\ UNCHANGED limiterVars

\* The last reference goes: DESTROY is finalize, and the "limiter.next" guard
\* among the fields runs _start_next.
Unreferenced(c) == ~obj[c].istream /\ obj[c].child \notin {"live", "zombie"}

Bug_ReleaseUnreaped(c) ==
    /\ ~obj[c].istream
    /\ _start_next(c) /\ NeverDies
    /\ Limited([obj EXCEPT ![c] = Finalized(@)], wcb, Answered(obj[c], wcb))

DESTROY(c) ==
    /\ Unreferenced(c)
    /\ _start_next(c) /\ NeverDies
    /\ Limited([obj EXCEPT ![c] = Finalized(@)], wcb, Answered(obj[c], wcb))

Hangup(c) == ClientHup(c) /\ UNCHANGED qspawnVars

QIdle == Idle /\ UNCHANGED qspawnVars

Read(c) == yield_pass(c) \/ yield_chunk(c) \/ \E d \in Contexts : yield_chain(c, d)

QNext ==
    \/ QIdle
    \/ \E c \in Contexts : \/ psgi_yield(c) \/ ChildExits(c) \/ waitpid_err(c)
                           \/ Read(c) \/ DESTROY(c) \/ Hangup(c)

\* The event loop serves every pipe and every dead child, commands end and
\* Perl destroys what nothing refers to.
QFairness ==
    \A c \in Contexts : /\ WF_vars(ChildExits(c))
                        /\ WF_vars(waitpid_err(c))
                        /\ WF_vars(Read(c))
                        /\ WF_vars(DESTROY(c))

QSpec == QInit /\ [][QNext]_vars /\ QFairness

-----------------------------------------------------------------------------
\* Exactly one answer per client, whatever the order of EOF, reaping, refusal,
\* disconnect and spawn failure: a callback is called once and then gone, and
\* one that is still waiting is waited for by exactly one object that the
\* limiter has not let go of and that did not pass the env on.
OneAnswer ==
    \A e \in Contexts :
        /\ answers[e] + (IF e \in wcb THEN 1 ELSE 0) <= 1
        /\ e \in wcb => \E c \in Contexts :
              /\ obj[c].env = e /\ ~obj[c].passed
              /\ phase[c] \in {"queued", "held"}
              /\ \A d \in Contexts \ {c} : obj[d].env = e => obj[d].passed

\* The "BUG: no qspawn.wcb" of yield_pass is never reached: while the header
\* of a response is being read its callback is in the env, the reaping of the
\* child and the end of chained-from commands notwithstanding.
HeaderHasWcb ==
    \A c \in Contexts : obj[c].istream /\ ~obj[c].qfh => obj[c].env \in wcb

\* A slot covers the whole life of the child: there are never more unreaped
\* children than slots, even after the client has been answered.
ChildrenBounded ==
    Cardinality({c \in Contexts : obj[c].child \in {"live", "zombie"}}) <= Max

\* Every client that came is answered in the end: no order of reaping, EOF and
\* hand-over leaves an object that nothing will finalize.
EveryClientAnswered ==
    \A e \in Contexts : e \in wcb ~> e \notin wcb
=============================================================================
