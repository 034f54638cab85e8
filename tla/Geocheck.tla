------------------------------ MODULE Geocheck ------------------------------
(* The geocheck request (internal/geocheck/service.go): one run of a helper  *)
(* program at a time, with a deadline of its own, and its output collected   *)
(* by internal/executil/run.go, which keeps a bounded part and drains the    *)
(* rest.  The helper's report comes in two chunks, "r1" and "r2"; anything   *)
(* else it writes is another value, an image-less report, or no JSON at all. *)
EXTENDS Naturals, Sequences

CONSTANTS
    GcCallers,      \* concurrent requests
    GcOutputs,      \* [out, err] : what a helper writes
    GcLimit         \* maxOutput, in chunks

ASSUME GcAssumption == \A write \in GcOutputs : write \in [out : Seq(STRING), err : Seq(STRING)]

VARIABLES
    gcBusy,         \* Service.running
    gcCall,         \* caller -> its run
    gcChild         \* helpers alive: caller -> BOOLEAN

gcVars == <<gcBusy, gcCall, gcChild>>

GcIdle == [at |-> "idle", write |-> [out |-> <<>>, err |-> <<>>], out |-> <<>>, err |-> <<>>,
           cutOut |-> FALSE, cutErr |-> FALSE, over |-> FALSE, answer |-> "none"]

GcInit ==
    /\ gcBusy = FALSE
    /\ gcCall = [c \in GcCallers |-> GcIdle]
    /\ gcChild = [c \in GcCallers |-> FALSE]

GcAnswer(c, answer) == gcCall' = [gcCall EXCEPT ![c].at = "done", ![c].answer = answer]

\* Get up to the helper's start: an address that does not parse, and a run in
\* progress, are answered at once.
GcInvalid(c) == gcCall[c].at = "idle" /\ GcAnswer(c, "failed") /\ UNCHANGED <<gcBusy, gcChild>>
GcRefused(c) == gcCall[c].at = "idle" /\ gcBusy /\ GcAnswer(c, "failed") /\ UNCHANGED <<gcBusy, gcChild>>

GcRun(c) ==
    /\ gcCall[c].at = "idle" /\ ~gcBusy
    /\ gcBusy' = TRUE
    /\ \E write \in GcOutputs :
          \/ /\ gcCall' = [gcCall EXCEPT ![c].at = "running", ![c].write = write]
             /\ gcChild' = [gcChild EXCEPT ![c] = TRUE]
          \/ /\ gcCall' = [gcCall EXCEPT ![c].at = "ended", ![c].over = TRUE]      \* the helper did not start
             /\ UNCHANGED gcChild

\* boundedBuffer.Write: what fits is kept, and all of it is consumed.
GcKept(data, chunk) == IF Len(data) < GcLimit THEN Append(data, chunk) ELSE data

GcWrite(c) ==
    /\ gcChild[c]
    /\ \/ /\ gcCall[c].write.out # <<>>
          /\ gcCall' = [gcCall EXCEPT ![c].write.out = Tail(@),
                                      ![c].out = GcKept(@, Head(gcCall[c].write.out)),
                                      ![c].cutOut = @ \/ Len(gcCall[c].out) = GcLimit]
       \/ /\ gcCall[c].write.err # <<>>
          /\ gcCall' = [gcCall EXCEPT ![c].write.err = Tail(@),
                                      ![c].err = GcKept(@, Head(gcCall[c].write.err)),
                                      ![c].cutErr = @ \/ Len(gcCall[c].err) = GcLimit]
    /\ UNCHANGED <<gcBusy, gcChild>>

\* The helper exits, with an error or not, or the deadline or the request's end
\* kills it (exec.CommandContext); cmd.Run returns once it has been waited for.
GcExit(c) ==
    /\ gcChild[c]
    /\ gcChild' = [gcChild EXCEPT ![c] = FALSE]
    /\ \/ gcCall[c].write.out = <<>> /\ gcCall[c].write.err = <<>> /\ gcCall' = [gcCall EXCEPT ![c].at = "ended"]
       \/ gcCall' = [gcCall EXCEPT ![c].at = "ended", ![c].over = TRUE]
    /\ UNCHANGED gcBusy

\* validateReport: one JSON value, with an image, and nothing behind it.
GcValid(out) == out = <<"r1", "r2">>

\* commandRunner.Run and the rest of Get.
GcJudge(call) == ~(call.cutOut \/ call.cutErr) /\ ~call.over /\ GcValid(call.out)

\* Mutant: the next run may begin while the helper is still being waited for.
GcReleasable(c) == gcCall[c].at \in {"running", "ended"}
GcReturnable(c) == gcCall[c].at = "ended"

GcReturn(c) ==
    /\ GcReturnable(c)
    /\ gcBusy' = FALSE
    /\ GcAnswer(c, IF gcCall[c].at = "ended" /\ GcJudge(gcCall[c]) THEN "report" ELSE "failed")
    /\ UNCHANGED gcChild

\* A caller that has its answer may ask again.
GcAgain(c) ==
    /\ gcCall[c].at = "done"
    /\ gcCall' = [gcCall EXCEPT ![c] = GcIdle]
    /\ UNCHANGED <<gcBusy, gcChild>>

GcNext == \E c \in GcCallers :
    GcInvalid(c) \/ GcRefused(c) \/ GcRun(c) \/ GcWrite(c) \/ GcExit(c) \/ GcReturn(c) \/ GcAgain(c)

GcSpec == GcInit /\ [][GcNext]_gcVars

----------------------------------------------------------------------------

\* Never two helpers at once: a run that was cut off by its deadline or by its
\* client holds its place until its helper is gone.
GcOneHelper == \A c, d \in GcCallers : gcChild[c] /\ gcChild[d] => c = d

\* A report that is forwarded is all that the helper wrote: one whole report,
\* with nothing cut away behind it.
GcReportIsWhole ==
    \A c \in GcCallers : gcCall[c].answer = "report" =>
        /\ gcCall[c].out = <<"r1", "r2">> /\ gcCall[c].write = [out |-> <<>>, err |-> <<>>]
        /\ ~gcCall[c].cutOut /\ ~gcCall[c].cutErr

\* What the helper's runner promises: one helper at a time, and whole reports.
GcPromise ==
    /\ GcOneHelper
    /\ GcReportIsWhole
----------------------------------------------------------------------------
(* The inductive invariant behind GcPromise *)

GcRecs ==
    [at : {"idle", "running", "ended", "done"}, write : [out : Seq(STRING), err : Seq(STRING)],
     out : Seq(STRING), err : Seq(STRING), cutOut : BOOLEAN, cutErr : BOOLEAN, over : BOOLEAN,
     answer : {"none", "failed", "report"}]
GcTypeOK == gcBusy \in BOOLEAN /\ gcCall \in [GcCallers -> GcRecs] /\ gcChild \in [GcCallers -> BOOLEAN]

\* A run, and the helper in it, has the service to itself until it returns.
GcRuns(c) == gcCall[c].at \in {"running", "ended"}
GcAlone ==
    /\ \A c \in GcCallers : (gcChild[c] => gcCall[c].at = "running") /\ (GcRuns(c) => gcBusy)
    /\ \A c, d \in GcCallers : GcRuns(c) /\ GcRuns(d) => c = d

\* A helper that ended by itself has written everything, and what is answered
\* was judged after that.
GcWhole(call) ==
    /\ call.at = "ended" /\ ~call.over => call.write = [out |-> <<>>, err |-> <<>>]
    /\ call.answer = "report" =>
        /\ call.at = "done" /\ call.out = <<"r1", "r2">> /\ call.write = [out |-> <<>>, err |-> <<>>]
        /\ ~call.cutOut /\ ~call.cutErr

GcInv == GcTypeOK /\ GcAlone /\ \A c \in GcCallers : GcWhole(gcCall[c])
=============================================================================
