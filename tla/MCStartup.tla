----------------------------- MODULE MCStartup ------------------------------
(* Small instances of Startup for TLC. *)
EXTENDS Startup

CONSTANTS api, worker, other

Config(name) == [exchange |-> name, queue |-> name, key |-> name]

\* The third process has a queue of its own on the exchange of the others.
MCConfigOf ==
    [p \in Processes |->
       IF p = other THEN [Config(<<"app.events">>) EXCEPT !.queue = <<"other">>]
                    ELSE Config(<<"app.events">>)]

MCOldQueues == {Config(<<"app.events">>)}
=============================================================================
