--------------------------- MODULE MCPerformance ----------------------------
(* Small instances of Performance for TLC. *)
EXTENDS Performance

Measured(events, numberOfRuns, batches) ==
    [events |-> events, runs |-> numberOfRuns, batches |-> batches]

\* Valid options with one, two and three runs and an incomplete last batch,
\* the default batch sizes, and every kind of refused options.
MCOptionInputs ==
    {Measured(3, 2, <<2>>), Measured(3, 3, <<2>>), Measured(2, 1, <<>>),
     Measured(1, 1, <<2, 1>>), Measured(0, 1, <<1>>), Measured(1, 0, <<1>>),
     Measured(1, 1, <<0>>), Measured(1, 1, <<1, 1>>)}

MCDefaultBatchSizes == <<1, 2>>
=============================================================================
