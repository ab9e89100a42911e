------------------------- MODULE MCInboundPipeline --------------------------
(* Small instances of the inbound pipeline. *)
EXTENDS InboundPipeline

Setting(setup, teardown, assembler, fragmentation) ==
    [setup |-> setup, teardown |-> teardown, assembler |-> assembler,
     fragmentation |-> fragmentation]

MCConfigs ==
    {Setting(TRUE, TRUE, TRUE, TRUE), Setting(TRUE, FALSE, FALSE, TRUE),
     Setting(FALSE, TRUE, FALSE, FALSE)}

MCRoutings == {[id |-> 1, corr |-> 1], [id |-> 1, corr |-> NoCorrelation]}
MCTotals == {NoTotal, 0, 2}
=============================================================================
