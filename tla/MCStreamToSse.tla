----------------------------- MODULE MCStreamToSse -----------------------------
(* A small instance of StreamToSse: two tool calls, and chunks that carry one *)
(* thing each, several at once, or two tool deltas out of order.              *)
EXTENDS AnswerTranslator

Text(r, c, n) == [reasoning |-> r, content |-> c, note |-> n, tools |-> <<>>]
Delta(i, named, args, parses) == [index |-> i, named |-> named, args |-> args, parses |-> parses]
Tools(q) == [reasoning |-> FALSE, content |-> FALSE, note |-> FALSE, tools |-> q]

MCToolIndices == {0, 1}

MCChunks ==
  { Text(TRUE, FALSE, FALSE), Text(FALSE, TRUE, FALSE), Text(TRUE, TRUE, TRUE),
    Text(FALSE, FALSE, TRUE),
    Tools(<<Delta(0, TRUE, FALSE, TRUE)>>),
    Tools(<<Delta(0, FALSE, TRUE, FALSE)>>),
    Tools(<<Delta(1, TRUE, TRUE, TRUE), Delta(0, FALSE, TRUE, TRUE)>>),
    [reasoning |-> FALSE, content |-> TRUE, note |-> FALSE, tools |-> <<Delta(1, TRUE, TRUE, FALSE)>>] }
================================================================================
