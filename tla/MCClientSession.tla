--------------------------- MODULE MCClientSession ---------------------------
\* Up to three calling threads and one thread in wait(), named in the cfg files.
EXTENDS ClientSession

CONSTANTS c1, c2, c3, w1

\* A healthy transport; everything but the client's own writes goes wrong;
\* everything goes wrong.
AllFaults == {{}, FaultKinds \ {"writeFail"}, FaultKinds}
==============================================================================
