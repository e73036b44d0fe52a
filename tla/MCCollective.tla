---------------------------- MODULE MCCollective ----------------------------
EXTENDS Collective

call(op, peer, kind, ts, async) ==
  [op |-> op, peer |-> peer, kind |-> kind, tensors |-> ts, ring |-> FALSE, async |-> async]
send(q, kind, ts) == call("send", q, kind, ts, FALSE)
asend(q, kind, ts) == call("send", q, kind, ts, TRUE)
recv(q) == call("recv", q, "list", <<>>, FALSE)
arecv(q) == call("recv", q, "list", <<>>, TRUE)
sendt(q, t) == call("send_tensor", q, "list", <<t>>, FALSE)
recvt(q, t) == call("recv_tensor", q, "list", <<t>>, FALSE)
bcast(src, kind, ts) == call("broadcast", src, kind, ts, FALSE)
abcast(src, kind, ts) == call("broadcast", src, kind, ts, TRUE)
ring(src, ts) == [bcast(src, "list", ts) EXCEPT !.ring = TRUE]
scn(accels, current, model, calls) ==
  [n |-> Len(calls), accels |-> accels, current |-> current, model |-> model, calls |-> calls]
from(src, n, b, other) == [r \in 1..n |-> IF r = src THEN <<b>> ELSE <<other>>]

Sound == {
  \* Both ways at once between workers on one device: lists by IPC, objects.
  scn(<<{1}, {1}>>, <<1, 1>>, <<1, 1>>,
      << <<asend(2, "list", <<0, 1>>), recv(2), send(2, "dict", <<1>>)>>,
         <<asend(1, "object", <<>>), arecv(1), recv(1)>> >>),
  \* Workers apart, with a CCL, then of two models.
  scn(<<{1}, {2}>>, <<1, 2>>, <<1, 1>>,
      << <<asend(2, "dataclass", <<1, 0>>), recvt(2, 1)>>, <<arecv(1), sendt(1, 2)>> >>),
  scn(<<{1}, {2}>>, <<1, 2>>, <<1, 2>>,
      << <<asend(2, "list", <<1, 1>>), arecv(2)>>, <<asend(1, "list", <<2>>), recv(1)>> >>),
  \* One model, of a type without a CCL.
  scn(<<{1}, {2}>>, <<1, 2>>, <<3, 3>>,
      << <<asend(2, "list", <<1, 0>>), recvt(2, 1)>>, <<arecv(1), sendt(1, 2)>> >>),
  \* A receiver that may be on the sender's device, for one tensor it is.
  scn(<<{1, 2}, {1, 2}>>, <<1, 1>>, <<1, 1>>,
      << <<asend(2, "list", <<2, 1, 0>>), send(2, "object", <<>>)>>, <<arecv(1), recv(1)>> >>),
  scn(<<{1, 2}, {2}>>, <<1, 2>>, <<1, 1>>, << <<sendt(2, 1), sendt(2, 0)>>, <<recvt(1, 2), recvt(1, 0)>> >>),
  scn(<<{1}, {1}>>, <<1, 1>>, <<1, 1>>,
      << <<sendt(2, 1), recvt(2, 1)>>, <<recvt(1, 1), sendt(1, 1)>> >>),
  \* A broadcast, and sends on the pairs it uses, one after the other.
  scn(<<{2}, {1}, {1}>>, <<2, 1, 1>>, <<1, 1, 1>>,
      << <<bcast(1, "dict", <<2, 0>>), bcast(1, "list", <<0>>)>>,
         <<bcast(1, "list", <<>>), bcast(1, "list", <<>>), asend(3, "list", <<1>>)>>,
         <<bcast(1, "list", <<>>), bcast(1, "list", <<>>), recv(2)>> >>),
  \* Broadcast: one receiver with the source, two others with each other.
  scn(<<{1}, {1}, {2}, {2}>>, <<1, 1, 2, 2>>, <<1, 1, 1, 1>>,
      from(1, 4, bcast(1, "list", <<0, 1>>), bcast(1, "list", <<>>))),
  \* An uncertain receiver and one apart; a second broadcast from another source.
  scn(<<{1, 2}, {2}, {3}>>, <<1, 2, 3>>, <<1, 1, 1>>,
      << <<abcast(1, "list", <<1, 2>>), abcast(3, "object", <<>>)>>,
         <<abcast(1, "list", <<>>), abcast(3, "list", <<>>)>>,
         <<abcast(1, "list", <<>>), abcast(3, "object", <<>>)>> >>),
  \* Everybody on a device of its own; then CPU tensors only.
  scn(<<{1}, {2}, {3}>>, <<1, 2, 3>>, <<1, 1, 1>>,
      << <<bcast(1, "dataclass", <<1, 0>>), bcast(2, "list", <<>>)>>,
         <<bcast(1, "list", <<>>), bcast(2, "dict", <<0, 0>>)>>,
         <<bcast(1, "list", <<>>), bcast(2, "list", <<>>)>> >>),
  \* The ring over two models of accelerator.
  scn(<<{1}, {2}, {3}>>, <<1, 2, 3>>, <<1, 2, 2>>,
      << <<ring(1, <<1, 0>>)>>, <<ring(1, <<>>)>>, <<ring(1, <<>>)>> >>),
  scn(<<{1}, {2}, {3}, {4}>>, <<1, 2, 3, 4>>, <<2, 2, 1, 2>>,
      from(3, 4, ring(3, <<3, 3>>), ring(3, <<>>)))}

\* Both ways at once between workers that may be on one device.
BothWays == {
  scn(<<{1, 2}, {1, 2}>>, <<1, 1>>, <<1, 1>>,
      << <<asend(2, "list", <<1>>), recv(2)>>, <<asend(1, "list", <<1>>), recv(1)>> >>)}
\* One tensor, in place, to such a worker.
InPlace == {
  scn(<<{1, 2}, {1, 2}>>, <<1, 1>>, <<1, 1>>, << <<sendt(2, 1)>>, <<recvt(1, 1)>> >>)}
=============================================================================
