-------------------------- MODULE MCAppIdentification --------------------------
(* Streams on FTP's port, and between the ports of HTTP and MySQL; payloads   *)
(* that one check recognises, that several do, and that none does.            *)
EXTENDS AppIdentification

McPorts == {<<40000, 21>>, <<8080, 3306>>}

Text(word) == [word |-> word, marks |-> {}]
Binary(marks) == [word |-> "", marks |-> marks]

McPayloads ==
  {Text("220 "), Text("USER "), Text("GET "), Text("good morning"),
   [word |-> "*", marks |-> {"redis count"}],
   Binary({"tls handshake", "hello", "mqtt type"}), Binary({"mysql greeting"}), Binary({})}
=============================================================================
