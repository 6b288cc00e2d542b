------------------------------- MODULE MCWire -------------------------------
(* Wire on a few short messages: a request of one byte answered at once, requests
   of two and four bytes (the latter just fits, but not with BLE), a request that is
   too long, and noise that looks like a long message, like two items, or like
   nothing. *)
EXTENDS Wire

MCMessages == {"ping", "ask", "sign", "long", "noise", "junk", "item"}
MCNoise == {"noise", "junk", "item"}
MCImmediate == {"ping"}
MCCap == 4
MCSize == [m \in MCMessages |->
            CASE m = "ask" -> 2 [] m = "sign" -> 4 [] m = "long" -> 6
              [] m = "item" -> 2 [] OTHER -> 1]

MCItem == [b \in UNION {{<<m, i>> : i \in 1..MCSize[m]} : m \in MCMessages} |->
            CASE b[2] = 1 /\ b[1] \notin MCNoise -> MCSize[b[1]]
              [] b[1] = "noise" -> 5
              [] b[1] = "junk" -> 0
              [] b[1] = "item" -> 1
              [] b[1] = "sign" /\ b[2] = 2 -> 0
              [] b[1] = "long" /\ b[2] = 5 -> 2
              [] OTHER -> 1]
=============================================================================
