---- MODULE MCXHTTPUpload ----
EXTENDS XHTTPUpload

MCSize == [b \in 1..MaxWrites |-> IF b = 2 THEN 1 ELSE 2]
====
