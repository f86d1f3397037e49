------------------------------ MODULE MCSocks ------------------------------
(* Bound addresses of every kind, a domain name being empty, short or as long
   as its length byte allows. *)
EXTENDS Socks

MCDomainLengths == {0, 1, 4, 255}
=============================================================================
