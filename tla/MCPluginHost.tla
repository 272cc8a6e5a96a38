---------------------------- MODULE MCPluginHost ----------------------------
(* Three libraries with the masks and the relative appetite for watches of   *)
(* hello, jni-natives and crypto-openssl.  MaxWatches is exactly what they    *)
(* ask for together, as 64 is exactly 8 plugins with 8 watches each.          *)
EXTENDS PluginHost

CONSTANTS hello, jni, openssl

MCLib == {hello, jni, openssl}
MCMask == [l \in MCLib |-> IF l = hello THEN {"module", "symbol", "callsite"}
                           ELSE {"symbol", "callsite"}]
MCWatches == [l \in MCLib |-> IF l = hello THEN 0
                              ELSE IF l = jni THEN 1 ELSE 2]
MCEmitsNote == {hello}
====
