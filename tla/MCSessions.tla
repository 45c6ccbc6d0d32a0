------------------------------ MODULE MCSessions ------------------------------
(* What is built on one session: the codecs and their buffer; the futures  *)
(* of its reads, its counters, its streams and its handshake with a proxy; *)
(* the filters that look at its events, and the handlers in a chain.  They *)
(* share no state, so that a behaviour is one of the part it begins with.  *)
EXTENDS LineDecoding, HttpDecoding, ProxyResponse, EncodedWrites, IoBuffer,
        SessionReads, SessionCounters, SessionStream, ProxyHandshake,
        AddressFilter, HandlerChain, ProfilerTimer, ReadBufferSize,
        ProxyAuthentication, DirectiveParsing

VARIABLE part

Parts == {"line", "http", "response", "encoder", "buffer", "reads", "counters", "stream", "proxy",
          "address", "handler", "profiler", "size", "authentication", "directives"}

Init ==
  /\ part \in Parts
  /\ LineInit /\ HttpInit /\ ResponseInit /\ EncodedInit /\ BufferInit
  /\ ReadsInit /\ CountersInit /\ StreamInit /\ ProxyInit /\ ReadSizeInit
  /\ AuthenticationInit /\ DirectiveInit
  /\ AddressInit /\ HandlerInit /\ ProfilerInit
  /\ (part # "line" => fragments)
  /\ (part # "http" => side = "server")
  /\ buffer.limit \in (IF part = "buffer" THEN {0, 2} ELSE {0})
  /\ (part # "proxy" => protocol = "http")
  /\ (part # "authentication" => preferedOrder = <<>> /\ credentials)
  /\ (part = "address" => \A s \in FilterSessions : peer[s].address # 1)
  /\ (part # "address" => color = "black" /\ \A s \in FilterSessions : peer[s].address = 0)
  /\ (part # "profiler" => profiled = {})

Codecs == <<lineVars, httpVars, responseVars, encodedVars, bufferVars>>
OfSession == <<readVars, counterVars, streamVars, proxyVars, readSizeVars, authenticationVars, directiveVars>>
InChain == <<addressVars, handlerVars, profilerVars>>

(* A mark at 2 or a least capacity of 1 or 3 tells nothing new.            *)
FewBuffers == buffer'.mark <= 1 /\ buffer'.minimumCapacity \in {0, 2}

(* The second message holds one unit at most, and writers are alike.       *)
FewMessages ==
  /\ Len(message') = 2 => message'[2].size <= 1
  /\ message = <<>> => counted'[CHOOSE w \in Writers : TRUE] = Len(message')

(* A list that is set has no address twice.                                *)
FewLists == Len(setting') = 2 => setting'[1].address # setting'[2].address

(* The second directive is written without spaces, and ends with a comma. *)
ShortSecond ==
  listed # <<>> => text'[Len(text) + 2] = "=" /\ Last(text') = "," /\ text'[Len(text') - 1] # "space"

Next ==
  /\ UNCHANGED part
  /\ \/ part = "line" /\ LineNext /\ UNCHANGED <<httpVars, responseVars, encodedVars, bufferVars, OfSession, InChain>>
     \/ part = "http" /\ HttpNext /\ UNCHANGED <<lineVars, responseVars, encodedVars, bufferVars, OfSession, InChain>>
     \/ part = "response" /\ ResponseNext /\ UNCHANGED <<lineVars, httpVars, encodedVars, bufferVars, OfSession, InChain>>
     \/ part = "encoder" /\ EncodedNext /\ UNCHANGED <<lineVars, httpVars, responseVars, bufferVars, OfSession, InChain>>
     \/ part = "buffer" /\ BufferNext /\ FewBuffers /\ UNCHANGED <<lineVars, httpVars, responseVars, encodedVars, OfSession, InChain>>
     \/ part = "reads" /\ ReadsNext /\ UNCHANGED <<counterVars, streamVars, proxyVars, readSizeVars, authenticationVars, directiveVars, Codecs, InChain>>
     \/ part = "counters" /\ CountersNext /\ FewMessages /\ UNCHANGED <<readVars, streamVars, proxyVars, readSizeVars, authenticationVars, directiveVars, Codecs, InChain>>
     \/ part = "stream" /\ StreamNext /\ UNCHANGED <<readVars, counterVars, proxyVars, readSizeVars, authenticationVars, directiveVars, Codecs, InChain>>
     \/ part = "proxy" /\ ProxyNext /\ UNCHANGED <<readVars, counterVars, streamVars, readSizeVars, authenticationVars, directiveVars, Codecs, InChain>>
     \/ part = "size" /\ ReadSizeNext /\ UNCHANGED <<readVars, counterVars, streamVars, proxyVars, authenticationVars, directiveVars, Codecs, InChain>>
     \/ part = "authentication" /\ AuthenticationNext
        /\ UNCHANGED <<readVars, counterVars, streamVars, proxyVars, readSizeVars, directiveVars, Codecs, InChain>>
     \/ part = "directives" /\ DirectiveNext /\ ShortSecond
        /\ UNCHANGED <<readVars, counterVars, streamVars, proxyVars, readSizeVars, authenticationVars, Codecs, InChain>>
     \/ part = "address" /\ AddressNext /\ FewLists /\ UNCHANGED <<handlerVars, profilerVars, Codecs, OfSession>>
     \/ part = "handler" /\ HandlerNext /\ UNCHANGED <<addressVars, profilerVars, Codecs, OfSession>>
     \/ part = "profiler" /\ ProfilerNext /\ UNCHANGED <<addressVars, handlerVars, Codecs, OfSession>>

vars == <<part, Codecs, OfSession, InChain>>
Spec == Init /\ [][Next]_vars

(* However the bytes are cut into reads, the decoders deliver the messages *)
(* that were sent, and each once; and encoded parts go out in their order. *)
CodecsSound == LinesDecoded /\ MessagesDecoded /\ ResponsesRead /\ EncodedInOrder

(* The futures of the reads and the counters of a session are truthful,    *)
(* its streams lose nothing and wait for nobody in vain, and the buffer it *)
(* reads into keeps within reason.                                         *)
SessionSound == ReadsInOrder /\ CountersTruthful /\ StreamSound /\ ReadBufferSound

(* Nothing passes a handshake with a proxy, and credentials only when they *)
(* are demanded, as the demand was meant.                                  *)
ProxySound == HandshakeSound /\ AuthenticationSound /\ DirectivesParsed

(* The filters that look at every event let the right ones through and     *)
(* measure them rightly, and chained handlers are all called, while the    *)
(* user changes what they go by.                                           *)
FiltersSound == AddressesChecked /\ HandlersCalled /\ ProfilesTruthful
===============================================================================
