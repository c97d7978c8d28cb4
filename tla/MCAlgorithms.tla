----------------------------- MODULE MCAlgorithms -----------------------------
(***************************************************************************)
(* The pure functions of the repository over bounded inputs.  Decimals are *)
(* reached by sequences of operations, byte strings grow byte by byte; the *)
(* two do not interact, so one of them stays as it was in the first state. *)
(***************************************************************************)
EXTENDS Decimal, Wallet

MCOperands == {New(0, -1), New(3, 0), New(-5, -1), New(25, -2), New(-2, 1), New(7, -2), New(30, -1)}
MCPlaces == {-1, 0, 1, 2}

MCBytes == {0, 1, 58, 63, 64, 127, 128, 192, 255}
MCCoefficients == {0, 5}
MCPoints == {1, 200, 255}
\* Stand for hash functions: their results depend on every byte.
MCHash(data) == (FoldLeft(+, 0, data) * 37 + 11 * data[Len(data)]) % 256
MCHmac(chain, data) ==
  LET h == FoldLeft(LAMBDA n, d : (7 * n + d + 3) % 256, chain, data) IN <<h % 16, h>>
MCKeyChecksum(data) == FoldLeft(LAMBDA n, d : (5 * n + d) % 251, 0, data)

\* A curve of 30 points and infinity with an endomorphism, as secp256k1 has, and a field
\* of four limbs with the room that ten limbs have there.
Fields == INSTANCE FieldVal WITH Words <- 4, Base <- 6, TopBits <- 3, WordBits <- 11, C0 <- 5, C1 <- 1,
            MaxMagnitude <- 4, Edges <- {1, 4, 31}
Curve256 == INSTANCE S256 WITH P <- 43, N <- 31, Gx <- 2, Gy <- 12, beta <- 6, a1 <- 5, b1 <- -1, a2 <- 6, b2 <- 5,
              ByteBits <- 4, ByteSize <- 2
\* Which multiple of the base point a point is; what is not on the
\* curve counts as infinity.
MCLog == [a \in (0 .. 42) \X (0 .. 42) |->
            IF \E n \in 0 .. 30 : Curve256!BaseMultiples[n] = a THEN CHOOSE n \in 0 .. 30 : Curve256!BaseMultiples[n] = a ELSE 0]
MCAdd256(a, b) == Curve256!BaseMultiples[(MCLog[a] + MCLog[b]) % 31]
MCScalarMult256(a, k) == Curve256!BaseMultiples[(MCLog[a] * Curve256!FromBytes(k)) % 31]
MCScalarBaseMult256(k) == Curve256!BaseMultiples[Curve256!FromBytes(k) % 31]
MCMac(k, m) ==
  LET h == FoldLeft(LAMBDA n, d : (7 * n + d + 3) % 251, FoldLeft(LAMBDA n, d : 16 * n + d, 0, k), m)
  IN <<h \div 16, h % 16>>
MCAddSHA256(a, b) == (7 * a + 3 * b + 1) % 101
Signatures == INSTANCE ECDSA WITH P <- 43, N <- 31, ByteBits <- 4, ByteSize <- 2, Mac <- MCMac,
                Add256 <- MCAdd256, ScalarMult256 <- MCScalarMult256, ScalarBaseMult256 <- MCScalarBaseMult256,
                HashLength <- 2, AddSHA256 <- MCAddSHA256, Leaves <- {1, 2}, MaxLeaves <- 5

\* A module with every section and every kind of import.
MCBinary ==
  [sections |->
     (1 :> <<<<-32, <<-1, -2>>, <<-1>>>>, <<-32, <<>>, <<>>>>>>) @@
     (2 :> <<<<<<5>>, <<6, 7>>, 0, 1>>, <<<<>>, <<9>>, 1, <<-16, <<1, 2, 3>>>>>>,
             <<<<5>>, <<8>>, 2, <<0, 1, 0>>>>, <<<<5>>, <<8>>, 3, <<-3, TRUE>>>>>>) @@
     (3 :> <<0, 1>>) @@ (4 :> <<<<-16, <<0, 4, 0>>>>>>) @@ (5 :> <<<<1, 1, 2>>>>) @@
     (6 :> <<<<<<-1, FALSE>>, <<65, 9, 11>>>>, <<<<-4, TRUE>>, <<68, 1, 2, 3, 11, 5, 6, 7, 8, 35, 0, 11>>>>>>) @@
     (7 :> {<<<<1>>, 0, 1>>, <<<<2>>, 3, 1>>, <<<<>>, 2, 0>>}) @@ (8 :> 1) @@
     (9 :> <<<<0, <<65, 0, 11>>, <<1, 0>>>>>>) @@
     (10 :> <<<<<<<<2, -1>>>>, <<1, 11>>>>, <<<<>>, <<>>>>>>) @@
     (11 :> <<<<0, <<66, 3, 11>>, <<7, 7>>>>>>),
   Other |-> <<<<1, 65>>, <<>>>>]
MCFew == [sections |-> [id \in {3, 7, 8} |-> MCBinary.sections[id]], Other |-> <<>>]
Binary == INSTANCE WasmSections WITH Modules <- {MCBinary, MCFew}, Tokens <- {0, 1, 2, 3, 5, 7, 10, 11}, MaxTokens <- 5

\* Stands for a permutation of the 25 lanes.
MCPermutation(a) ==
  [p \in 1 .. 25 |-> LET q == a[((p * 7) % 25) + 1] r == {(b + 1) % 64 : b \in a[p]} IN (q \ r) \cup (r \ q) \cup {p}] \o <<>>
\* A cipher of three bytes of three bits, its inverse, and a hash.
MCCipher(k, b) == <<(b[2] + k[1]) % 8, (b[3] + 3 * b[2] + k[2]) % 8, (b[1] + k[4] + k[3]) % 8>>
MCDecipher(k, b) ==
  LET y == (b[1] + 8 - k[1]) % 8 IN <<(b[3] + 16 - k[4] - k[3]) % 8, y, (b[2] + 32 - 3 * y - k[2]) % 8>>
MCKeccak256(t) == <<Len(t) % 8, IF t = <<>> THEN 0 ELSE (t[1] + 2 * t[Len(t)]) % 8>>
Hashed == INSTANCE Hashes WITH Permutation <- MCPermutation,
            States <- {[p \in 1 .. 25 |-> {}], [p \in 1 .. 25 |-> {b \in 0 .. 63 : (b * b + p) % 7 < 3}]},
            Kinds <- {<<72, {1}, 64>>, <<136, {0}, 32>>, <<168, {0, 1, 2, 3, 4}, 0>>},
            Writes <- {<<>>, <<71>>, <<72>>, <<1, 143>>, <<72, 96, 3>>}, Reads <- {<<7>>, <<168, 1>>},
            Cuts <- {<<55>>, <<1, 55>>, <<63, 1>>, <<20, 101>>},
            BlockSize <- 3, KeySize <- 4, HashSize <- 2, ByteBits <- 3,
            Cipher <- MCCipher, Decipher <- MCDecipher, Keccak256 <- MCKeccak256,
            Keys <- {<<>>, <<1>>, <<1, 0>>, <<1, 2, 3, 4>>, <<1, 2, 3, 4, 5>>, <<7, 7, 1, 2>>},
            Texts <- {<<>>, <<1>>, <<2, 2>>, <<3, 1, 7>>, <<1, 1, 1, 1>>, <<7, 0, 0, 0, 3>>, <<3, 3, 3, 3, 3, 3, 3>>}
\* Slots of eight bits: small numbers, the edges of both widths and of the floats, and halves.
Numeric == INSTANCE WagonNum WITH Half <- 4,
             Slots <- {0, 1, 2, 3, 5, 6, 7, 8, 9, 14, 15, 16, 31, 126, 127, 128, 129, 130, 240, 247, 254, 255}

\* Floats of three and four bits, of which one format has no fractions, and numbers of which
\* only three digits are kept.
MCValues == {1, 2, 3, 5, 7, 9, 10, 15, 25, 99, 100, 125, 128, 375, 501, 512, 625, 875, 999}
Floats == INSTANCE ShortDecimal WITH Room <- 12, MaxShift <- 4,
            Formats <- {[mantbits |-> 3, expbits |-> 3, bias |-> -4], [mantbits |-> 4, expbits |-> 3, bias |-> 4]},
            Values <- MCValues \cup {1000, 2500, 9999}, Shifts <- -6 .. 9, Exponents <- -7 .. 1
Dropping == INSTANCE ShortDecimal WITH Room <- 3, MaxShift <- 5, Formats <- {}, Values <- MCValues, Shifts <- -6 .. 9,
              Exponents <- {}

\* A leaf, authorities that sign each other, one with limits, one out of time, and roots.
MCCert == [raw |-> "leaf", subject |-> "l", issuer |-> "a", key |-> 9, signer |-> 1, skid |-> <<>>, akid |-> <<>>,
           v3 |-> TRUE, basic |-> FALSE, ca |-> FALSE, certSign |-> TRUE, known |-> TRUE, notBefore |-> 0, notAfter |-> 9,
           permitted |-> <<>>, pathLen |-> -1, eku |-> <<>>, unknownEku |-> FALSE, unhandled |-> FALSE, parsed |-> TRUE,
           dns |-> <<>>, ips |-> <<>>, commonName |-> <<"a">>]
MCCA(raw, subject, key, issuer, signer) ==
  [MCCert EXCEPT !.raw = raw, !.subject = subject, !.key = key, !.issuer = issuer, !.signer = signer, !.basic = TRUE, !.ca = TRUE]
MCInter == {MCCA("ar", "a", 1, "r", 0), MCCA("ab", "a", 1, "b", 2), MCCA("ba", "b", 2, "a", 1),
            [MCCA("br", "b", 2, "r", 0) EXCEPT !.pathLen = 0, !.eku = <<2>>], [MCCA("an", "a", 1, "r", 0) EXCEPT !.ca = FALSE, !.basic = FALSE, !.v3 = FALSE], MCCA("as", "a", 1, "a", 1),
            [MCCA("cr", "c", 2, "r", 0) EXCEPT !.skid = <<8>>],
            [MCCA("bo", "b", 2, "r", 0) EXCEPT !.notAfter = 3, !.permitted = <<<<".", "a">>, <<"a">>>>, !.skid = <<7>>],
            [MCCA("ak", "a", 1, "b", 2) EXCEPT !.akid = <<7>>]}
MCRoots == {<<MCCA("r", "r", 0, "r", 0)>>, <<[MCCA("q", "r", 5, "r", 5) EXCEPT !.skid = <<7>>], [MCCA("r", "r", 0, "r", 0) EXCEPT !.pathLen = 1]>>,
            <<MCCA("as", "a", 1, "a", 1)>>, <<MCCert>>}
MCWorlds == {[leaf |-> l, opts |-> [inter |-> i, roots |-> <<r>>, host |-> [name |-> <<"a">>, ip |-> <<>>], now |-> t, usages |-> u]] :
   l \in {MCCert, [MCCert EXCEPT !.issuer = "b", !.signer = 2, !.eku = <<11, 2>>], [MCCert EXCEPT !.issuer = "b", !.signer = 2, !.akid = <<8>>]}, 
   i \in {s \in UNION {[1 .. n -> MCInter] : n \in 0 .. 3} : IsInjective(s)}, r \in MCRoots,
   t \in {3}, u \in {<<1>>, <<0>>}}
MCBlock(c) == [type |-> "CERTIFICATE", headers |-> FALSE, cert |-> c]
MCBlocks == {<<>>, <<MCBlock(<<MCCert>>), [MCBlock(<<MCCert>>) EXCEPT !.type = "KEY"], MCBlock(<<>>), MCBlock(<<MCCert>>), MCBlock(<<MCCA("r", "r", 0, "r", 0)>>)>>,
             <<[MCBlock(<<MCCert>>) EXCEPT !.headers = TRUE], MCBlock(<<MCCA("r", "r", 0, "r", 0)>>), MCBlock(<<MCCert>>), [MCBlock(<<>>) EXCEPT !.type = "none"], MCBlock(<<MCCA("q", "q", 0, "r", 0)>>)>>}
MCFile == {[err |-> "notExist"], [err |-> "denied"]} \cup {[err |-> "no", blocks |-> b] : b \in MCBlocks}
MCDir == {[err |-> "notExist"], [err |-> "io"]} \cup {[err |-> "no", entries |-> e] : e \in {<<>>} \cup {<<b, d>> : b, d \in MCBlocks}}
MCSources == {[files |-> f, directories |-> d] : f \in {<<g, h>> : g, h \in MCFile}, d \in {<<g, h>> : g, h \in MCDir}}
MCChains == UNION {[1 .. n -> {[eku |-> e, unknownEku |-> b] : e \in {<<>>, <<0>>, <<1>>, <<10>>, <<2, 1>>}, b \in BOOLEAN}] : n \in 1 .. 3}
MCLists == {<<1>>, <<2>>, <<1, 2>>, <<2, 2>>, <<3, 1>>, <<10, 2>>}
MCNames == UNION {[1 .. n -> {"a", "B", ".", "*"}] : n \in 0 .. 4}
MCNames2 == {n \in MCNames : Len(n) < 4 \/ n[2] = "."}
MCConstraints == {c \in MCNames : Len(c) < 3}
Chained == INSTANCE CertChains WITH Worlds <- MCWorlds, Chains <- MCChains, KeyUsageLists <- MCLists, Names <- MCNames2,
             Constraints <- MCConstraints, Sources <- MCSources
\* Keys of every kind, templates, and extensions as other programs write them.
MCKey(type, curve, n, e) == [type |-> type, curve |-> curve, n |-> n, e |-> e]
MCKeys == {MCKey("rsa", "none", 15, 3), MCKey("ecdsa", "P224", 4, 0), MCKey("ecdsa", "P256", 5, 0), MCKey("ecdsa", "P384", 6, 0), MCKey("ecdsa", "P521", 7, 0), MCKey("sm2", "P256SM2", 8, 0)}
MCPkix == <<1, 3, 6, 1, 5, 5, 7>>
MCDer(kind, v) == <<[kind |-> kind, val |-> v]>>
MCExt(id, critical, value) == [id |-> id, critical |-> critical, value |-> value]
MCIp(l, m) == [len |-> l, addr |-> 1, mapped |-> m]
MCForeignOne == {
  MCExt(<<2, 5, 29, 15>>, TRUE, MCDer("bits", [bytes |-> <<6, 128>>, len |-> 9])), MCExt(<<2, 5, 29, 15>>, TRUE, MCDer("bits", [bytes |-> <<130>>, len |-> 7])),
  MCExt(<<2, 5, 29, 19>>, TRUE, MCDer("basic", [ca |-> TRUE, max |-> 0])), MCExt(<<2, 5, 29, 19>>, TRUE, MCDer("basic", [ca |-> TRUE, max |-> 0]) \o MCDer("bytes", 0)),
  MCExt(<<2, 5, 29, 17>>, TRUE, MCDer("sequence", <<<<6, "u">>>>)), MCExt(<<2, 5, 29, 17>>, TRUE, MCDer("sequence", <<<<2, "a">>, <<6, "u">>, <<7, MCIp(16, TRUE)>>>>)),
  MCExt(<<2, 5, 29, 17>>, FALSE, MCDer("sequence", <<<<7, MCIp(5, FALSE)>>>>)), MCExt(<<2, 5, 29, 17>>, FALSE, MCDer("bytes", <<>>)),
  MCExt(<<2, 5, 29, 30>>, TRUE, MCDer("constraints", [permitted |-> <<"a", "b">>, excluded |-> <<>>])), MCExt(<<2, 5, 29, 30>>, TRUE, MCDer("constraints", [permitted |-> <<"c", "">>, excluded |-> <<>>])),
  MCExt(<<2, 5, 29, 30>>, TRUE, MCDer("constraints", [permitted |-> <<"c">>, excluded |-> <<"d">>])), MCExt(<<2, 5, 29, 30>>, FALSE, MCDer("constraints", [permitted |-> <<"c", "">>, excluded |-> <<"d">>])),
  MCExt(<<2, 5, 29, 31>>, TRUE, MCDer("points", <<<<>>, <<<<4, "x">>, <<6, "y">>>>, <<<<6, "z">>>>>>)), MCExt(<<2, 5, 29, 37>>, TRUE, MCDer("oids", <<MCPkix \o <<3, 9>>, <<1, 2>>>>)),
  MCExt(<<2, 5, 29, 54>>, TRUE, MCDer("bytes", <<>>)), MCExt(<<2, 5, 29, 54>>, FALSE, MCDer("bytes", <<>>)), MCExt(<<1, 2, 3>>, TRUE, MCDer("bytes", <<>>)),
  MCExt(MCPkix \o <<1, 1>>, TRUE, MCDer("access", <<[method |-> MCPkix \o <<48, 1>>, tag |-> 6, name |-> "o"], [method |-> MCPkix \o <<48, 2>>, tag |-> 5, name |-> "i"]>>))}
MCForeign == {<<>>} \cup {<<e>> : e \in MCForeignOne} \cup {<<e, f>> : e, f \in MCForeignOne}
MCTemplates == {[KeyUsage |-> u] : u \in {2 ^ i + 2 ^ j : i, j \in 0 .. 8} \cup {0, 1, 4, 64, 511, 513}} \cup
  {[BasicConstraintsValid |-> v, IsCA |-> c, MaxPathLen |-> m, MaxPathLenZero |-> z] : v, c, z \in BOOLEAN, m \in -1 .. 1} \cup
  {[ExtKeyUsage |-> e, UnknownExtKeyUsage |-> u, PermittedDNSDomains |-> d, PermittedDNSDomainsCritical |-> c] :
     e \in {<<>>, <<0, 1, 2, 3, 4, 5, 6, 7, 8, 9, 10, 11>>}, u \in {<<>>, <<<<1, 2>>, MCPkix \o <<3, 9>>>>}, d \in {<<>>, <<"a">>, <<"", "b">>}, c \in BOOLEAN} \cup
  {[SubjectKeyID |-> s, AuthorityKeyID |-> s, OCSPServer |-> o, IssuingCertificateURL |-> i, DNSNames |-> n, EmailAddresses |-> o,
   IPAddresses |-> p, CRLDistributionPoints |-> n, PolicyIdentifiers |-> u] :
     s \in {<<>>, <<1, 2>>}, o \in {<<>>, <<"o", "p">>}, i \in {<<>>, <<"i">>}, n \in {<<>>, <<"n", "m">>}, p \in {<<>>, <<MCIp(4, FALSE), MCIp(16, TRUE), MCIp(16, FALSE)>>, <<MCIp(7, FALSE)>>},
     u \in {<<>>, <<<<1>>>>}}
MCExtensionRequest == <<1, 2, 840, 113549, 1, 9, 14>>
MCValue(n) == [id |-> <<2, 5, 29, n>>, value |-> MCDer("sequence", <<<<2, "mine">>>>)]
MCAttributes == {[type |-> <<1>>, Value |-> <<<<MCValue(17)>>>>], [type |-> MCExtensionRequest, Value |-> <<>>], [type |-> MCExtensionRequest, Value |-> <<<<>>, <<MCValue(17)>>>>],
   [type |-> MCExtensionRequest, Value |-> <<<<MCValue(54)>>>>], [type |-> MCExtensionRequest, Value |-> <<<<MCValue(54), MCValue(17)>>, <<>>>>]}
MCRequests == {[SignatureAlgorithm |-> "none", RawSubject |-> "", Subject |-> "me", Attributes |-> a, ExtraExtensions |-> e, DNSNames |-> n, EmailAddresses |-> <<>>, IPAddresses |-> <<>>] :
   a \in {<<>>} \cup {<<b>> : b \in MCAttributes} \cup {<<b, c>> : b, c \in MCAttributes},
   e \in {<<>>, <<MCExt(<<2, 5, 29, 17>>, TRUE, MCDer("sequence", <<<<2, "extra">>>>))>>, <<MCExt(<<2, 5, 29, 54>>, TRUE, MCDer("sequence", <<<<2, "extra">>>>)), MCExt(<<1, 2>>, FALSE, MCDer("bytes", <<>>))>>},
   n \in {<<>>, <<"n", "m">>}}
Certified == INSTANCE Certificates WITH Templates <- MCTemplates, Foreign <- MCForeign, Keys <- MCKeys, Requests <- MCRequests

\* A curve of 42 points and infinity, numbers of two bytes of four bits, and a hash.
MCSM3(data) == LET n == FoldLeft(LAMBDA m, d : (7 * m + d + 3) % 251, 5, data) IN <<n \div 16, n % 16>>
Chinese == INSTANCE SM2 WITH ByteBits <- 4, P <- 47, N <- 43, B <- 22, Gx <- 2, Gy <- 20, KeyBytes <- 2,
             Stride <- 2, Teeth <- 2, Window <- 4, sm3 <- MCSM3, defaultUID <- <<1, 2>>, MaxUid <- 64,
             Hashes <- {<<3, 1>>, <<15, 9>>}, Texts <- {<<>>, <<5>>, <<0, 15, 7>>},
             Uids <- {<<>>, <<1, 2>>, <<1>>, <<2, 0>>, [i \in 1 .. 63 |-> 7], [i \in 1 .. 64 |-> 7]}

AInit == Init /\ NoInput
ANext ==
  \/ input = <<>> /\ Next /\ UNCHANGED input
  \/ acc = New(0, -1) /\ Extend /\ UNCHANGED acc
ASpec == AInit /\ [][ANext]_<<acc, input>>

\* Where there is hardly a decimal or a string to look at, what depends on neither is looked
\* at: in three states, which TLC's workers can share.
Elsewhere == acc = New(0, -1) /\ input = <<>>
ReadElsewhere == acc = New(0, -1) /\ input = <<0>>
TrustElsewhere == acc = New(0, -1) /\ input = <<1>>

\* Arithmetic: decimals compute what fractions compute, rounded as their names say
\* (decimal.go:392-895); secrets are shared over a field (galois/shamir.go:85-149);
\* an overflow of machine words is reported exactly when there is one, and a slice
\* of data is filled with zeros, as long as its end is a machine word
\* (util/math/integer.go:20-35, big.go:103-166, util/conv/bytes.go:288-322); limbs that
\* carry late compute in the field (ecdsa_field.go:186-1024), and the formulas for
\* points and the two ways to multiply them in the group (ecdsa_s256.go:81-535,
\* sm2/p256.go:54-565);
\* the permutation and the compression behind the hashes are those of their standards
\* (sha3/keccakf.go:38-409, sm3/sm3.go:15-107), and a Merkle root is that of its tree
\* (sha2/sha256.go:128-150); the numeric instructions of wagon are those of WebAssembly
\* but for the named exceptions (wagon/exec/num.go:14-508); and decimals are shifted by
\* bits exactly (util/decimal/decimal-go.go:109-414); and public keys derive what
\* private keys do (bip32.go:92-173).
Arithmetic ==
  /\ SameNumber /\ Division /\ RoundNearest /\ CashNearest
  /\ FieldLaws /\ OverflowExact /\ DataPadded /\ PublicCommutes
  /\ Elsewhere => /\ Fields!NormalizeExact /\ Fields!ProductExact /\ Fields!InverseExact
                  /\ Curve256!GroupLaw /\ Curve256!ScalarsExact
                  /\ Chinese!PointsAdded /\ Chinese!MultiplesExact
                  /\ Hashed!PermutationStandard /\ Hashed!StandardExample /\ Signatures!RootOfTree
                  /\ Numeric!NumericStandard /\ Numeric!CodesComplete
                  /\ Floats!CheatsExact /\ Floats!ShiftExact /\ Dropping!ShiftExact /\ Floats!WithExponent

\* ReadBack: what was encoded is read back, and what was not is refused: LEB128
\* (leb128/read.go:16-89), base58 with its leading zeros (base58.go:57-140), the
\* entropy of a mnemonic (bip39.go:110-206), an address behind its check digits
\* (base36.go:31-120), a secret from enough of its shares, and from no fewer
\* (galois/shamir.go:156-266), and a derived key (bip32.go:196-269);
\* a key, also from a signature alone (ecdsa/signature.go:43-263), a wasm module from
\* its sections (wagon/wasm/section.go:119-988, encode.go:18-83), and a text from its
\* encryption (aes/aes.go:14-108); a hash takes and gives bytes in any pieces
\* (sha3/sha3.go:50-171, sm3/sm3.go:29-184) and is kept as a number (ecdsa/hash.go:44-102); a float is told by
\* the fewest digits of a decimal (util/decimal/rounding.go:24-118); and a text and the
\* keys of SM2 from their bytes (sm2/sm2.go:97-123, 398-606).
ReadBack ==
  /\ LebReadBack /\ Base58Exact /\ MnemonicExact /\ ICAPExact
  /\ SharesExact /\ KeyReadBack
  /\ ReadElsewhere => Signatures!KeysReadBack /\ Signatures!SignaturesRecover
  /\ ReadElsewhere => Binary!SectionsReadBack /\ Binary!WrittenAsRead
  /\ ReadElsewhere => Hashed!PiecesDoNotMatter /\ Hashed!SumLeavesState /\ Hashed!ClonesGoOn /\ Hashed!StreamHashed
  /\ ReadElsewhere => Hashed!EncryptedReadBack /\ Signatures!HashesKept
  /\ ReadElsewhere => Floats!ShortestReadBack /\ Chinese!TextsReadBack /\ Chinese!KeysKept

\* Trusted: a chain of certificates that is accepted is good all along, a good one is found,
\* and names and usages match as they should (sm2/verify.go:164-554, cert_pool.go:62-204);
\* certificates and requests are read back as they were made, nothing critical is
\* overlooked, and signatures hold but for the named combinations (sm2/x509.go:966-2431);
\* a signature of SM2 is accepted for what it was made for only (sm2/sm2.go:169-380).
Trusted ==
  TrustElsewhere => /\ Chained!ChainsSound /\ Chained!ChainsFound /\ Chained!UsagesCrossed
                    /\ Chained!NamesMatched /\ Chained!RootsOnce
                    /\ Certified!ExtensionsReadBack /\ Certified!CriticalKept /\ Certified!SignedVerifies
                    /\ Certified!RequestsReadBack /\ Certified!ParentsKept
                    /\ Chinese!SignaturesExact /\ Chinese!NamesDiffer
==============================================================================
