----------------------------- MODULE Registers ------------------------------
(***************************************************************************)
(* The addresses of the registers of the 82599, from src/ixy82599/         *)
(* constants.rs, section by section, and those of them that the driver     *)
(* uses.                                                                   *)
(*                                                                         *)
(* A section lists, in the order of the source, the registers with an      *)
(* address of their own and the arrays of registers as <<first, stride,    *)
(* count>>.  A function with cases is an array per case; an array with two *)
(* indices is one with both.  Left out are names for the same register     *)
(* (IXGBE_FLA_X540 is IXGBE_FLA), fields and their values, IXGBE_MSIXT and *)
(* IXGBE_MSIXPBA, which are in another BAR, and the sections after the     *)
(* statistics: virtual functions, which have registers of the physical     *)
(* function under names of their own, and the PHYs of other devices.       *)
(***************************************************************************)
EXTENDS Naturals, Sequences, FiniteSets

\* General registers
General ==
  [single |-> <<0, 8, \h18, \h20, \h28, \h28, \h15F5C, \h28, \h30, \h100,
     \h104, \h108, \h200, \h48, \h4C, \h600, \h5078>>,
   array |-> <<>>]

\* NVM
Nvm ==
  [single |-> <<\h10010, \h15FF8, \h10014, \h10018, \h1001C, \h15F68,
     \h10110, \h10114, \h10118, \h1011C, \h10120, \h1013C, \h10200, \h15F64,
     \h10210, \h15F6C, \h10218, \h10204, \h10208>>,
   array |-> <<>>]

\* Interrupts
Interrupt ==
  [single |-> <<\h800, \h808, \h880, \h888, \h810, \h890, \hA00, \h894,
     \h898>>,
   array |-> <<<<\hA90, 4, 2>>, <<\hAA0, 4, 2>>, <<\hAB0, 4, 2>>,
     <<\hAD0, 4, 2>>, <<\h820, 4, 24>>, <<\h12300, 4, 104>>, <<\h900, 4, 64>>,
     <<\h11068, 4, 1>>, <<\h110C4, 4, 7>>>>]

\* Flow control
FlowControl ==
  [single |-> <<\h3210, \h3214, \h4328, \h432C, \h3008, \h32A0, \h3D00,
     \hCE00>>,
   array |-> <<<<\h3260, 4, 8>>, <<\h3220, 4, 8>>, <<\h3200, 4, 4>>,
     <<\h3220, 8, 8>>, <<\h3260, 8, 8>>>>]

\* Receive DMA
RxDma ==
  [single |-> <<\h3028, \h2F20, \h3190, \h3024, \h2F00, \h3000, \h3D04>>,
   array |-> <<<<\h1000, \h40, 64>>, <<\hD000, \h40, 64>>,
     <<\h1004, \h40, 64>>, <<\hD004, \h40, 64>>, <<\h1008, \h40, 64>>,
     <<\hD008, \h40, 64>>, <<\h1010, \h40, 64>>, <<\hD010, \h40, 64>>,
     <<\h1018, \h40, 64>>, <<\hD018, \h40, 64>>, <<\h1028, \h40, 64>>,
     <<\hD028, \h40, 64>>, <<\h102C, \h40, 64>>, <<\hD02C, \h40, 64>>,
     <<\h2100, 4, 16>>, <<\h1414, \h40, 48>>, <<\hD014, \h40, 64>>,
     <<\h2200, 4, 16>>, <<\h140C, \h40, 48>>, <<\hD00C, \h40, 64>>,
     <<\h3C00, 4, 8>>>>]

\* Receive, filters, virtualization, RSS
Rx ==
  [single |-> <<\h5000, \h5008, \h2F08, \h2F8C, \h5080, \h5088, \h5090,
     \h5818, \hEC30, \hEC70, \h8120, \h50B0, \h50B4, \h51B0, \h2F04, \h2FA8,
     \h8108, \h2FA4, \h8124, \h51B8, \hEC90, \h5AC0, \h581C>>,
   array |-> <<<<\h5200, 4, 128>>, <<\h5400, 8, 16>>, <<\hA280, 8, 112>>,
     <<\h5404, 8, 16>>, <<\hA284, 8, 112>>, <<\hA600, 8, 128>>,
     <<\hA604, 8, 128>>, <<\h5480, 4, 16>>, <<\hEA40, 4, 112>>,
     <<\hA000, 4, 128>>, <<\hA200, 4, 512>>, <<\hE000, 4, 128>>,
     <<\hE200, 4, 128>>, <<\hE400, 4, 128>>, <<\hE600, 4, 128>>,
     <<\h5128, 4, 8>>, <<\hEC00, 4, 8>>, <<\hF100, 4, 64>>,
     <<\hF200, 4, 128>>, <<\h8000, 4, 64>>, <<\h4B00, 4, 64>>,
     <<\h13000, \h40, 64>>, <<\h710, 4, 4>>, <<\h720, 4, 4>>,
     <<\h51E0, 4, 2>>, <<\h8110, 4, 2>>, <<\h8790, 4, 2>>, <<\h5180, 4, 2>>,
     <<\hF000, 4, 64>>, <<\hF400, 4, 128>>, <<\hF600, 4, 4>>,
     <<\hF610, 4, 4>>, <<\hF630, 4, 4>>, <<\h2FB0, 4, 4>>, <<\h8130, 4, 4>>,
     <<\hE800, 4, 128>>, <<\h5A80, 4, 8>>, <<\h5AA0, 4, 8>>,
     <<\h5C00, 4, 32>>, <<\hEE80, 4, 96>>, <<\h5C80, 4, 10>>,
     <<\h3400, 4, 64>>, <<\h18000, 4, 1024>>, <<\h19000, 4, 1024>>>>]

\* Flow director
FlowDirector ==
  [single |-> <<\hEE00, \hEE68, \hEE6C, \hEE3C, \hEE40, \hEE44, \hEE48,
     \hEE78, \hEE74, \hEE70, \hEE38, \hEE4C, \hEE50, \hEE54, \hEE58, \hEE5C,
     \hEE18, \hEE1C, \hEE20, \hEE24, \hEE28, \hEE2C>>,
   array |-> <<<<\hEE0C, 4, 3>>>>]

\* Transmit DMA
TxDma ==
  [single |-> <<\h7E00, \h4A80, \h8220, \h8100, \h4A88, \h4A8C, \hCA00>>,
   array |-> <<<<\h6000, \h40, 128>>, <<\h6004, \h40, 128>>,
     <<\h6008, \h40, 128>>, <<\h6010, \h40, 128>>, <<\h6018, \h40, 128>>,
     <<\h6028, \h40, 128>>, <<\h6038, \h40, 128>>, <<\h603C, \h40, 128>>,
     <<\h8200, 4, 8>>, <<\h4950, 4, 8>>>>]

\* Transmit DCA and packet buffer
TxBuffer ==
  [single |-> <<\hCB00, \hCD10>>,
   array |-> <<<<\h7200, 4, 16>>, <<\h600C, \h40, 128>>, <<\hCC00, 4, 8>>>>]

\* Wake up and proxying
WakeUp ==
  [single |-> <<\h5800, \h5808, \h5810, \h5838, \h5840, \h5880, \h5900,
     \h5A00, \h5F60, \h5F64, \h507C>>,
   array |-> <<<<\h9000, \h100, 4>>, <<\h9800, \h100, 2>>,
     <<\h9600, \h100, 6>>>>]

\* DCB of the 82598
Dcb82598 ==
  [single |-> <<\h3D00, \h7F40, \hCD00, \h50A0>>,
   array |-> <<<<\h3C20, 4, 8>>, <<\h3C40, 4, 8>>, <<\h602C, \h40, 8>>,
     <<\h622C, \h40, 8>>, <<\hCD20, 4, 8>>, <<\hCD40, 4, 8>>>>]

\* DMA coalescing
Coalescing ==
  [single |-> <<\h15F20, \h2400, \h2404>>,
   array |-> <<<<\h3300, 4, 8>>>>]

\* EEE
Eee ==
  [single |-> <<\h43A0, \h4398, \h4380, \h41F4, \h41F8>>,
   array |-> <<>>]

\* Security
Security ==
  [single |-> <<\h8800, \h8804, \h8808, \h8810, \h8D00, \h8D04>>,
   array |-> <<>>]

\* LinkSec
LinkSec ==
  [single |-> <<\h8A00, \h8F00, \h8A04, \h8A08, \h8A0C, \h8A10, \h8A14,
     \h8A18, \h8F04, \h8F08, \h8F0C, \h8A3C, \h8A40, \h8A44, \h8A48, \h8A4C,
     \h8F40, \h8F44, \h8F48, \h8F4C, \h8F50, \h8F54, \h8F58, \h8F5C, \h8F60,
     \h8F7C, \h8F80>>,
   array |-> <<<<\h8A1C, 4, 4>>, <<\h8A2C, 4, 4>>, <<\h8F10, 4, 2>>,
     <<\h8F18, 4, 2>>, <<\h8F20, 4, 8>>, <<\h8F64, 4, 2>>, <<\h8F6C, 4, 2>>,
     <<\h8F74, 4, 2>>>>]

\* IpSec
IpSec ==
  [single |-> <<\h8900, \h8904, \h8E00, \h8E14, \h8E18, \h8E2C, \h8E30>>,
   array |-> <<<<\h8908, 4, 4>>, <<\h8E04, 4, 4>>, <<\h8E1C, 4, 4>>>>]

\* DCB
Dcb ==
  [single |-> <<\h2430, \h4900, \hCD00, \h3020, \hC800, \h4904, \h4908,
     \h490C, \h4990, \h4984, \h4980, \h4988, \h8B00, \h8B04, \h8B08, \h4A90,
     \h8B0C, \h8B10, \h8B14, \h5150, \h498C>>,
   array |-> <<<<\h2140, 4, 8>>, <<\h82E0, 4, 4>>, <<\h2160, 4, 8>>,
     <<\h4910, 4, 8>>, <<\h4930, 4, 8>>, <<\hCD20, 4, 8>>, <<\hCD40, 4, 8>>>>]

\* FCoE
Fcoe ==
  [single |-> <<\h4A94, \h4A98, \h5158, \h51F8, \h5114, \h510C, \h5108,
     \h5110, \h51D8>>,
   array |-> <<<<\h28000, 4, 2048>>, <<\h30000, 4, 512>>>>]

\* Statistics
Stats ==
  [single |-> <<\h4000, \h4004, \h4008, \h4010, \h4034, \h4038, \h4040,
     \h3F60, \hCF60, \h3F68, \hCF68, \h41A4, \h41A8, \h405C, \h4060, \h4064,
     \h4068, \h406C, \h4070, \h4074, \h4078, \h407C, \h4080, \h4088, \h408C,
     \h4090, \h4094, \h40A4, \h40A8, \h40AC, \h40B0, \h40B4, \h40B8, \hCF90,
     \h40C0, \h40C4, \h40D0, \h40D4, \h40D8, \h40DC, \h40E0, \h40E4, \h40E8,
     \h40EC, \h40F0, \h40F4, \h4120, \h8780, \h5118, \h241C, \h2424, \h2428,
     \h242C, \h8784, \h8788, \h41C4, \h87B0, \h41C0, \h2F90, \h4180, \h4184,
     \h4188, \h418C, \h4190, \h4194, \h4198, \h419C, \h41E0, \h41E4, \h41E8>>,
   array |-> <<<<\h3FA0, 4, 8>>, <<\h4140, 4, 8>>, <<\h4160, 4, 8>>,
     <<\h3240, 4, 8>>, <<\h3F00, 4, 8>>, <<\hCF00, 4, 8>>, <<\h3F20, 4, 8>>,
     <<\hCF20, 4, 8>>, <<\h3FC0, 4, 8>>, <<\h2300, 4, 32>>, <<\h7300, 4, 8>>,
     <<\h8620, 4, 24>>, <<\h8600, 4, 32>>, <<\h1030, \h40, 16>>,
     <<\h6030, \h40, 16>>, <<\h1034, \h40, 16>>, <<\h6034, \h40, 16>>,
     <<\h1034, \h40, 16>>, <<\h1038, \h40, 16>>, <<\h1430, \h40, 16>>,
     <<\h8700, 8, 16>>, <<\h8704, 8, 16>>>>]

\* Management
Management ==
  [single |-> <<\h5820, \h5824, \h5860, \h58B0, \h9400, \h15F14, \h5060>>,
   array |-> <<<<\h5010, 4, 8>>, <<\h5030, 4, 8>>, <<\h5890, 4, 8>>,
     <<\h5910, 8, 4>>, <<\h5914, 8, 4>>, <<\h5190, 4, 4>>, <<\h5160, 4, 8>>,
     <<\h5050, 4, 4>>>>]

\* ARC subsystem
Arc ==
  [single |-> <<\h15F00, \h15F0C, \h15F04, \h15F08, \h15F10, \h15FE8, \h15800>>,
   array |-> <<>>]

\* PCI Express
Pcie ==
  [single |-> <<\h11000, \h11004, \h11008, \h1100C, \h11004, \h11008,
     \h11010, \h11014, \h11018, \h1101C, \h11020, \h11024, \h11028, \h1102C,
     \h10150, \h11800, \h11804, \h11820, \h11824, \h11828, \h1182C, \h15FEC,
     \h11040, \h10140, \h15F70, \h10148, \h15F74, \h15F78, \h10160, \h11064,
     \h11070, \h11074>>,
   array |-> <<>>]

\* PCI Express, 82599
Pcie82599 ==
  [single |-> <<\h11050, \h11030, \h11034, \h11038, \h1103C, \h11040,
     \h11044, \h11048, \h11068, \h11088, \h1108C, \h11810, \h11814, \h11818,
     \h1181C, \h11508, \h11510, \h110B0, \h110B8, \h110B4, \h110BC, \h110F0,
     \h11100, \h11104, \h110E0, \h110F4>>,
   array |-> <<>>]

\* Time sync
TimeSync ==
  [single |-> <<\h5188, \h8C00, \h51E8, \h51A4, \h51A0, \h51A8, \h5120,
     \h8C04, \h8C08, \h8C0C, \h8C10, \h8C58, \h8C14, \h8C18, \h8C1C, \h8C20,
     \h8C24, \h8C28, \h8C2C, \h8C30, \h8C34, \h8C38, \h8C34, \h8C38, \h8C3C,
     \h8C40, \h8C44, \h8C48, \h8C68, \h8C60, \h3C>>,
   array |-> <<>>]

\* Diagnostics
Diagnostic ==
  [single |-> <<\h2C20, \h2F08, \h2F20, \h2F30, \h2F34, \h7F08, \h82FC,
     \h82CC, \h7F20, \hC600, \hC610, \hC614, \hC618, \hC61C, \h3600, \h3610,
     \h3614, \h3618, \h361C, \h50A4, \h42B8, \h42C0, \h42C4, \h42C8, \h42CC,
     \h1106C, \h11100, \h11104, \h3F70, \hCF70, \h3F74, \hCF74, \hC300,
     \h3300, \h110B0>>,
   array |-> <<<<\h2C00, 4, 8>>, <<\h2F10, 4, 4>>, <<\h7F10, 4, 4>>,
     <<\h82B0, 4, 4>>, <<\h11090, 4, 8>>, <<\h3700, 4, 8>>, <<\h3710, 4, 8>>,
     <<\h3720, 4, 8>>, <<\h3730, 4, 8>>, <<\hC700, 4, 8>>, <<\hC710, 4, 8>>,
     <<\hC720, 4, 8>>, <<\hC730, 4, 8>>, <<\h3100, 4, 8>>, <<\h3120, 4, 8>>,
     <<\h3140, 4, 8>>, <<\h3160, 4, 8>>, <<\hC100, 4, 8>>, <<\hC120, 4, 8>>,
     <<\hC140, 4, 8>>, <<\hC160, 4, 8>>>>]

\* MAC
Mac ==
  [single |-> <<\h4200, \h4208, \h420C, \h4210, \h4214, \h4218, \h421C,
     \h4220, \h4224, \h4240, \h4244, \h4248, \h424C, \h4250, \h4254, \h4258,
     \h425C, \h4260, \h4264, \h4268, \h4268, \h426C, \h4288, \h428C, \h4290,
     \h4294, \h4298, \h4298, \h429C, \h42A0, \h42A4, \h4324, \h42A8, \h42AC,
     \h42B0, \h42B4, \h4330, \h4800, \h42D0, \h42D4, \h42D8, \h42E0, \h42E4,
     \h42E8, \h42EC, \h14F10, \h4318, \h4314>>,
   array |-> <<>>]

\* More statistics
Stats2 ==
  [single |-> <<\h41B0, \h41B4, \h41B8, \h2F50, \h2F54, \h2F58, \h2F5C,
     \h2F60, \h2F64, \h2F68, \h2F6C, \h2F70, \h2F74, \h2F78, \h2F7C, \h87A0,
     \h87A4, \h87A8, \h2F40>>,
   array |-> <<>>]

Sections ==
  <<General, Nvm, Interrupt, FlowControl, RxDma, Rx, FlowDirector, TxDma,
    TxBuffer, WakeUp, Dcb82598, Coalescing, Eee, Security, LinkSec,
    IpSec, Dcb, Fcoe, Stats, Management, Arc, Pcie, Pcie82599, TimeSync,
    Diagnostic, Mac, Stats2>>

-----------------------------------------------------------------------------
(* The registers the driver uses.                                          *)

\* 64 receive queues follow each other; the others are elsewhere.
RxRegister(offset, q) ==
  IF q < 64 THEN \h1000 + offset + q * \h40 ELSE \hD000 + offset + (q - 64) * \h40

\* Fault: the first 16 queues are with the others.
IXGBE_SRRCTL_wide(q) == RxRegister(\h14, q)

IXGBE_SRRCTL(q) == IF q <= 15 THEN \h2100 + q * 4 ELSE RxRegister(\h14, q)

IXGBE_DCA_RXCTRL(q) == IF q <= 15 THEN \h2200 + q * 4 ELSE RxRegister(\hC, q)

TxRegister(offset, q) == \h6000 + offset + q * \h40

IXGBE_RAL(q) == IF q <= 15 THEN \h5400 + q * 8 ELSE \hA200 + q * 8

IXGBE_RAH(q) == IF q <= 15 THEN \h5404 + q * 8 ELSE \hA204 + q * 8

IXGBE_RXPBSIZE(q) == \h3C00 + q * 4

IXGBE_TXPBSIZE(q) == \hCC00 + q * 4

RxQueueRegisters(q) ==
  [SRRCTL |-> IXGBE_SRRCTL(q), DCA_RXCTRL |-> IXGBE_DCA_RXCTRL(q),
   RDBAL |-> RxRegister(0, q), RDBAH |-> RxRegister(4, q), RDLEN |-> RxRegister(8, q),
   RDH |-> RxRegister(\h10, q), RDT |-> RxRegister(\h18, q),
   RXDCTL |-> RxRegister(\h28, q)]

TxQueueRegisters(q) ==
  [TDBAL |-> TxRegister(0, q), TDBAH |-> TxRegister(4, q), TDLEN |-> TxRegister(8, q),
   TDH |-> TxRegister(\h10, q), TDT |-> TxRegister(\h18, q),
   TXDCTL |-> TxRegister(\h28, q)]

DeviceRegisters ==
  [CTRL |-> 0, CTRL_EXT |-> \h18, EEC |-> \h10010, EICR |-> \h800, EIMS |-> \h880,
   EIMC |-> \h888, AUTOC |-> \h42A0, LINKS |-> \h42A4, HLREG0 |-> \h4240,
   FCTRL |-> \h5080, RXCTRL |-> \h3000, RDRXCTL |-> \h2F00, DMATXCTL |-> \h4A80,
   DTXMXSZRQ |-> \h8100, RTTDCS |-> \h4900, GPRC |-> \h4074, GPTC |-> \h4080,
   GORCL |-> \h4088, GORCH |-> \h408C, GOTCL |-> \h4090, GOTCH |-> \h4094]

\* What the driver uses, of which queue, and its address, with n queues of each kind.
Uses(n) ==
  LET Use(registers, q) == {<<f, q, registers[f]>> : f \in DOMAIN registers}
  IN  Use(DeviceRegisters, 0)
        \union Use([RAL |-> IXGBE_RAL(0), RAH |-> IXGBE_RAH(0)], 0)
        \union UNION {Use([RXPBSIZE |-> IXGBE_RXPBSIZE(q),
                           TXPBSIZE |-> IXGBE_TXPBSIZE(q)], q) : q \in 0 .. 7}
        \union UNION {Use(RxQueueRegisters(q), q) : q \in 0 .. n - 1}
        \union UNION {Use(TxQueueRegisters(q), q) : q \in 0 .. n - 1}

-----------------------------------------------------------------------------
\* The length of the file resource0, which holds the first BAR of the 82599.
ResourceLength == \h20000

\* get_reg32() and set_reg32() access a register.
InBounds(reg) == reg <= ResourceLength - 4

\* The entries of the table that a register belongs to.
TableEntries(reg) ==
  UNION {{<<s, "single", e>> : e \in {j \in DOMAIN Sections[s].single :
                                        Sections[s].single[j] = reg}}
          \union
         {<<s, "array", e>> : e \in {j \in DOMAIN Sections[s].array :
            LET a == Sections[s].array[j]
            IN  /\ reg >= a[1] /\ (reg - a[1]) % a[2] = 0
                /\ (reg - a[1]) \div a[2] < a[3]}}
         : s \in DOMAIN Sections}

\* With 64 queues of each kind, every register the driver uses is one of the
\* device, in the mapped memory, aligned, the only one with its address, and
\* used for one purpose.
RegistersSound ==
  LET uses == Uses(64)
  IN  /\ \A u \in uses : /\ InBounds(u[3]) /\ u[3] % 4 = 0
                         /\ Cardinality(TableEntries(u[3])) = 1
      /\ Cardinality({u[3] : u \in uses}) = Cardinality(uses)

=============================================================================
