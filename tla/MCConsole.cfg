CONSTANTS
  Readers = {r1, r2}
  Writers = {w1}
  INPUT_BUF = 2
  UART_TX_BUF_SIZE = 1
  WRAP = 4
  TXWRAP = 2
  ReadSizes = {2}
  WriteSizes = {1}
  MaxKilled = 1
  MaxRx = 1
SYMMETRY Symmetry
VIEW View
SPECIFICATION ConsoleSpec
INVARIANTS InputReadable OutputMoves
